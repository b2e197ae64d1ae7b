SPECIFICATION Spec
CONSTANTS
    once = once
    often = often
    Worker = {w1, w2}
    Job = {once, often}
    NoWorker = NoWorker
    NoJob = NoJob
    Interval <- MCInterval
    NumberCall <- MCNumberCall
    DoAll <- MCDoAll
    MaxFail = 1
    TriggerId = {1}
    MaxTime = 1
    Triggered = {often}
    Delays <- MCDelays
    Numbers <- MCNumbers
    Intervals <- MCIntervals
    MaxOdd = 1
INVARIANTS
    TypeOK
    CallsAreLimited
PROPERTIES
    OnlyOnce
    DueWhenTaken
    TriggersAreServed
    KeepsRoster
    JobsGoOn
CHECK_DEADLOCK FALSE
