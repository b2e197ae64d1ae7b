-------------------------------- MODULE Cron --------------------------------
(***************************************************************************)
(* The scheduler of the jobs (ir_cron): several workers poll the jobs that *)
(* are due, by their nextcall or by a trigger, lock one at a time, call it *)
(* in a transaction of its own and then, in the transaction that holds the *)
(* lock, write when it is due next and delete the triggers it answered.    *)
(*                                                                         *)
(* Transactions are snapshots (sql_db.py:275): a worker finds jobs in the  *)
(* database as it was when its transaction began, and is refused a row     *)
(* that another transaction has changed since.  What a job does is left    *)
(* open: each call of it may fail.  A worker may be killed, or leave its   *)
(* round by an exception, at any point.  A job that is deleted is one that *)
(* is never active again; old triggers are not collected.                  *)
(***************************************************************************)
EXTENDS Integers

CONSTANTS
    Worker, Job, NoWorker, NoJob,
    Interval,    \* the interval_number each job is created with, in moments
    NumberCall,  \* the numbercall each job is created with; -1 is no limit
    DoAll,       \* the jobs that make up for the calls they missed
    MaxFail,     \* MAX_FAIL_TIME
    TriggerId,   \* bound: the triggers there are at a time
    MaxTime,     \* bound on now
    Triggered,   \* bound: the jobs that are triggered
    Delays,      \* bound: how far from now a trigger may be
    Numbers,     \* bound: the numbercalls that users give
    Intervals,   \*   and the interval_numbers; with 0 the loop of _process_job
                 \*   does not end, which is left out
    MaxOdd       \* bound: writes of jobs by users, upgrades, and lost workers

ASSUME JobAssumption ==
    /\ Interval \in [Job -> Nat \ {0}] /\ Intervals \subseteq Nat \ {0}
    /\ NumberCall \in [Job -> Nat \union {-1}] /\ Numbers \subseteq Nat \union {-1}
    /\ DoAll \subseteq Job
    /\ MaxFail \in Nat \ {0}
    /\ NoWorker \notin Worker /\ NoJob \notin Job
ASSUME BoundAssumption ==
    MaxTime \in Nat /\ MaxOdd \in Nat /\ Delays \subseteq Int /\ Triggered \subseteq Job

VARIABLES
    now,
    next,      \* nextcall of each job
    left,      \* numbercall of each job
    active,    \* the jobs that are active
    interval,  \* interval_number of each job
    triggers,  \* rows of ir_cron_trigger
    lock,      \* the worker that has locked the row of each job
    changing,  \* a module is to be installed, upgraded or removed
    pc,        \* what each worker does
    todo,      \* the jobs its round has still to look at
    open,      \* the workers looking for a job in a snapshot:
    start,     \*   when it was taken,
    can,       \*   the jobs that were ready,
    seen,      \*   the triggers there were,
    changed,   \*   and the jobs that were changed since
    job,       \* the job each worker has locked
    answered,  \* the triggers of it that the worker will delete
    time,      \* when it began to process it
    calls,     \* the calls of it that are still to be made
    effect,    \* the workers whose calls did something that is not undone,
    view,      \*   and which of the triggers answered were there when they did
    odd,       \* how many of these there were
    ran,       \* history: jobs called, and committed, since nextcall was written
    redo,      \* history: those whose worker was lost before it wrote nextcall
    limit,     \* history: the numbercall each job was last given,
    called     \* history:   and the calls it has counted since

rows == <<next, left, active, interval, triggers, changing>>
snapshot == <<open, start, can, seen, changed>>
running == <<job, answered, time, calls, effect, view>>
history == <<ran, redo, limit, called>>
vars == <<now, rows, lock, pc, todo, snapshot, running, odd, history>>

Trigger == [id : TriggerId, job : Job, at : Nat]

-----------------------------------------------------------------------------
(* Rules. *)

Enabled(j) == j \in active /\ left[j] # 0

\* The WHERE of _get_all_ready_jobs and of _acquire_one_job
Ready ==
    {j \in Job : /\ Enabled(j)
                 /\ next[j] <= now \/ \E x \in triggers : x.job = j /\ x.at <= now}

Overdue(d) == \E j \in Ready : now - next[j] >= d

\* The calls of j that were missed at t
Missed(j, t) == IF next[j] <= t THEN (t - next[j]) \div interval[j] + 1 ELSE 0

\* Mutant: a job that makes up for missed calls makes all of them
Calls_Unbounded(j, t) == IF Missed(j, t) = 0 \/ j \notin DoAll THEN 1 ELSE Missed(j, t)

\* effective_call_count
Calls(j, t) ==
    IF Missed(j, t) = 0 \/ j \notin DoAll THEN 1
    ELSE IF left[j] = -1 \/ Missed(j, t) < left[j] THEN Missed(j, t)
    ELSE left[j]

\* Mutant: the calls of a job without limit are counted down
LeftAfter_Unlimited(j, n) == left[j] - n

\* call_count_left
LeftAfter(j, n) == IF left[j] - n < -1 THEN -1 ELSE left[j] - n

-----------------------------------------------------------------------------

Init ==
    /\ now = 0
    /\ next = [j \in Job |-> 0]
    /\ left = NumberCall
    /\ active = Job
    /\ interval = Interval
    /\ triggers = {}
    /\ lock = [j \in Job |-> NoWorker]
    /\ changing = FALSE
    /\ pc = [w \in Worker |-> "poll"]
    /\ todo = [w \in Worker |-> {}]
    /\ open = {}
    /\ start = [w \in Worker |-> 0]
    /\ can = [w \in Worker |-> {}]
    /\ seen = [w \in Worker |-> {}]
    /\ changed = [w \in Worker |-> {}]
    /\ job = [w \in Worker |-> NoJob]
    /\ answered = [w \in Worker |-> {}]
    /\ time = [w \in Worker |-> 0]
    /\ calls = [w \in Worker |-> 0]
    /\ effect = {}
    /\ view = [w \in Worker |-> {}]
    /\ odd = 0
    /\ ran = {} /\ redo = {}
    /\ limit = NumberCall
    /\ called = [j \in Job |-> 0]

-----------------------------------------------------------------------------
(* A round of a worker. *)

\* A new cron transaction of w, in which it looks at the jobs in S
Snapshot(w, S) ==
    /\ open' = open \union {w}
    /\ start' = [start EXCEPT ![w] = now]
    /\ can' = [can EXCEPT ![w] = S \intersect Ready]
    /\ seen' = [seen EXCEPT ![w] = {x \in triggers : x.job \in S}]
    /\ changed' = [changed EXCEPT ![w] = {}]

\* The snapshot does not matter any more
Forget(w) ==
    /\ open' = open \ {w}
    /\ start' = [start EXCEPT ![w] = 0]
    /\ can' = [can EXCEPT ![w] = {}]
    /\ seen' = [seen EXCEPT ![w] = {}]

\* A transaction, of w if it is a worker, ends and has changed the jobs in S:
\* it matters to the workers that may still lock one of them
Tell(w, S) ==
    changed' = [v \in Worker |-> IF v = w \/ v \notin open THEN {} ELSE changed[v] \union (S \intersect can[v])]

\* Mutant: an upgrade that never ends stops the jobs for good
MayWork_NoReset == ~ changing

\* _check_modules_state
MayWork == ~ changing \/ Overdue(MaxFail)

\* The round begins; modules that were to change for MaxFail are reset
Poll(w) ==
    /\ pc[w] = "poll" /\ Ready # {} /\ MayWork
    /\ changing' = FALSE
    /\ pc' = [pc EXCEPT ![w] = "pick"]
    /\ todo' = [todo EXCEPT ![w] = Ready]
    /\ Snapshot(w, Ready)
    /\ UNCHANGED <<now, next, left, active, interval, triggers, lock, running, odd, history>>

\* The transaction after a commit or a rollback begins
Reopen(w) ==
    /\ pc[w] = "pick" /\ w \notin open
    /\ Snapshot(w, todo[w])
    /\ UNCHANGED <<now, rows, lock, pc, todo, running, odd, history>>

\* w is done with job j of its round
Done(w, j) ==
    /\ todo' = [todo EXCEPT ![w] = @ \ {j}]
    /\ pc' = [pc EXCEPT ![w] = IF todo[w] \subseteq {j} THEN "poll" ELSE "pick"]

\* The job was not ready, or another worker processes it
PassOver(w, j) ==
    /\ pc[w] = "pick" /\ w \in open /\ j \in todo[w]
    /\ j \notin can[w] \/ lock[j] # NoWorker
    /\ Done(w, j)
    /\ IF todo[w] = {j}
       THEN Forget(w) /\ Tell(w, {})
       ELSE /\ can' = [can EXCEPT ![w] = @ \ {j}]
            /\ changed' = [changed EXCEPT ![w] = @ \ {j}]
            /\ UNCHANGED <<open, start, seen>>
    /\ UNCHANGED <<now, rows, lock, running, odd, history>>

\* Another transaction changed its row: serialization failure, and rollback
Conflict(w, j) ==
    /\ pc[w] = "pick" /\ w \in open /\ j \in todo[w]
    /\ j \in can[w] /\ lock[j] = NoWorker /\ j \in changed[w]
    /\ Done(w, j)
    /\ Forget(w) /\ Tell(w, {})
    /\ UNCHANGED <<now, rows, lock, running, odd, history>>

\* Mutants: the row need not be as it was when the worker looked for jobs; a
\* row that another worker has locked is not skipped
Available_Stale(w, j) == lock[j] = NoWorker
Available_Locked(w, j) == j \notin changed[w]

Available(w, j) == lock[j] = NoWorker /\ j \notin changed[w]

\* The DELETE of _process_job sees the snapshot, and its now() is when that began
Answered(w, j) == {x \in seen[w] : x.job = j /\ x.at < start[w]}

\* The job is locked, and the calls to make are counted
Acquire(w, j) ==
    /\ pc[w] = "pick" /\ w \in open /\ j \in todo[w]
    /\ j \in can[w] /\ Available(w, j)
    /\ lock' = [lock EXCEPT ![j] = w]
    /\ pc' = [pc EXCEPT ![w] = "call"]
    /\ job' = [job EXCEPT ![w] = j]
    /\ answered' = [answered EXCEPT ![w] = Answered(w, j)]
    /\ time' = [time EXCEPT ![w] = now]
    /\ calls' = [calls EXCEPT ![w] = Calls(j, now)]
    /\ Forget(w) /\ Tell(w, {})
    /\ UNCHANGED <<now, rows, todo, effect, view, odd, history>>

\* One call: the first one that does something begins the transaction
CallDone(w) ==
    /\ pc[w] = "call" /\ calls[w] > 0
    /\ calls' = [calls EXCEPT ![w] = @ - 1]
    /\ effect' = effect \union {w}
    /\ view' = [view EXCEPT ![w] = IF w \in effect THEN @ ELSE answered[w] \intersect triggers]
    /\ UNCHANGED <<now, rows, lock, pc, todo, snapshot, job, answered, time, odd, history>>

\* A call that raises undoes those before it too
CallFails(w) ==
    /\ pc[w] = "call" /\ calls[w] > 0
    /\ calls' = [calls EXCEPT ![w] = @ - 1]
    /\ effect' = effect \ {w}
    /\ view' = [view EXCEPT ![w] = {}]
    /\ UNCHANGED <<now, rows, lock, pc, todo, snapshot, job, answered, time, odd, history>>

\* The transaction of the job is committed
CommitCalls(w) ==
    /\ pc[w] = "call" /\ calls[w] = 0
    /\ pc' = [pc EXCEPT ![w] = "save"]
    /\ ran' = IF w \in effect THEN ran \union {job[w]} ELSE ran
    /\ UNCHANGED <<now, rows, lock, todo, snapshot, running, odd, redo, limit, called>>

\* Nothing runs at w any more
Rest(w) ==
    /\ job' = [job EXCEPT ![w] = NoJob]
    /\ answered' = [answered EXCEPT ![w] = {}]
    /\ time' = [time EXCEPT ![w] = 0]
    /\ calls' = [calls EXCEPT ![w] = 0]
    /\ effect' = effect \ {w}
    /\ view' = [view EXCEPT ![w] = {}]

\* Mutant: the triggers of a job are deleted whenever they came
Deleted_All(w) == {x \in triggers : x.job = job[w] /\ x.at < now}

\* What the DELETE finds
Deleted(w) == answered[w]

\* The job is rescheduled and its triggers are deleted, whether its calls
\* failed or not; nobody can have written its row in between
Reschedule(w) ==
    LET j == job[w]
        n == Calls(j, time[w])
    IN  /\ pc[w] = "save"
        /\ next' = [next EXCEPT ![j] = @ + Missed(j, time[w]) * interval[j]]
        /\ left' = [left EXCEPT ![j] = LeftAfter(j, n)]
        /\ called' = [called EXCEPT ![j] = IF left[j] = -1 THEN @ ELSE @ + n]
        /\ active' = IF LeftAfter(j, n) = 0 THEN active \ {j} ELSE active
        /\ triggers' = triggers \ Deleted(w)
        /\ ran' = ran \ {j} /\ redo' = redo \ {j}
        /\ lock' = [lock EXCEPT ![j] = NoWorker]
        /\ Tell(w, {j}) /\ Rest(w) /\ Done(w, j)
        /\ UNCHANGED <<now, interval, changing, open, start, can, seen, odd, limit>>

\* The worker is killed, for its time limit too, or its round is left by an
\* exception; both its transactions are rolled back
Abort(w) ==
    /\ pc[w] # "poll"
    /\ odd < MaxOdd /\ odd' = odd + 1
    /\ lock' = [j \in Job |-> IF lock[j] = w THEN NoWorker ELSE lock[j]]
    /\ redo' = IF pc[w] = "save" THEN redo \union {job[w]} ELSE redo
    /\ pc' = [pc EXCEPT ![w] = "poll"]
    /\ todo' = [todo EXCEPT ![w] = {}]
    /\ Forget(w) /\ Tell(w, {}) /\ Rest(w)
    /\ UNCHANGED <<now, rows, ran, limit, called>>

-----------------------------------------------------------------------------
(* Users, and the rest of the program. *)

\* Mutant: a row is written while a worker processes the job
Write_Unlocked(j) ==
    /\ odd < MaxOdd /\ odd' = odd + 1
    /\ Tell(NoWorker, {j})
    /\ UNCHANGED <<now, triggers, lock, changing, pc, todo, open, start, can, seen, running>>

\* The row of j is written: refused while a worker processes it (_try_lock)
Write(j) ==
    /\ lock[j] = NoWorker
    /\ odd < MaxOdd /\ odd' = odd + 1
    /\ Tell(NoWorker, {j})
    /\ UNCHANGED <<now, triggers, lock, changing, pc, todo, open, start, can, seen, running>>

SetNextCall(j, t) ==
    /\ Write(j)
    /\ next' = [next EXCEPT ![j] = t]
    /\ ran' = ran \ {j} /\ redo' = redo \ {j}
    /\ UNCHANGED <<left, active, interval, limit, called>>

SetActive(j) ==
    /\ Write(j)
    /\ active' = IF j \in active THEN active \ {j} ELSE active \union {j}
    /\ UNCHANGED <<next, left, interval, history>>

SetNumberCall(j, n) ==
    /\ Write(j)
    /\ left' = [left EXCEPT ![j] = n]
    /\ limit' = [limit EXCEPT ![j] = n]
    /\ called' = [called EXCEPT ![j] = 0]
    /\ UNCHANGED <<next, active, interval, ran, redo>>

SetInterval(j, n) ==
    /\ Write(j)
    /\ interval' = [interval EXCEPT ![j] = n]
    /\ UNCHANGED <<next, left, active, history>>

\* method_direct_trigger writes lastcall at its end, so that all it did is
\* undone if a worker processes the job
RunByHand(j) == Write(j) /\ UNCHANGED <<next, left, active, interval, history>>

\* _trigger: the row may come to be seen a moment after it was due, and its
\* foreign key does not wait for the lock of the job
AddTrigger(j, id, d) ==
    /\ \A x \in triggers : x.id # id
    /\ now + d >= 0
    /\ j \in active \/ d > 0
    /\ triggers' = triggers \union {[id |-> id, job |-> j, at |-> now + d]}
    /\ UNCHANGED <<now, next, left, active, interval, lock, changing, pc, todo, snapshot, running, odd,
                   history>>

\* A module is marked to be upgraded, and later is, or the upgrade is lost
SetChanging ==
    /\ odd < MaxOdd /\ odd' = odd + 1
    /\ changing' = ~ changing
    /\ UNCHANGED <<now, next, left, active, interval, triggers, lock, pc, todo, snapshot, running,
                   history>>

Tick ==
    /\ now < MaxTime
    /\ now' = now + 1
    /\ UNCHANGED <<rows, lock, pc, todo, snapshot, running, odd, history>>

WorkerStep(w) ==
    \/ Poll(w) \/ Reopen(w)
    \/ \E j \in Job : PassOver(w, j) \/ Conflict(w, j) \/ Acquire(w, j)
    \/ CallDone(w) \/ CallFails(w) \/ CommitCalls(w) \/ Reschedule(w)

UserStep(j) ==
    \/ SetActive(j) \/ RunByHand(j)
    \/ \E t \in 0 .. MaxTime : SetNextCall(j, t)
    \/ \E n \in Numbers : SetNumberCall(j, n)
    \/ \E n \in Intervals : SetInterval(j, n)

Next ==
    \/ \E w \in Worker : WorkerStep(w) \/ Abort(w)
    \/ \E j \in Job : UserStep(j)
    \/ \E j \in Triggered, id \in TriggerId, d \in Delays : AddTrigger(j, id, d)
    \/ SetChanging \/ Tick

\* The threads of the server go on polling (cron_thread)
Fairness == \A w \in Worker : WF_vars(WorkerStep(w))

Spec == Init /\ [][Next]_vars /\ Fairness

-----------------------------------------------------------------------------
(* What the scheduler promises. *)

TypeOK ==
    /\ now \in 0 .. MaxTime
    /\ next \in [Job -> Nat]
    /\ left \in [Job -> Nat \union {-1}]
    /\ active \subseteq Job
    /\ interval \in [Job -> Nat \ {0}]
    /\ triggers \subseteq Trigger
    /\ lock \in [Job -> Worker \union {NoWorker}]
    /\ changing \in BOOLEAN
    /\ pc \in [Worker -> {"poll", "pick", "call", "save"}]
    /\ todo \in [Worker -> SUBSET Job]
    /\ open \subseteq Worker
    /\ start \in [Worker -> Nat]
    /\ can \in [Worker -> SUBSET Job]
    /\ seen \in [Worker -> SUBSET Trigger]
    /\ answered \in [Worker -> SUBSET Trigger]
    /\ changed \in [Worker -> SUBSET Job]
    /\ job \in [Worker -> Job \union {NoJob}]
    /\ time \in [Worker -> Nat]
    /\ calls \in [Worker -> Nat]
    /\ effect \subseteq Worker
    /\ view \in [Worker -> SUBSET Trigger]
    /\ odd \in 0 .. MaxOdd
    /\ ran \subseteq Job /\ redo \subseteq Job
    /\ limit \in [Job -> Nat \union {-1}]
    /\ called \in [Job -> Nat]

\* "We have to make sure ALL jobs are executed ONLY ONCE no matter how many cron
\* workers may process them" (ir_cron.py:211): between two writes of nextcall the
\* calls of a job are committed once, unless a worker was lost after them and
\* before it could write.
OnlyOnce ==
    [][\A w \in Worker : pc[w] = "call" /\ pc'[w] = "save" /\ w \in effect =>
          job[w] \notin ran \/ job[w] \in redo]_vars

\* However long ago a worker looked for jobs, the one it locks is due now: it is
\* active, has calls left, and its nextcall or one of its triggers has come.
DueWhenTaken ==
    [][\A w \in Worker : pc[w] = "pick" /\ pc'[w] = "call" => job'[w] \in Ready]_vars

\* A trigger is deleted only by a worker whose calls of the job began when the
\* trigger was there, so that they saw what it was made for, or failed.
TriggersAreServed ==
    [][\A x \in triggers \ triggers' : \E w \in Worker :
          pc[w] = "save" /\ job[w] = x.job /\ (w \in effect => x \in view[w])]_vars

\* A job whose calls are limited never comes to be without limit, unless a user
\* takes the limit away, and the calls counted since numbercall was given are
\* those it has lost.
CallsAreLimited ==
    \A j \in Job : limit[j] # -1 => left[j] >= 0 /\ left[j] + called[j] = limit[j]

\* How far its worker is with job j
Stage(j) ==
    IF lock[j] = NoWorker THEN "idle" ELSE IF pc[lock[j]] = "save" THEN "over" ELSE "kept"

Promise == INSTANCE Roster WITH
    Duty <- Job,
    Keeper <- Worker,
    Nobody <- NoWorker,
    keeper <- lock,
    stage <- [j \in Job |-> Stage(j)],
    done <- ran,
    unsure <- redo,
    due <- Ready,
    terms <- [j \in Job |-> <<next[j], left[j], interval[j], j \in active>>]

\* The snapshots, the locks and the two transactions of a worker amount to a
\* roster: a worker has one job at a time and commits its calls once; from when
\* it locks the job until it has written when it is due next, the job stays due,
\* and its nextcall, numbercall, interval and active stay those the calls are
\* counted from.
KeepsRoster == Promise!Spec

\* Job j is due, no worker has it, and no upgrade keeps the workers from it
Waits(j) ==
    /\ Enabled(j) /\ next[j] <= now
    /\ lock[j] = NoWorker
    /\ ~ changing \/ Overdue(MaxFail)

\* A job that is due does not wait for ever: a worker takes it, however many
\* workers compete for it and whether jobs fail or not; an upgrade that is not
\* finished keeps it waiting for no longer than MaxFail.  And a job that was
\* taken is let go of again, to be taken anew if it is due by then: a job that
\* lasts longer than its interval is.  This unless users go on writing the job
\* and workers are lost for ever.
JobsGoOn ==
    \A j \in Job :
        \/ []<> ~ Waits(j) /\ []<>(lock[j] = NoWorker)
        \/ []<><<odd' # odd>>_odd

=============================================================================
