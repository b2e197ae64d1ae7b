---------------------------- MODULE Cron_proofs ----------------------------
(***************************************************************************)
(* Proofs about Cron, for any workers, jobs, intervals, limits of calls    *)
(* and bounds.                                                             *)
(***************************************************************************)
EXTENDS Cron, TLAPS

-----------------------------------------------------------------------------
(* The inductive invariant. *)

Holds(w) == pc[w] \in {"call", "save"}

\* A worker that calls a job has locked it, and is the only one therefore
Locked ==
    \A w \in Worker : Holds(w) => job[w] \in Job /\ lock[job[w]] = w /\ w \notin open

\* Only then has it done anything
Idle == \A w \in Worker : w \in effect => Holds(w)

\* What is not known to have changed since a worker looked is still so
Fresh ==
    \A w \in open : \A j \in can[w] \ changed[w] :
        j \in Ready /\ \A x \in seen[w] : x.job = j => x \in triggers

\* The row of a job that is locked, and the triggers to be deleted, stay
Kept ==
    \A w \in Worker : Holds(w) =>
        /\ left[job[w]] # 0
        /\ \A x \in answered[w] : x \in triggers /\ x.job = job[w]
        /\ w \in effect => answered[w] \subseteq view[w]

\* Calls that are committed wait for their worker to write nextcall, or lost it
Once ==
    \A j \in ran : j \in redo \/ \E w \in Worker : pc[w] = "save" /\ job[w] = j

\* The other way round: only a worker that processes a job has locked it
Taken ==
    \A j \in Job : lock[j] # NoWorker =>
        lock[j] \in Worker /\ Holds(lock[j]) /\ job[lock[j]] = j

\* What made the job due cannot go while it is locked
StillDue == \A j \in Job : lock[j] # NoWorker => j \in Ready

IInv ==
    /\ TypeOK /\ Locked /\ Idle /\ Fresh /\ Kept /\ Once /\ CallsAreLimited
    /\ Taken /\ StillDue

-----------------------------------------------------------------------------
(* The types. *)

LEMMA MissedType ==
    ASSUME TypeOK, NEW j \in Job, NEW t \in Nat
    PROVE  /\ Missed(j, t) \in Nat
           /\ next[j] + Missed(j, t) * interval[j] \in Nat
<1>1. next[j] \in Nat /\ interval[j] \in Nat /\ interval[j] > 0
  BY DEF TypeOK
<1>2. CASE next[j] <= t
  <2>1. (t - next[j]) \div interval[j] \in Nat
    BY <1>1, <1>2
  <2> DEFINE m == (t - next[j]) \div interval[j] + 1
  <2>2. m \in Nat /\ Missed(j, t) = m
    BY <1>2, <2>1 DEF Missed
  <2> HIDE DEF m
  <2>3. m * interval[j] \in Nat
    BY <1>1, <2>2
  <2> QED
    BY <1>1, <2>2, <2>3
<1>3. CASE ~ (next[j] <= t)
  BY <1>1, <1>3 DEF Missed
<1> QED
  BY <1>2, <1>3

LEMMA CallsType ==
    ASSUME TypeOK, NEW j \in Job, NEW t \in Nat
    PROVE  /\ Calls(j, t) \in Nat
           /\ LeftAfter(j, Calls(j, t)) \in Nat \union {-1}
           /\ left[j] # 0 => Calls(j, t) >= 1 /\ (left[j] # -1 => Calls(j, t) <= left[j])
<1>1. Missed(j, t) \in Nat /\ left[j] \in Nat \union {-1}
  BY MissedType DEF TypeOK
<1>2. Calls(j, t) \in Nat
  BY <1>1 DEF Calls
<1>3. LeftAfter(j, Calls(j, t)) \in Nat \union {-1}
  BY <1>1, <1>2 DEF LeftAfter
<1>4. left[j] # 0 => Calls(j, t) >= 1 /\ (left[j] # -1 => Calls(j, t) <= left[j])
  BY <1>1 DEF Calls
<1> QED
  BY <1>2, <1>3, <1>4

LEMMA TypeInit == Init => TypeOK
<1> SUFFICES ASSUME Init PROVE TypeOK
  OBVIOUS
<1>1. /\ left \in [Job -> Nat \union {-1}] /\ limit \in [Job -> Nat \union {-1}]
      /\ interval \in [Job -> Nat \ {0}]
  BY JobAssumption DEF Init
<1>2. odd \in 0 .. MaxOdd /\ now \in 0 .. MaxTime
  BY BoundAssumption DEF Init
<1> QED
  BY <1>1, <1>2 DEF Init, TypeOK

LEMMA ReadyType ==
    ASSUME TypeOK PROVE Ready \subseteq Job
BY DEF Ready

\* A user writes the row of one job, which nobody processes then
LEMMA UserFacts ==
    ASSUME TypeOK, NEW j \in Job, UserStep(j)
    PROVE  /\ Write(j)
           /\ next' \in [Job -> Nat] /\ left' \in [Job -> Nat \union {-1}]
           /\ interval' \in [Job -> Nat \ {0}] /\ active' \subseteq Job
           /\ \A i \in Job \ {j} :
                 /\ next'[i] = next[i] /\ left'[i] = left[i] /\ interval'[i] = interval[i]
                 /\ i \in active' <=> i \in active
           /\ \/ UNCHANGED <<ran, redo>>
              \/ ran' = ran \ {j} /\ redo' = redo \ {j}
<1>1. CASE SetActive(j)
  BY <1>1 DEF TypeOK, SetActive, history
<1>2. CASE RunByHand(j)
  BY <1>2 DEF TypeOK, RunByHand, history
<1>3. ASSUME NEW t \in 0 .. MaxTime, SetNextCall(j, t)
      PROVE  /\ Write(j) /\ next' \in [Job -> Nat] /\ UNCHANGED <<left, active, interval>>
             /\ ran' = ran \ {j} /\ redo' = redo \ {j}
             /\ \A i \in Job \ {j} : next'[i] = next[i]
  BY <1>3, BoundAssumption DEF TypeOK, SetNextCall
<1>4. ASSUME NEW n \in Numbers, SetNumberCall(j, n)
      PROVE  /\ Write(j) /\ left' \in [Job -> Nat \union {-1}]
             /\ UNCHANGED <<next, active, interval, ran, redo>>
             /\ \A i \in Job \ {j} : left'[i] = left[i]
  BY <1>4, JobAssumption DEF TypeOK, SetNumberCall
<1>5. ASSUME NEW n \in Intervals, SetInterval(j, n)
      PROVE  /\ Write(j) /\ interval' \in [Job -> Nat \ {0}]
             /\ UNCHANGED <<next, left, active, ran, redo>>
             /\ \A i \in Job \ {j} : interval'[i] = interval[i]
  BY <1>5, JobAssumption DEF TypeOK, SetInterval, history
<1>6. next \in [Job -> Nat] /\ left \in [Job -> Nat \union {-1}]
      /\ interval \in [Job -> Nat \ {0}] /\ active \subseteq Job
  BY DEF TypeOK
<1>7. CASE \E t \in 0 .. MaxTime : SetNextCall(j, t)
  BY <1>3, <1>6, <1>7
<1>8. CASE \E n \in Numbers : SetNumberCall(j, n)
  BY <1>4, <1>6, <1>8
<1>9. CASE \E n \in Intervals : SetInterval(j, n)
  BY <1>5, <1>6, <1>9
<1> QED
  BY <1>1, <1>2, <1>7, <1>8, <1>9 DEF UserStep

\* What is counted starts anew with the number that is given
LEMMA UserLimits ==
    ASSUME TypeOK, NEW j \in Job, UserStep(j)
    PROVE  \/ UNCHANGED <<left, limit, called>>
           \/ \E n \in Nat \union {-1} : /\ left' = [left EXCEPT ![j] = n]
                                        /\ limit' = [limit EXCEPT ![j] = n]
                                        /\ called' = [called EXCEPT ![j] = 0]
BY JobAssumption
   DEF UserStep, SetActive, RunByHand, SetNextCall, SetNumberCall, SetInterval, history

LEMMA TypeStep == TypeOK /\ Locked /\ [Next]_vars => TypeOK'
<1> SUFFICES ASSUME TypeOK, Locked, [Next]_vars PROVE TypeOK'
  OBVIOUS
<1>u. now \in Nat
  BY BoundAssumption DEF TypeOK
<1>1. CASE UNCHANGED vars
  BY <1>1 DEF TypeOK, vars, rows, snapshot, running, history
<1>2. ASSUME NEW w \in Worker, Poll(w) PROVE TypeOK'
  BY <1>u, <1>2, ReadyType DEF TypeOK, Poll, Snapshot, running, history
<1>3. ASSUME NEW w \in Worker, Reopen(w) PROVE TypeOK'
  BY <1>u, <1>3, ReadyType DEF TypeOK, Reopen, Snapshot, rows, running, history
<1>4. ASSUME NEW w \in Worker, NEW j \in Job, PassOver(w, j) PROVE TypeOK'
  <2>1. todo' \in [Worker -> SUBSET Job] /\ pc' \in [Worker -> {"poll", "pick", "call", "save"}]
    BY <1>4 DEF TypeOK, PassOver, Done
  <2>2. can' \in [Worker -> SUBSET Job] /\ changed' \in [Worker -> SUBSET Job]
    <3>1. CASE todo[w] = {j}
      <4>1. Forget(w) /\ Tell(w, {})
        BY <1>4, <3>1 DEF PassOver
      <4> QED
        BY <4>1 DEF TypeOK, Forget, Tell
    <3>2. CASE todo[w] # {j}
      <4>1. can' = [can EXCEPT ![w] = @ \ {j}] /\ changed' = [changed EXCEPT ![w] = @ \ {j}]
        BY <1>4, <3>2 DEF PassOver
      <4> QED
        BY <4>1 DEF TypeOK
    <3> QED
      BY <3>1, <3>2
  <2>3. open' \subseteq Worker /\ start' \in [Worker -> Nat] /\ seen' \in [Worker -> SUBSET Trigger]
    BY <1>4 DEF TypeOK, PassOver, Forget
  <2>4. UNCHANGED <<now, rows, lock, running, odd, history>>
    BY <1>4 DEF PassOver
  <2> QED
    BY <2>1, <2>2, <2>3, <2>4 DEF TypeOK, rows, running, history
<1>5. ASSUME NEW w \in Worker, NEW j \in Job, Conflict(w, j) PROVE TypeOK'
  BY <1>5 DEF TypeOK, Conflict, Done, Forget, Tell, rows, running, history
<1>6. ASSUME NEW w \in Worker, NEW j \in Job, Acquire(w, j) PROVE TypeOK'
  <2>1. Calls(j, now) \in Nat
    BY <1>u, CallsType
  <2>2. Answered(w, j) \subseteq Trigger
    BY DEF TypeOK, Answered
  <2> QED
    BY <1>u, <1>6, <2>1, <2>2 DEF TypeOK, Acquire, Forget, Tell, rows, history
<1>7. ASSUME NEW w \in Worker, CallDone(w) PROVE TypeOK'
  BY <1>7 DEF TypeOK, CallDone, rows, snapshot, history
<1>8. ASSUME NEW w \in Worker, CallFails(w) PROVE TypeOK'
  BY <1>8 DEF TypeOK, CallFails, rows, snapshot, history
<1>9. ASSUME NEW w \in Worker, CommitCalls(w), job[w] \in Job PROVE TypeOK'
  BY <1>9 DEF TypeOK, CommitCalls, rows, snapshot, running
<1>10. ASSUME NEW w \in Worker, Reschedule(w), job[w] \in Job PROVE TypeOK'
  <2> DEFINE j == job[w]
             n == Calls(j, time[w])
  <2>1. time[w] \in Nat /\ j \in Job
    BY <1>10 DEF TypeOK
  <2>2. n \in Nat /\ LeftAfter(j, n) \in Nat \union {-1}
        /\ next[j] + Missed(j, time[w]) * interval[j] \in Nat
    BY <2>1, CallsType, MissedType
  <2>3. next' \in [Job -> Nat] /\ left' \in [Job -> Nat \union {-1}] /\ called' \in [Job -> Nat]
    BY <1>10, <2>1, <2>2 DEF TypeOK, Reschedule
  <2>4. active' \subseteq Job /\ triggers' \subseteq Trigger /\ ran' \subseteq Job /\ redo' \subseteq Job
    BY <1>10 DEF TypeOK, Reschedule
  <2>5. lock' \in [Job -> Worker \union {NoWorker}] /\ pc' \in [Worker -> {"poll", "pick", "call", "save"}]
        /\ todo' \in [Worker -> SUBSET Job] /\ changed' \in [Worker -> SUBSET Job]
    BY <1>10 DEF TypeOK, Reschedule, Done, Tell
  <2> QED
    BY <1>10, <2>3, <2>4, <2>5 DEF TypeOK, Reschedule, Rest
<1>11. ASSUME NEW w \in Worker, Abort(w), pc[w] = "save" => job[w] \in Job PROVE TypeOK'
  <2>1. odd' \in 0 .. MaxOdd
    BY <1>11, BoundAssumption DEF TypeOK, Abort
  <2> QED
    BY <1>11, <2>1 DEF TypeOK, Abort, Forget, Tell, Rest, rows
<1>12. ASSUME NEW j \in Job, UserStep(j) PROVE TypeOK'
  <2>1. /\ Write(j)
        /\ next' \in [Job -> Nat] /\ left' \in [Job -> Nat \union {-1}]
        /\ interval' \in [Job -> Nat \ {0}] /\ active' \subseteq Job
        /\ ran' \subseteq ran /\ redo' \subseteq redo
    BY <1>12, UserFacts
  <2>2. odd' \in 0 .. MaxOdd /\ changed' \in [Worker -> SUBSET Job]
    BY <2>1, BoundAssumption DEF TypeOK, Write, Tell
  <2>3. limit' \in [Job -> Nat \union {-1}] /\ called' \in [Job -> Nat]
    <3>1. CASE UNCHANGED <<left, limit, called>>
      BY <3>1 DEF TypeOK
    <3>2. ASSUME NEW n \in Nat \union {-1},
                 limit' = [limit EXCEPT ![j] = n], called' = [called EXCEPT ![j] = 0]
          PROVE  limit' \in [Job -> Nat \union {-1}] /\ called' \in [Job -> Nat]
      BY <3>2 DEF TypeOK
    <3> QED
      BY <1>12, <3>1, <3>2, UserLimits
  <2>4. UNCHANGED <<now, triggers, lock, changing, pc, todo, open, start, can, seen, running>>
    BY <2>1 DEF Write
  <2>5. ran' \subseteq Job /\ redo' \subseteq Job
    BY <2>1 DEF TypeOK
  <2> QED
    BY <2>1, <2>2, <2>3, <2>4, <2>5 DEF TypeOK, running
<1>13. ASSUME NEW j \in Triggered, NEW id \in TriggerId, NEW d \in Delays, AddTrigger(j, id, d)
       PROVE  TypeOK'
  <2>1. j \in Job /\ now + d \in Nat
    BY <1>u, <1>13, BoundAssumption DEF AddTrigger
  <2>2. [id |-> id, job |-> j, at |-> now + d] \in Trigger
    BY <2>1 DEF Trigger
  <2> QED
    BY <1>13, <2>2 DEF TypeOK, AddTrigger, snapshot, running, history
<1>14. CASE SetChanging
  <2>1. odd' \in 0 .. MaxOdd
    BY <1>14, BoundAssumption DEF TypeOK, SetChanging
  <2> QED
    BY <1>14, <2>1 DEF TypeOK, SetChanging, snapshot, running, history
<1>15. CASE Tick
  <2>1. now' \in 0 .. MaxTime
    BY <1>15, BoundAssumption DEF TypeOK, Tick
  <2> QED
    BY <1>15, <2>1 DEF TypeOK, Tick, rows, snapshot, running, history
<1>16. ASSUME NEW w \in Worker, WorkerStep(w) \/ Abort(w) PROVE TypeOK'
  <2>1. Holds(w) => job[w] \in Job
    BY DEF Locked
  <2>2. CASE CommitCalls(w)
    BY <1>9, <2>1, <2>2 DEF CommitCalls, Holds
  <2>3. CASE Reschedule(w)
    BY <1>10, <2>1, <2>3 DEF Reschedule, Holds
  <2>4. CASE Abort(w)
    BY <1>11, <2>1, <2>4 DEF Holds
  <2> QED
    BY <1>2, <1>3, <1>4, <1>5, <1>6, <1>7, <1>8, <1>16, <2>2, <2>3, <2>4 DEF WorkerStep
<1> QED
  BY <1>1, <1>12, <1>13, <1>14, <1>15, <1>16 DEF Next

-----------------------------------------------------------------------------
(* The locks. *)

LEMMA IdleStep == TypeOK /\ Idle /\ [Next]_vars => Idle'
<1> SUFFICES ASSUME TypeOK, Idle, [Next]_vars PROVE Idle'
  OBVIOUS
<1>p. pc \in [Worker -> {"poll", "pick", "call", "save"}]
  BY DEF TypeOK
<1>1. ASSUME UNCHANGED <<pc, effect>> PROVE Idle'
  BY <1>1 DEF Idle, Holds
<1>2. ASSUME NEW w \in Worker, ~ Holds(w), NEW p \in {"poll", "pick", "call"},
             pc' = [pc EXCEPT ![w] = p], UNCHANGED effect
      PROVE  Idle'
  <2>1. w \notin effect
    BY <1>2 DEF Idle
  <2> QED
    BY <1>p, <1>2, <2>1 DEF Idle, Holds
<1>3. ASSUME NEW w \in Worker, Poll(w) PROVE Idle'
  BY <1>2, <1>3 DEF Poll, running, Holds
<1>4. ASSUME NEW w \in Worker, Reopen(w) PROVE Idle'
  BY <1>1, <1>4 DEF Reopen, running
<1>5. ASSUME NEW w \in Worker, NEW j \in Job, PassOver(w, j) \/ Conflict(w, j) PROVE Idle'
  <2> DEFINE p == IF todo[w] \subseteq {j} THEN "poll" ELSE "pick"
  <2>1. pc' = [pc EXCEPT ![w] = p] /\ UNCHANGED effect /\ ~ Holds(w)
    BY <1>5 DEF PassOver, Conflict, Done, running, Holds
  <2>2. p \in {"poll", "pick", "call"}
    OBVIOUS
  <2> QED
    BY <1>2, <2>1, <2>2
<1>6. ASSUME NEW w \in Worker, NEW j \in Job, Acquire(w, j) PROVE Idle'
  BY <1>2, <1>6 DEF Acquire, Holds
<1>7. ASSUME NEW w \in Worker, CallDone(w) \/ CallFails(w) PROVE Idle'
  BY <1>7 DEF CallDone, CallFails, Idle, Holds
<1>8. ASSUME NEW w \in Worker, CommitCalls(w) PROVE Idle'
  BY <1>p, <1>8 DEF CommitCalls, running, Idle, Holds
<1>9. ASSUME NEW w \in Worker, Reschedule(w) \/ Abort(w) PROVE Idle'
  BY <1>p, <1>9 DEF Reschedule, Abort, Done, Rest, Idle, Holds
<1>10. CASE UNCHANGED vars
  BY <1>1, <1>10 DEF vars, running
<1>11. ASSUME NEW j \in Job, UserStep(j) PROVE Idle'
  BY <1>1, <1>11, UserFacts DEF Write, running
<1>12. ASSUME NEW j \in Job, NEW id, NEW d, AddTrigger(j, id, d) PROVE Idle'
  BY <1>1, <1>12 DEF AddTrigger, running
<1>13. CASE SetChanging \/ Tick
  BY <1>1, <1>13 DEF SetChanging, Tick, running
<1> QED
  BY <1>3, <1>4, <1>5, <1>6, <1>7, <1>8, <1>9, <1>10, <1>11, <1>12, <1>13, BoundAssumption
     DEF Next, WorkerStep

LEMMA LockedStep == TypeOK /\ Locked /\ [Next]_vars => Locked'
<1> SUFFICES ASSUME TypeOK, Locked, [Next]_vars PROVE Locked'
  OBVIOUS
<1>p. /\ pc \in [Worker -> {"poll", "pick", "call", "save"}]
      /\ job \in [Worker -> Job \union {NoJob}]
      /\ lock \in [Job -> Worker \union {NoWorker}]
      /\ NoWorker \notin Worker
  BY JobAssumption DEF TypeOK
\* Nobody comes to hold a job
<1>1. ASSUME UNCHANGED <<job, lock>>, open' \subseteq open,
             \A v \in Worker : Holds(v)' => Holds(v)
      PROVE  Locked'
  BY <1>1 DEF Locked
<1>2. ASSUME NEW w \in Worker, Poll(w) \/ Reopen(w) PROVE Locked'
  <2>1. UNCHANGED <<job, lock>> /\ open' = open \union {w} /\ pc[w] \in {"poll", "pick"}
    BY <1>2 DEF Poll, Reopen, Snapshot, running
  <2>2. pc' = pc \/ pc' = [pc EXCEPT ![w] = "pick"]
    BY <1>2 DEF Poll, Reopen
  <2>3. \A v \in Worker : Holds(v)' => v # w /\ Holds(v)
    BY <1>p, <2>1, <2>2 DEF Holds
  <2> QED
    BY <2>1, <2>3 DEF Locked
<1>3. ASSUME NEW w \in Worker, NEW j \in Job, PassOver(w, j) \/ Conflict(w, j) PROVE Locked'
  <2>1. UNCHANGED <<job, lock>> /\ open' \subseteq open
    BY <1>3 DEF PassOver, Conflict, Forget, running
  <2>2. \A v \in Worker : Holds(v)' => Holds(v)
    BY <1>p, <1>3 DEF PassOver, Conflict, Done, Holds
  <2> QED
    BY <1>1, <2>1, <2>2
<1>4. ASSUME NEW w \in Worker, NEW j \in Job, Acquire(w, j) PROVE Locked'
  <2>1. /\ lock' = [lock EXCEPT ![j] = w] /\ lock[j] = NoWorker
        /\ job' = [job EXCEPT ![w] = j] /\ pc' = [pc EXCEPT ![w] = "call"]
        /\ open' = open \ {w}
    BY <1>4 DEF Acquire, Available, Forget
  <2> SUFFICES ASSUME NEW v \in Worker, Holds(v)'
               PROVE  (job[v] \in Job /\ lock[job[v]] = v /\ v \notin open)'
    BY DEF Locked
  <2>2. CASE v = w
    BY <1>p, <2>1, <2>2
  <2>3. CASE v # w
    <3>1. Holds(v) /\ job'[v] = job[v]
      BY <1>p, <2>1, <2>3 DEF Holds
    <3>2. job[v] \in Job /\ lock[job[v]] = v /\ v \notin open /\ job[v] # j
      BY <1>p, <2>1, <3>1 DEF Locked
    <3> QED
      BY <1>p, <2>1, <3>1, <3>2
  <2> QED
    BY <2>2, <2>3
<1>5. ASSUME NEW w \in Worker, CallDone(w) \/ CallFails(w) \/ CommitCalls(w) PROVE Locked'
  <2>1. UNCHANGED <<job, lock>> /\ open' = open
    BY <1>5 DEF CallDone, CallFails, CommitCalls, snapshot, running
  <2>2. \A v \in Worker : Holds(v)' => Holds(v)
    BY <1>p, <1>5 DEF CallDone, CallFails, CommitCalls, Holds
  <2> QED
    BY <1>1, <2>1, <2>2
\* w gives up its lock
<1>6. ASSUME NEW w \in Worker, Reschedule(w) \/ Abort(w) PROVE Locked'
  <2>1. job' = [job EXCEPT ![w] = NoJob] /\ open' \subseteq open
    BY <1>6 DEF Reschedule, Abort, Forget, Rest
  <2>2. \A v \in Worker : Holds(v)' => v # w /\ Holds(v)
    BY <1>p, <1>6 DEF Reschedule, Abort, Done, Holds
  <2>3. Reschedule(w) => Holds(w)
    BY DEF Reschedule, Holds
  <2>4. \A i \in Job : lock[i] \in Worker \ {w} => lock'[i] = lock[i]
    <3>1. CASE Reschedule(w)
      <4>1. lock' = [lock EXCEPT ![job[w]] = NoWorker] /\ lock[job[w]] = w
        BY <2>3, <3>1 DEF Reschedule, Locked
      <4> QED
        BY <1>p, <4>1
    <3>2. CASE Abort(w)
      BY <3>2 DEF Abort
    <3> QED
      BY <1>6, <3>1, <3>2
  <2> SUFFICES ASSUME NEW v \in Worker, Holds(v)'
               PROVE  (job[v] \in Job /\ lock[job[v]] = v /\ v \notin open)'
    BY DEF Locked
  <2>5. v # w /\ job[v] \in Job /\ lock[job[v]] = v /\ v \notin open
    BY <2>2 DEF Locked
  <2> QED
    BY <1>p, <2>1, <2>4, <2>5
<1>7. ASSUME UNCHANGED <<job, lock, pc, open>> PROVE Locked'
  BY <1>7 DEF Locked, Holds
<1>8. CASE UNCHANGED vars
  BY <1>7, <1>8 DEF vars, snapshot, running
<1>9. ASSUME NEW j \in Job, UserStep(j) PROVE Locked'
  BY <1>7, <1>9, UserFacts DEF Write, running
<1>10. ASSUME NEW j \in Job, NEW id, NEW d, AddTrigger(j, id, d) PROVE Locked'
  BY <1>7, <1>10 DEF AddTrigger, snapshot, running
<1>11. CASE SetChanging \/ Tick
  BY <1>7, <1>11 DEF SetChanging, Tick, snapshot, running
<1> QED
  BY <1>2, <1>3, <1>4, <1>5, <1>6, <1>8, <1>9, <1>10, <1>11, BoundAssumption
     DEF Next, WorkerStep

LEMMA TakenStep == TypeOK /\ Locked /\ Taken /\ [Next]_vars => Taken'
<1> SUFFICES ASSUME TypeOK, Locked, Taken, [Next]_vars PROVE Taken'
  OBVIOUS
<1>p. /\ pc \in [Worker -> {"poll", "pick", "call", "save"}]
      /\ job \in [Worker -> Job \union {NoJob}]
      /\ lock \in [Job -> Worker \union {NoWorker}]
      /\ NoWorker \notin Worker
  BY JobAssumption DEF TypeOK
\* Nobody leaves off processing
<1>1. ASSUME UNCHANGED <<job, lock>>, \A v \in Worker : Holds(v) => Holds(v)' PROVE Taken'
  BY <1>1 DEF Taken
<1>2. ASSUME NEW w \in Worker, Poll(w) \/ Reopen(w) PROVE Taken'
  <2>1. UNCHANGED <<job, lock>> /\ \A v \in Worker : Holds(v) => Holds(v)'
    BY <1>p, <1>2 DEF Poll, Reopen, Holds, running
  <2> QED
    BY <1>1, <2>1
<1>3. ASSUME NEW w \in Worker, NEW j \in Job, PassOver(w, j) \/ Conflict(w, j) PROVE Taken'
  <2>1. UNCHANGED <<job, lock>> /\ \A v \in Worker : Holds(v) => Holds(v)'
    BY <1>p, <1>3 DEF PassOver, Conflict, Done, Holds, running
  <2> QED
    BY <1>1, <2>1
<1>4. ASSUME NEW w \in Worker, NEW j \in Job, Acquire(w, j) PROVE Taken'
  <2>1. /\ lock' = [lock EXCEPT ![j] = w] /\ ~ Holds(w)
        /\ job' = [job EXCEPT ![w] = j] /\ pc' = [pc EXCEPT ![w] = "call"]
    BY <1>4 DEF Acquire, Holds
  <2> SUFFICES ASSUME NEW i \in Job, lock'[i] # NoWorker
               PROVE  (lock[i] \in Worker /\ Holds(lock[i]) /\ job[lock[i]] = i)'
    BY DEF Taken
  <2>2. CASE i = j
    BY <1>p, <2>1, <2>2 DEF Holds
  <2>3. CASE i # j
    <3>1. lock'[i] = lock[i]
      BY <1>p, <2>1, <2>3
    <3>2. lock[i] \in Worker /\ Holds(lock[i]) /\ job[lock[i]] = i /\ lock[i] # w
      BY <2>1, <3>1 DEF Taken
    <3> QED
      BY <1>p, <2>1, <3>1, <3>2 DEF Holds
  <2> QED
    BY <2>2, <2>3
<1>5. ASSUME NEW w \in Worker, CallDone(w) \/ CallFails(w) \/ CommitCalls(w) PROVE Taken'
  <2>1. UNCHANGED <<job, lock>> /\ \A v \in Worker : Holds(v) => Holds(v)'
    BY <1>p, <1>5 DEF CallDone, CallFails, CommitCalls, Holds, running
  <2> QED
    BY <1>1, <2>1
\* w gives up the one lock it may have
<1>6. ASSUME NEW w \in Worker, Reschedule(w) \/ Abort(w) PROVE Taken'
  <2>1. \A v \in Worker \ {w} : job'[v] = job[v] /\ pc'[v] = pc[v]
    BY <1>p, <1>6 DEF Reschedule, Abort, Rest, Done
  <2>2. \A i \in Job : lock'[i] # NoWorker => lock'[i] = lock[i] /\ lock[i] # w
    <3>1. CASE Reschedule(w)
      <4>1. lock' = [lock EXCEPT ![job[w]] = NoWorker]
        BY <3>1 DEF Reschedule
      <4>2. ASSUME NEW i \in Job, lock'[i] # NoWorker PROVE i # job[w] /\ lock'[i] = lock[i]
        BY <1>p, <4>1, <4>2
      <4> QED
        BY <4>2 DEF Taken
    <3>2. CASE Abort(w)
      BY <3>2 DEF Abort
    <3> QED
      BY <1>6, <3>1, <3>2
  <2> SUFFICES ASSUME NEW i \in Job, lock'[i] # NoWorker
               PROVE  (lock[i] \in Worker /\ Holds(lock[i]) /\ job[lock[i]] = i)'
    BY DEF Taken
  <2>3. lock'[i] = lock[i] /\ lock[i] # w /\ lock[i] \in Worker /\ Holds(lock[i]) /\ job[lock[i]] = i
    BY <2>2 DEF Taken
  <2> QED
    BY <2>1, <2>3 DEF Holds
<1>7. ASSUME UNCHANGED <<job, lock, pc>> PROVE Taken'
  BY <1>7 DEF Taken, Holds
<1>8. CASE UNCHANGED vars
  BY <1>7, <1>8 DEF vars, running
<1>9. ASSUME NEW j \in Job, UserStep(j) PROVE Taken'
  BY <1>7, <1>9, UserFacts DEF Write, running
<1>10. ASSUME NEW j \in Job, NEW id, NEW d, AddTrigger(j, id, d) PROVE Taken'
  BY <1>7, <1>10 DEF AddTrigger, running
<1>11. CASE SetChanging \/ Tick
  BY <1>7, <1>11 DEF SetChanging, Tick, running
<1> QED
  BY <1>2, <1>3, <1>4, <1>5, <1>6, <1>8, <1>9, <1>10, <1>11, BoundAssumption
     DEF Next, WorkerStep

-----------------------------------------------------------------------------
(* What a worker has found stays so unless it is told. *)

\* A job that is due stays so while its row and its triggers stay
LEMMA ReadyStays ==
    ASSUME TypeOK, NEW j \in Ready,
           next'[j] = next[j], left'[j] = left[j], j \in active',
           now' \in Nat, now <= now',
           \A x \in triggers : x.job = j => x \in triggers'
    PROVE  j \in Ready'
<1>1. now \in Nat /\ next[j] \in Nat /\ j \in Job /\ \A x \in triggers : x.at \in Nat
  BY BoundAssumption DEF TypeOK, Ready, Trigger
<1>2. (Enabled(j))'
  BY DEF Ready, Enabled
<1>3. CASE next[j] <= now
  BY <1>1, <1>2, <1>3 DEF Ready
<1>4. CASE \E x \in triggers : x.job = j /\ x.at <= now
  <2>1. PICK x \in triggers : x.job = j /\ x.at <= now
    BY <1>4
  <2>2. x \in triggers' /\ x.at <= now'
    BY <1>1, <2>1
  <2> QED
    BY <1>1, <1>2, <2>1, <2>2 DEF Ready
<1> QED
  BY <1>3, <1>4 DEF Ready

LEMMA FreshStep == TypeOK /\ Locked /\ Kept /\ Fresh /\ [Next]_vars => Fresh'
<1> SUFFICES ASSUME TypeOK, Locked, Kept, Fresh, [Next]_vars PROVE Fresh'
  OBVIOUS
<1>t. /\ now \in Nat
      /\ changed \in [Worker -> SUBSET Job] /\ can \in [Worker -> SUBSET Job]
      /\ seen \in [Worker -> SUBSET Trigger] /\ open \subseteq Worker
      /\ todo \in [Worker -> SUBSET Job]
      /\ Ready \subseteq Job
  BY BoundAssumption DEF TypeOK, Ready
\* The workers but w learn what has changed
<1>1. ASSUME NEW W, NEW S, Tell(W, S),
             now' \in Nat, now <= now', UNCHANGED <<can, seen>>,
             open' \subseteq open, W \notin open',
             \A j \in Job \ S : next'[j] = next[j] /\ left'[j] = left[j] /\ (j \in active => j \in active'),
             \A x \in triggers : x.job \notin S => x \in triggers'
      PROVE  Fresh'
  <2> SUFFICES ASSUME NEW v \in open', NEW j \in can[v] \ changed'[v]
               PROVE  j \in Ready' /\ \A x \in seen[v] : x.job = j => x \in triggers'
    BY <1>1 DEF Fresh
  <2>1. v \in Worker /\ v \in open /\ v # W /\ j \in Job
    BY <1>t, <1>1
  <2>2. changed'[v] = changed[v] \union (S \intersect can[v])
    BY <1>1, <2>1 DEF Tell
  <2>3. j \notin changed[v] /\ j \notin S
    BY <2>2
  <2>4. j \in Ready /\ \A x \in seen[v] : x.job = j => x \in triggers
    BY <2>1, <2>3 DEF Fresh
  <2>5. j \in active'
    BY <1>1, <2>1, <2>3, <2>4 DEF Ready, Enabled
  <2>6. \A x \in triggers : x.job = j => x \in triggers'
    BY <1>1, <2>3
  <2>7. j \in Ready'
    BY <1>1, <2>1, <2>3, <2>4, <2>5, <2>6, ReadyStays
  <2> QED
    BY <2>4, <2>6, <2>7
\* The rows do not change, or grow, and nobody need be told
<1>2. ASSUME now' \in Nat, now <= now', UNCHANGED <<open, can, seen, changed>>,
             UNCHANGED <<next, left, active>>, triggers \subseteq triggers'
      PROVE  Fresh'
  <2> SUFFICES ASSUME NEW v \in open, NEW j \in can[v] \ changed[v]
               PROVE  j \in Ready' /\ \A x \in seen[v] : x.job = j => x \in triggers'
    BY <1>2 DEF Fresh
  <2>1. j \in Ready /\ \A x \in seen[v] : x.job = j => x \in triggers
    BY DEF Fresh
  <2>2. j \in Ready'
    BY <1>2, <2>1, ReadyStays DEF Ready, Enabled
  <2> QED
    BY <1>2, <2>1, <2>2
\* w looks again
<1>3. ASSUME NEW w \in Worker, NEW S, Snapshot(w, S), UNCHANGED <<now, next, left, active, triggers>>
      PROVE  Fresh'
  <2>1. Ready' = Ready
    BY <1>3 DEF Ready, Enabled
  <2> SUFFICES ASSUME NEW v \in open', NEW j \in can'[v] \ changed'[v]
               PROVE  j \in Ready /\ \A x \in seen'[v] : x.job = j => x \in triggers
    BY <1>3, <2>1 DEF Fresh
  <2>2. CASE v = w
    BY <1>t, <1>3, <2>2 DEF Snapshot
  <2>3. CASE v # w
    <3>1. v \in open /\ can'[v] = can[v] /\ seen'[v] = seen[v] /\ changed'[v] = changed[v]
      BY <1>t, <1>3, <2>3 DEF Snapshot
    <3> QED
      BY <3>1 DEF Fresh
  <2> QED
    BY <2>2, <2>3
\* w has done with looking
<1>4. ASSUME NEW w \in Worker, Forget(w), Tell(w, {}), UNCHANGED <<now, next, left, active, triggers>>
      PROVE  Fresh'
  <2>1. Ready' = Ready
    BY <1>4 DEF Ready, Enabled
  <2> SUFFICES ASSUME NEW v \in open', NEW j \in can'[v] \ changed'[v]
               PROVE  j \in Ready /\ \A x \in seen'[v] : x.job = j => x \in triggers
    BY <1>4, <2>1 DEF Fresh
  <2>2. v \in open /\ v # w /\ v \in Worker /\ can'[v] = can[v] /\ seen'[v] = seen[v]
    BY <1>t, <1>4 DEF Forget
  <2>3. changed'[v] = changed[v]
    BY <1>t, <1>4, <2>2 DEF Tell
  <2> QED
    BY <2>2, <2>3 DEF Fresh
<1>5. ASSUME NEW w \in Worker, Poll(w) \/ Reopen(w) PROVE Fresh'
  BY <1>3, <1>5 DEF Poll, Reopen, rows
<1>6. ASSUME NEW w \in Worker, NEW j \in Job, PassOver(w, j) PROVE Fresh'
  <2>1. UNCHANGED <<now, next, left, active, triggers>>
    BY <1>6 DEF PassOver, rows
  <2>2. CASE todo[w] = {j}
    BY <1>4, <1>6, <2>1, <2>2 DEF PassOver
  <2>3. CASE todo[w] # {j}
    <3>1. /\ can' = [can EXCEPT ![w] = @ \ {j}] /\ changed' = [changed EXCEPT ![w] = @ \ {j}]
          /\ UNCHANGED <<open, seen>>
      BY <1>6, <2>3 DEF PassOver
    <3>2. Ready' = Ready
      BY <2>1 DEF Ready, Enabled
    <3>3. \A v \in open : can'[v] \ changed'[v] \subseteq can[v] \ changed[v]
      BY <1>t, <3>1
    <3> QED
      BY <2>1, <3>1, <3>2, <3>3 DEF Fresh
  <2> QED
    BY <2>2, <2>3
<1>7. ASSUME NEW w \in Worker, NEW j \in Job, Conflict(w, j) \/ Acquire(w, j) PROVE Fresh'
  BY <1>4, <1>7 DEF Conflict, Acquire, rows
<1>8. ASSUME NEW w \in Worker, CallDone(w) \/ CallFails(w) \/ CommitCalls(w) PROVE Fresh'
  BY <1>t, <1>2, <1>8 DEF CallDone, CallFails, CommitCalls, rows, snapshot
<1>9. ASSUME NEW w \in Worker, Reschedule(w) PROVE Fresh'
  <2>1. job[w] \in Job /\ w \notin open /\ \A x \in answered[w] : x.job = job[w]
    BY <1>9 DEF Reschedule, Locked, Kept, Holds
  <2>2. Tell(w, {job[w]}) /\ UNCHANGED <<now, open, can, seen>>
    BY <1>9 DEF Reschedule
  <2>3. \A j \in Job \ {job[w]} :
            next'[j] = next[j] /\ left'[j] = left[j] /\ (j \in active => j \in active')
    BY <1>9, <2>1 DEF Reschedule, TypeOK
  <2>4. \A x \in triggers : x.job \notin {job[w]} => x \in triggers'
    BY <1>9, <2>1 DEF Reschedule, Deleted
  <2> QED
    BY <1>t, <1>1, <2>1, <2>2, <2>3, <2>4
<1>10. ASSUME NEW w \in Worker, Abort(w) PROVE Fresh'
  BY <1>4, <1>10 DEF Abort, rows
<1>11. ASSUME NEW j \in Job, UserStep(j) PROVE Fresh'
  <2>1. NoWorker \notin open
    BY <1>t, JobAssumption
  <2>2. Tell(NoWorker, {j}) /\ UNCHANGED <<now, triggers, open, can, seen>>
    BY <1>11, UserFacts DEF Write
  <2>3. \A i \in Job \ {j} : next'[i] = next[i] /\ left'[i] = left[i] /\ (i \in active => i \in active')
    BY <1>11, UserFacts
  <2> QED
    BY <1>t, <1>1, <2>1, <2>2, <2>3
<1>12. ASSUME NEW j \in Job, NEW id, NEW d, AddTrigger(j, id, d) PROVE Fresh'
  BY <1>t, <1>2, <1>12 DEF AddTrigger, snapshot
<1>13. CASE SetChanging
  BY <1>t, <1>2, <1>13 DEF SetChanging, snapshot
<1>14. CASE Tick
  BY <1>t, <1>2, <1>14 DEF Tick, snapshot, rows
<1>15. CASE UNCHANGED vars
  BY <1>t, <1>2, <1>15 DEF vars, snapshot, rows
<1> QED
  BY <1>5, <1>6, <1>7, <1>8, <1>9, <1>10, <1>11, <1>12, <1>13, <1>14, <1>15, BoundAssumption
     DEF Next, WorkerStep

-----------------------------------------------------------------------------
(* What a worker has locked stays too. *)

\* Only w goes on, and holds nothing then; the other jobs stay as they are
LEMMA KeptByOthers ==
    ASSUME Kept, NEW W,
           \A v \in Worker : Holds(v)' =>
               /\ v # W /\ Holds(v)
               /\ job'[v] = job[v] /\ answered'[v] = answered[v]
               /\ (v \in effect' => v \in effect) /\ view'[v] = view[v]
               /\ left'[job[v]] = left[job[v]]
               /\ \A x \in triggers : x.job = job[v] => x \in triggers'
    PROVE  Kept'
BY DEF Kept

LEMMA KeptStep == TypeOK /\ Locked /\ Idle /\ Fresh /\ Kept /\ [Next]_vars => Kept'
<1> SUFFICES ASSUME TypeOK, Locked, Idle, Fresh, Kept, [Next]_vars PROVE Kept'
  OBVIOUS
<1>t. /\ pc \in [Worker -> {"poll", "pick", "call", "save"}]
      /\ job \in [Worker -> Job \union {NoJob}]
      /\ answered \in [Worker -> SUBSET Trigger] /\ view \in [Worker -> SUBSET Trigger]
      /\ NoWorker \notin Worker
  BY JobAssumption DEF TypeOK
\* A step that takes nobody a job, or changes one
<1>1. ASSUME UNCHANGED <<left, job, answered, effect, view>>, triggers \subseteq triggers',
             \A v \in Worker : Holds(v)' => Holds(v)
      PROVE  Kept'
  BY <1>1 DEF Kept
<1>2. ASSUME NEW w \in Worker, Poll(w) \/ Reopen(w) PROVE Kept'
  <2>1. \A v \in Worker : Holds(v)' => Holds(v)
    BY <1>t, <1>2 DEF Poll, Reopen, Holds
  <2> QED
    BY <1>1, <1>2, <2>1 DEF Poll, Reopen, rows, running
<1>3. ASSUME NEW w \in Worker, NEW j \in Job, PassOver(w, j) \/ Conflict(w, j) PROVE Kept'
  <2>1. \A v \in Worker : Holds(v)' => Holds(v)
    BY <1>t, <1>3 DEF PassOver, Conflict, Done, Holds
  <2> QED
    BY <1>1, <1>3, <2>1 DEF PassOver, Conflict, rows, running
<1>4. ASSUME NEW w \in Worker, NEW j \in Job, Acquire(w, j) PROVE Kept'
  <2>1. /\ pc' = [pc EXCEPT ![w] = "call"] /\ job' = [job EXCEPT ![w] = j]
        /\ answered' = [answered EXCEPT ![w] = Answered(w, j)]
        /\ UNCHANGED <<effect, view, left, triggers>>
    BY <1>4 DEF Acquire, rows
  <2>2. j \in Ready /\ \A x \in Answered(w, j) : x \in triggers /\ x.job = j
    BY <1>4 DEF Acquire, Available, Fresh, Answered
  <2>3. w \notin effect
    BY <1>4 DEF Acquire, Idle, Holds
  <2> SUFFICES ASSUME NEW v \in Worker, Holds(v)'
               PROVE  /\ left[job'[v]] # 0
                      /\ \A x \in answered'[v] : x \in triggers /\ x.job = job'[v]
                      /\ v \in effect => answered'[v] \subseteq view[v]
    BY <2>1 DEF Kept
  <2>4. CASE v = w
    BY <1>t, <2>1, <2>2, <2>3, <2>4 DEF Ready, Enabled
  <2>5. CASE v # w
    <3>1. Holds(v) /\ job'[v] = job[v] /\ answered'[v] = answered[v]
      BY <1>t, <2>1, <2>5 DEF Holds
    <3> QED
      BY <3>1 DEF Kept
  <2> QED
    BY <2>4, <2>5
<1>5. ASSUME NEW w \in Worker, CallDone(w) PROVE Kept'
  <2>1. /\ UNCHANGED <<left, triggers, pc, job, answered>> /\ effect' = effect \union {w}
        /\ view' = [view EXCEPT ![w] = IF w \in effect THEN @ ELSE answered[w] \intersect triggers]
    BY <1>5 DEF CallDone, rows
  <2>2. \A v \in Worker : Holds(v) /\ v \in effect' => answered[v] \subseteq view'[v]
    <3> SUFFICES ASSUME NEW v \in Worker, Holds(v), v \in effect'
                 PROVE  answered[v] \subseteq view'[v]
      OBVIOUS
    <3>1. (v \in effect => answered[v] \subseteq view[v]) /\ answered[v] \subseteq triggers
      BY DEF Kept
    <3> QED
      BY <1>t, <2>1, <3>1
  <2> QED
    BY <2>1, <2>2 DEF Kept, Holds
<1>6. ASSUME NEW w \in Worker, CallFails(w) PROVE Kept'
  <2>1. /\ UNCHANGED <<left, triggers, pc, job, answered>> /\ effect' = effect \ {w}
        /\ \A v \in Worker : v # w => view'[v] = view[v]
    BY <1>6 DEF CallFails, rows
  <2> QED
    BY <2>1 DEF Kept, Holds
<1>7. ASSUME NEW w \in Worker, CommitCalls(w) PROVE Kept'
  <2>1. \A v \in Worker : Holds(v)' => Holds(v)
    BY <1>t, <1>7 DEF CommitCalls, Holds
  <2> QED
    BY <1>1, <1>7, <2>1 DEF CommitCalls, rows, running
<1>8. ASSUME NEW w \in Worker, Rest(w), pc'[w] \in {"poll", "pick"},
             \A v \in Worker : v # w => pc'[v] = pc[v],
             \A i \in Job : lock[i] \in Worker \ {w} => left'[i] = left[i],
             \A x \in triggers : lock[x.job] \in Worker \ {w} => x \in triggers'
      PROVE  Kept'
  <2> SUFFICES ASSUME NEW v \in Worker, Holds(v)'
               PROVE  /\ v # w /\ Holds(v)
                      /\ job'[v] = job[v] /\ answered'[v] = answered[v]
                      /\ (v \in effect' => v \in effect) /\ view'[v] = view[v]
                      /\ left'[job[v]] = left[job[v]]
                      /\ \A x \in triggers : x.job = job[v] => x \in triggers'
    BY KeptByOthers
  <2>1. v # w /\ Holds(v)
    BY <1>8 DEF Holds
  <2>2. job[v] \in Job /\ lock[job[v]] = v
    BY <2>1 DEF Locked
  <2>3. job'[v] = job[v] /\ answered'[v] = answered[v] /\ view'[v] = view[v]
        /\ (v \in effect' => v \in effect)
    BY <1>t, <1>8, <2>1 DEF Rest
  <2> QED
    BY <1>8, <2>1, <2>2, <2>3
<1>9. ASSUME NEW w \in Worker, Reschedule(w) PROVE Kept'
  <2>1. job[w] \in Job /\ lock[job[w]] = w /\ \A x \in answered[w] : x.job = job[w]
    BY <1>9 DEF Reschedule, Locked, Kept, Holds
  <2>2. pc'[w] \in {"poll", "pick"} /\ \A v \in Worker : v # w => pc'[v] = pc[v]
    BY <1>t, <1>9 DEF Reschedule, Done
  <2>3. \A i \in Job : lock[i] \in Worker \ {w} => left'[i] = left[i]
    BY <1>9, <2>1 DEF Reschedule, TypeOK
  <2>4. \A x \in triggers : lock[x.job] \in Worker \ {w} => x \in triggers'
    BY <1>9, <2>1 DEF Reschedule, Deleted
  <2>5. Rest(w)
    BY <1>9 DEF Reschedule
  <2> QED
    BY <1>8, <2>2, <2>3, <2>4, <2>5
<1>10. ASSUME NEW w \in Worker, Abort(w) PROVE Kept'
  <2>1. pc'[w] \in {"poll", "pick"} /\ \A v \in Worker : v # w => pc'[v] = pc[v]
    BY <1>t, <1>10 DEF Abort
  <2>2. Rest(w) /\ UNCHANGED <<left, triggers>>
    BY <1>10 DEF Abort, rows
  <2> QED
    BY <1>8, <2>1, <2>2
<1>11. ASSUME UNCHANGED <<left, job, answered, effect, view, pc>>, triggers \subseteq triggers' PROVE Kept'
  BY <1>11 DEF Kept, Holds
<1>12. ASSUME NEW j \in Job, UserStep(j) PROVE Kept'
  <2>1. lock[j] = NoWorker /\ UNCHANGED <<triggers, pc, job, answered, effect, view>>
    BY <1>12, UserFacts DEF Write, running
  <2>2. \A i \in Job \ {j} : left'[i] = left[i]
    BY <1>12, UserFacts
  <2>3. \A v \in Worker : Holds(v)' => /\ v # NoWorker /\ Holds(v)
                                      /\ left'[job[v]] = left[job[v]]
    BY <1>t, <2>1, <2>2 DEF Locked, Holds
  <2> QED
    BY <2>1, <2>3, KeptByOthers
<1>13. ASSUME NEW j \in Job, NEW id, NEW d, AddTrigger(j, id, d) PROVE Kept'
  BY <1>11, <1>13 DEF AddTrigger, running
<1>14. CASE SetChanging \/ Tick \/ UNCHANGED vars
  BY <1>11, <1>14 DEF SetChanging, Tick, vars, running, rows
<1> QED
  BY <1>2, <1>3, <1>4, <1>5, <1>6, <1>7, <1>9, <1>10, <1>12, <1>13, <1>14, BoundAssumption
     DEF Next, WorkerStep

\* So does what made it due: only its worker could change that
LEMMA StillDueStep ==
    TypeOK /\ Locked /\ Taken /\ Fresh /\ Kept /\ StillDue /\ [Next]_vars => StillDue'
<1> SUFFICES ASSUME TypeOK, Locked, Taken, Fresh, Kept, StillDue, [Next]_vars PROVE StillDue'
  OBVIOUS
<1>t. /\ now \in Nat /\ active \subseteq Job
      /\ lock \in [Job -> Worker \union {NoWorker}]
      /\ next \in [Job -> Nat] /\ left \in [Job -> Nat \union {-1}]
  BY BoundAssumption DEF TypeOK
\* What is locked was locked or is due, and stays as it was
<1>1. ASSUME now' \in Nat, now <= now',
             \A i \in Job : lock'[i] # NoWorker =>
                /\ lock[i] # NoWorker \/ i \in Ready
                /\ next'[i] = next[i] /\ left'[i] = left[i] /\ (i \in active => i \in active')
                /\ \A x \in triggers : x.job = i => x \in triggers'
      PROVE  StillDue'
  <2> SUFFICES ASSUME NEW i \in Job, lock'[i] # NoWorker PROVE i \in Ready'
    BY DEF StillDue
  <2>1. i \in Ready
    BY <1>1 DEF StillDue
  <2>2. i \in active'
    BY <1>1, <2>1 DEF Ready, Enabled
  <2> QED
    BY <1>1, <2>1, <2>2, ReadyStays
<1>2. ASSUME UNCHANGED <<next, left, active, lock>>, triggers \subseteq triggers',
             now' \in Nat, now <= now'
      PROVE  StillDue'
  BY <1>1, <1>2
<1>3. ASSUME NEW w \in Worker, WorkerStep(w), ~ Reschedule(w), \A j \in Job : ~ Acquire(w, j)
      PROVE  StillDue'
  <2>1. UNCHANGED <<now, next, left, active, triggers, lock>>
    BY <1>3 DEF WorkerStep, Poll, Reopen, PassOver, Conflict, CallDone, CallFails, CommitCalls, rows
  <2> QED
    BY <1>t, <1>2, <2>1
<1>4. ASSUME NEW w \in Worker, NEW j \in Job, Acquire(w, j) PROVE StillDue'
  <2>1. /\ UNCHANGED <<now, next, left, active, triggers>>
        /\ lock' = [lock EXCEPT ![j] = w]
    BY <1>4 DEF Acquire, rows
  <2>2. j \in Ready
    BY <1>4 DEF Acquire, Available, Fresh
  <2>3. \A i \in Job : lock'[i] # NoWorker => lock[i] # NoWorker \/ i \in Ready
    BY <1>t, <2>1, <2>2
  <2> QED
    BY <1>t, <1>1, <2>1, <2>3
<1>5. ASSUME NEW w \in Worker, Reschedule(w) PROVE StillDue'
  <2>1. job[w] \in Job /\ \A x \in answered[w] : x.job = job[w]
    BY <1>5 DEF Reschedule, Locked, Kept, Holds
  <2>2. UNCHANGED now /\ lock' = [lock EXCEPT ![job[w]] = NoWorker]
    BY <1>5 DEF Reschedule
  <2>3. \A i \in Job \ {job[w]} :
            next'[i] = next[i] /\ left'[i] = left[i] /\ (i \in active => i \in active')
    BY <1>t, <1>5, <2>1 DEF Reschedule
  <2>4. \A x \in triggers : x.job # job[w] => x \in triggers'
    BY <1>5, <2>1 DEF Reschedule, Deleted
  <2>5. ASSUME NEW i \in Job, lock'[i] # NoWorker PROVE i # job[w] /\ lock[i] # NoWorker
    BY <1>t, <2>2, <2>5
  <2> QED
    BY <1>t, <1>1, <2>2, <2>3, <2>4, <2>5
<1>6. ASSUME NEW w \in Worker, Abort(w) PROVE StillDue'
  <2>1. /\ UNCHANGED <<now, next, left, active, triggers>>
        /\ \A i \in Job : lock'[i] # NoWorker => lock[i] # NoWorker
    BY <1>6 DEF Abort, rows
  <2> QED
    BY <1>t, <1>1, <2>1
\* A row that is written is nobody's
<1>7. ASSUME NEW j \in Job, UserStep(j) PROVE StillDue'
  <2>1. UNCHANGED <<now, triggers, lock>> /\ lock[j] = NoWorker
    BY <1>7, UserFacts DEF Write
  <2>2. \A i \in Job \ {j} : next'[i] = next[i] /\ left'[i] = left[i] /\ (i \in active => i \in active')
    BY <1>7, UserFacts
  <2> QED
    BY <1>t, <1>1, <2>1, <2>2
<1>8. ASSUME NEW j \in Job, NEW id, NEW d, AddTrigger(j, id, d) PROVE StillDue'
  BY <1>t, <1>2, <1>8 DEF AddTrigger
<1>9. CASE SetChanging \/ Tick \/ UNCHANGED vars
  BY <1>t, <1>2, <1>9 DEF SetChanging, Tick, vars, rows
<1> QED
  BY <1>3, <1>4, <1>5, <1>6, <1>7, <1>8, <1>9, BoundAssumption DEF Next

-----------------------------------------------------------------------------
(* A job that has run is put off before it runs again. *)

LEMMA OnceStep == TypeOK /\ Once /\ [Next]_vars => Once'
<1> SUFFICES ASSUME TypeOK, Once, [Next]_vars PROVE Once'
  OBVIOUS
<1>t. /\ pc \in [Worker -> {"poll", "pick", "call", "save"}]
      /\ job \in [Worker -> Job \union {NoJob}]
  BY DEF TypeOK
\* No worker leaves "save", and no more jobs have run
<1>1. ASSUME ran' \subseteq ran, redo \intersect ran' \subseteq redo',
             \A v \in Worker : pc[v] = "save" => pc'[v] = "save" /\ job'[v] = job[v]
      PROVE  Once'
  BY <1>1 DEF Once
<1>2. ASSUME NEW w \in Worker, pc[w] # "save", \A v \in Worker : v # w => pc'[v] = pc[v] /\ job'[v] = job[v],
             UNCHANGED history
      PROVE  Once'
  BY <1>1, <1>2 DEF history
<1>3. ASSUME NEW w \in Worker, Poll(w) \/ Reopen(w) \/ CallDone(w) \/ CallFails(w) PROVE Once'
  <2>1. pc[w] # "save" /\ UNCHANGED <<job, history>>
    BY <1>3 DEF Poll, Reopen, CallDone, CallFails, running
  <2>2. \A v \in Worker : v # w => pc'[v] = pc[v]
    BY <1>t, <1>3 DEF Poll, Reopen, CallDone, CallFails
  <2> QED
    BY <1>2, <2>1, <2>2
<1>4. ASSUME NEW w \in Worker, NEW j \in Job, PassOver(w, j) \/ Conflict(w, j) PROVE Once'
  <2>1. pc[w] # "save" /\ UNCHANGED <<job, history>>
    BY <1>4 DEF PassOver, Conflict, running
  <2>2. \A v \in Worker : v # w => pc'[v] = pc[v]
    BY <1>t, <1>4 DEF PassOver, Conflict, Done
  <2> QED
    BY <1>2, <2>1, <2>2
<1>5. ASSUME NEW w \in Worker, NEW j \in Job, Acquire(w, j) PROVE Once'
  BY <1>t, <1>2, <1>5 DEF Acquire
<1>6. ASSUME NEW w \in Worker, CommitCalls(w) PROVE Once'
  <2>1. pc' = [pc EXCEPT ![w] = "save"] /\ UNCHANGED <<job, redo>> /\ ran' \subseteq ran \union {job[w]}
    BY <1>6 DEF CommitCalls, running
  <2> SUFFICES ASSUME NEW j \in ran'
               PROVE  j \in redo \/ \E v \in Worker : pc'[v] = "save" /\ job[v] = j
    BY <2>1 DEF Once
  <2>2. CASE j = job[w]
    BY <1>t, <2>1, <2>2
  <2>3. CASE j \in ran
    BY <1>t, <2>1, <2>3 DEF Once
  <2> QED
    BY <2>1, <2>2, <2>3
<1>7. ASSUME NEW w \in Worker, Reschedule(w) PROVE Once'
  <2>1. /\ ran' = ran \ {job[w]} /\ redo' = redo \ {job[w]}
        /\ \A v \in Worker : v # w => pc'[v] = pc[v] /\ job'[v] = job[v]
    BY <1>t, <1>7 DEF Reschedule, Rest, Done
  <2> SUFFICES ASSUME NEW j \in ran'
               PROVE  j \in redo' \/ \E v \in Worker : pc'[v] = "save" /\ job'[v] = j
    BY DEF Once
  <2>2. j \in ran /\ j # job[w]
    BY <2>1
  <2> QED
    BY <2>1, <2>2 DEF Once
<1>8. ASSUME NEW w \in Worker, Abort(w) PROVE Once'
  <2>1. /\ ran' = ran /\ redo \subseteq redo' /\ (pc[w] = "save" => job[w] \in redo')
        /\ \A v \in Worker : v # w => pc'[v] = pc[v] /\ job'[v] = job[v]
    BY <1>t, <1>8 DEF Abort, Rest
  <2> SUFFICES ASSUME NEW j \in ran
               PROVE  j \in redo' \/ \E v \in Worker : pc'[v] = "save" /\ job'[v] = j
    BY <2>1 DEF Once
  <2> QED
    BY <2>1 DEF Once
<1>9. ASSUME NEW j \in Job, UserStep(j) PROVE Once'
  <2>1. UNCHANGED <<pc, job>>
    BY <1>9, UserFacts DEF Write, running
  <2>2. ran' \subseteq ran /\ redo \intersect ran' \subseteq redo'
    BY <1>9, UserFacts
  <2> QED
    BY <1>1, <2>1, <2>2
<1>10. ASSUME NEW j \in Job, NEW id, NEW d, AddTrigger(j, id, d) PROVE Once'
  <2>1. UNCHANGED <<ran, redo, pc, job>>
    BY <1>10 DEF AddTrigger, history, running
  <2> QED
    BY <1>1, <2>1
<1>11. CASE SetChanging \/ Tick \/ UNCHANGED vars
  <2>1. UNCHANGED <<ran, redo, pc, job>>
    BY <1>11 DEF SetChanging, Tick, vars, history, running
  <2> QED
    BY <1>1, <2>1
<1> QED
  BY <1>3, <1>4, <1>5, <1>6, <1>7, <1>8, <1>9, <1>10, <1>11, BoundAssumption
     DEF Next, WorkerStep

-----------------------------------------------------------------------------
(* The calls. *)

LEMMA LimitStep == TypeOK /\ Locked /\ Kept /\ CallsAreLimited /\ [Next]_vars => CallsAreLimited'
<1> SUFFICES ASSUME TypeOK, Locked, Kept, CallsAreLimited, [Next]_vars PROVE CallsAreLimited'
  OBVIOUS
<1>1. ASSUME UNCHANGED <<left, limit, called>> PROVE CallsAreLimited'
  BY <1>1 DEF CallsAreLimited
<1>2. ASSUME NEW w \in Worker, Reschedule(w) PROVE CallsAreLimited'
  <2> DEFINE j == job[w]
             n == Calls(j, time[w])
  <2>1. j \in Job /\ left[j] # 0
    BY <1>2 DEF Reschedule, Locked, Kept, Holds
  <2>2. n \in Nat /\ (left[j] # -1 => n <= left[j])
    BY <2>1, CallsType DEF TypeOK
  <2>3. left' = [left EXCEPT ![j] = LeftAfter(j, n)]
        /\ called' = [called EXCEPT ![j] = IF left[j] = -1 THEN @ ELSE @ + n]
        /\ UNCHANGED limit
    BY <1>2 DEF Reschedule
  <2>4. left \in [Job -> Nat \union {-1}] /\ called \in [Job -> Nat] /\ limit[j] \in Nat \union {-1}
    BY <2>1 DEF TypeOK
  <2>5. left[j] # -1 => LeftAfter(j, n) = left[j] - n
    <3> HIDE DEF n
    <3> QED
      BY <2>1, <2>2, <2>4 DEF LeftAfter
  <2> HIDE DEF j, n
  <2> SUFFICES ASSUME NEW i \in Job, limit[i] # -1
               PROVE  left'[i] >= 0 /\ left'[i] + called'[i] = limit[i]
    BY <2>3 DEF CallsAreLimited
  <2>6. left[i] >= 0 /\ left[i] + called[i] = limit[i]
    BY DEF CallsAreLimited
  <2>7. CASE i = j
    BY <2>1, <2>2, <2>3, <2>4, <2>5, <2>6, <2>7
  <2>8. CASE i # j
    BY <2>3, <2>4, <2>6, <2>8
  <2> QED
    BY <2>7, <2>8
<1>3. ASSUME NEW w \in Worker, WorkerStep(w), ~ Reschedule(w) PROVE CallsAreLimited'
  BY <1>1, <1>3
     DEF WorkerStep, Poll, Reopen, PassOver, Conflict, Acquire, CallDone, CallFails, CommitCalls, rows, history
<1>4. ASSUME NEW w \in Worker, Abort(w) PROVE CallsAreLimited'
  BY <1>1, <1>4 DEF Abort, rows
<1>5. ASSUME NEW j \in Job, UserStep(j) PROVE CallsAreLimited'
  <2>1. CASE UNCHANGED <<left, limit, called>>
    BY <1>1, <2>1
  <2>2. ASSUME NEW n \in Nat \union {-1},
               left' = [left EXCEPT ![j] = n], limit' = [limit EXCEPT ![j] = n],
               called' = [called EXCEPT ![j] = 0]
        PROVE  CallsAreLimited'
    <3>1. left'[j] = n /\ limit'[j] = n /\ called'[j] = 0
      BY <2>2 DEF TypeOK
    <3>2. \A i \in Job \ {j} : left'[i] = left[i] /\ limit'[i] = limit[i] /\ called'[i] = called[i]
      BY <2>2 DEF TypeOK
    <3> QED
      BY <3>1, <3>2 DEF CallsAreLimited
  <2> QED
    BY <1>5, <2>1, <2>2, UserLimits
<1>6. ASSUME NEW j \in Job, NEW id, NEW d, AddTrigger(j, id, d) PROVE CallsAreLimited'
  BY <1>1, <1>6 DEF AddTrigger, history
<1>7. CASE SetChanging \/ Tick \/ UNCHANGED vars
  BY <1>1, <1>7 DEF SetChanging, Tick, vars, history, rows
<1> QED
  BY <1>2, <1>3, <1>4, <1>5, <1>6, <1>7, BoundAssumption DEF Next

-----------------------------------------------------------------------------
(* Theorems. *)

LEMMA InitInv == Init => IInv
<1> SUFFICES ASSUME Init PROVE IInv
  OBVIOUS
<1>1. TypeOK
  BY TypeInit
<1>2. Locked /\ Idle /\ Fresh /\ Kept /\ Once
  BY DEF Init, Locked, Idle, Fresh, Kept, Once, Holds
<1>3. CallsAreLimited
  BY JobAssumption DEF Init, CallsAreLimited
<1>4. Taken /\ StillDue
  BY DEF Init, Taken, StillDue
<1> QED
  BY <1>1, <1>2, <1>3, <1>4 DEF IInv

LEMMA StepInv == IInv /\ [Next]_vars => IInv'
BY TypeStep, LockedStep, TakenStep, IdleStep, FreshStep, KeptStep, StillDueStep, OnceStep, LimitStep
   DEF IInv

LEMMA Inductive == Spec => []IInv
BY InitInv, StepInv, PTL DEF Spec

\* The variables keep their types: numbercall is a number of calls or -1, the
\* triggers are triggers of jobs, a job is locked by a worker or by nobody.
THEOREM TypeInvariance == Spec => []TypeOK
<1>1. IInv => TypeOK
  BY DEF IInv
<1> QED
  BY <1>1, Inductive, PTL

\* Whatever the workers do, the calls of a limited job are counted, and there
\* are never more of them than the numbercall it was last given (_process_job).
THEOREM LimitTheorem == Spec => []CallsAreLimited
<1>1. IInv => CallsAreLimited
  BY DEF IInv
<1> QED
  BY <1>1, Inductive, PTL

\* The lock makes "all jobs executed only once" true for any number of workers
\* (ir_cron.py:211), but for a worker lost between its two commits.
THEOREM OnlyOnceTheorem == Spec => OnlyOnce
<1>1. IInv => \A w \in Worker : pc[w] = "call" => job[w] \notin ran \/ job[w] \in redo
  <2> SUFFICES ASSUME IInv, NEW w \in Worker, pc[w] = "call", job[w] \in ran, job[w] \notin redo
               PROVE  FALSE
    OBVIOUS
  <2>1. PICK v \in Worker : pc[v] = "save" /\ job[v] = job[w]
    BY DEF IInv, Once
  <2>2. lock[job[w]] = w /\ lock[job[v]] = v
    BY <2>1 DEF IInv, Locked, Holds
  <2> QED
    BY <2>1, <2>2
<1>2. IInv /\ [Next]_vars =>
        [\A w \in Worker : pc[w] = "call" /\ pc'[w] = "save" /\ w \in effect =>
            job[w] \notin ran \/ job[w] \in redo]_vars
  BY <1>1
<1> QED
  BY <1>2, Inductive, PTL DEF Spec, OnlyOnce

LEMMA TakenByAcquire ==
    ASSUME IInv, Next, NEW w \in Worker, pc[w] = "pick", pc'[w] = "call"
    PROVE  \E j \in Job : Acquire(w, j)
<1>t. pc \in [Worker -> {"poll", "pick", "call", "save"}]
  BY DEF IInv, TypeOK
<1>1. ASSUME NEW v \in Worker, NEW p \in {"poll", "pick", "save"}, pc' = [pc EXCEPT ![v] = p]
      PROVE  FALSE
  BY <1>t, <1>1
<1>2. ~ UNCHANGED pc
  OBVIOUS
<1>3. \A v \in Worker : ~ Poll(v) /\ ~ CommitCalls(v) /\ ~ Abort(v)
  BY <1>1 DEF Poll, CommitCalls, Abort
<1>4. \A v \in Worker : ~ Reopen(v) /\ ~ CallDone(v) /\ ~ CallFails(v)
  BY <1>2 DEF Reopen, CallDone, CallFails
<1>5. ASSUME NEW v \in Worker, NEW j, Done(v, j) PROVE FALSE
  <2> DEFINE p == IF todo[v] \subseteq {j} THEN "poll" ELSE "pick"
  <2>1. pc' = [pc EXCEPT ![v] = p] /\ p \in {"poll", "pick", "save"}
    BY <1>5 DEF Done
  <2> QED
    BY <1>1, <2>1
<1>6. \A v \in Worker, j \in Job : ~ PassOver(v, j) /\ ~ Conflict(v, j) /\ ~ Reschedule(v)
  BY <1>5 DEF PassOver, Conflict, Reschedule
<1>7. \A j \in Job : ~ UserStep(j)
  BY <1>2, UserFacts DEF IInv, Write
<1>8. \A j, id, d : ~ AddTrigger(j, id, d)
  BY <1>2 DEF AddTrigger
<1>9. ~ SetChanging /\ ~ Tick
  BY <1>2 DEF SetChanging, Tick
<1>10. PICK v \in Worker : WorkerStep(v)
  BY <1>3, <1>7, <1>8, <1>9, BoundAssumption DEF Next
<1>11. CASE \E j \in Job : PassOver(v, j) \/ Conflict(v, j) \/ Acquire(v, j)
  <2>1. PICK j \in Job : Acquire(v, j)
    BY <1>6, <1>11
  <2>2. v = w
    BY <1>t, <2>1 DEF Acquire
  <2> QED
    BY <2>1, <2>2
<1>12. CASE Reschedule(v)
  <2>1. Done(v, job[v])
    BY <1>12 DEF Reschedule
  <2> QED
    BY <1>5, <2>1
<1> QED
  BY <1>3, <1>4, <1>10, <1>11, <1>12 DEF WorkerStep

\* A worker locks a job only when the job is due, however old the snapshot it
\* chose the job from: SKIP LOCKED and the serialization of the row's writes
\* are enough for that (_acquire_one_job).
THEOREM DueTheorem == Spec => DueWhenTaken
<1>1. ASSUME IInv, Next PROVE \A w \in Worker : pc[w] = "pick" /\ pc'[w] = "call" => job'[w] \in Ready
  <2> SUFFICES ASSUME NEW w \in Worker, pc[w] = "pick", pc'[w] = "call"
               PROVE  job'[w] \in Ready
    OBVIOUS
  <2>1. PICK j \in Job : Acquire(w, j)
    BY <1>1, TakenByAcquire
  <2>2. job'[w] = j
    BY <1>1, <2>1 DEF Acquire, IInv, TypeOK
  <2>3. j \in Ready
    BY <1>1, <2>1 DEF Acquire, Available, IInv, Fresh
  <2> QED
    BY <2>2, <2>3
<1>2. IInv /\ [Next]_vars =>
        [\A w \in Worker : pc[w] = "pick" /\ pc'[w] = "call" => job'[w] \in Ready]_vars
  BY <1>1
<1> QED
  BY <1>2, Inductive, PTL DEF Spec, DueWhenTaken

\* No trigger is lost that comes while its job runs: the worker deletes those
\* of the snapshot it found the job in, and the calls began after that.
THEOREM ServedTheorem == Spec => TriggersAreServed
<1>1. ASSUME IInv, Next, NEW x \in triggers \ triggers'
      PROVE  \E w \in Worker : pc[w] = "save" /\ job[w] = x.job /\ (w \in effect => x \in view[w])
  <2>1. ~ UNCHANGED rows
    BY <1>1 DEF rows
  <2>2. \A w \in Worker : ~ Poll(w) /\ ~ Abort(w)
    BY <1>1, <2>1 DEF Poll, Abort
  <2>3. \A w \in Worker : ~ Reopen(w) /\ ~ CallDone(w) /\ ~ CallFails(w) /\ ~ CommitCalls(w)
    BY <2>1 DEF Reopen, CallDone, CallFails, CommitCalls
  <2>4. \A w \in Worker, j \in Job : ~ PassOver(w, j) /\ ~ Conflict(w, j) /\ ~ Acquire(w, j)
    BY <2>1 DEF PassOver, Conflict, Acquire
  <2>5. \A j \in Job : ~ UserStep(j) /\ \A id, d : ~ AddTrigger(j, id, d)
    BY <1>1, UserFacts DEF IInv, Write, AddTrigger
  <2>6. ~ SetChanging /\ ~ Tick
    BY <1>1, <2>1 DEF SetChanging, Tick
  <2>7. PICK w \in Worker : Reschedule(w)
    BY <1>1, <2>2, <2>3, <2>4, <2>5, <2>6, BoundAssumption
       DEF Next, WorkerStep
  <2>8. pc[w] = "save" /\ x \in answered[w]
    BY <1>1, <2>7 DEF Reschedule, Deleted
  <2> QED
    BY <1>1, <2>8 DEF IInv, Kept, Holds
<1>2. IInv /\ [Next]_vars =>
        [\A x \in triggers \ triggers' : \E w \in Worker :
            pc[w] = "save" /\ job[w] = x.job /\ (w \in effect => x \in view[w])]_vars
  BY <1>1 DEF vars, rows
<1> QED
  BY <1>2, Inductive, PTL DEF Spec, TriggersAreServed
-----------------------------------------------------------------------------
(* The roster. *)

\* A duty nothing happens to
LEMMA RosterStays ==
    ASSUME NEW d \in Job,
           lock'[d] = lock[d], Stage(d)' = Stage(d),
           d \in ran' <=> d \in ran, d \in redo' <=> d \in redo,
           next'[d] = next[d], left'[d] = left[d], interval'[d] = interval[d],
           d \in active' <=> d \in active
    PROVE  Promise!Stay(d)
BY DEF Promise!Stay, Promise!Same

\* How far its worker is with a job tells only what that worker does
LEMMA StageStays ==
    ASSUME IInv, NEW d \in Job, lock'[d] = lock[d],
           \A w \in Worker : lock[d] = w /\ Holds(w) => pc'[w] = pc[w]
    PROVE  Stage(d)' = Stage(d)
<1>1. CASE lock[d] = NoWorker
  BY <1>1 DEF Stage
<1>2. CASE lock[d] # NoWorker
  <2>1. lock[d] \in Worker /\ Holds(lock[d])
    BY <1>2 DEF IInv, Taken
  <2>2. pc'[lock[d]] = pc[lock[d]]
    BY <2>1
  <2> QED
    BY <1>2, <2>2 DEF Stage
<1> QED
  BY <1>1, <1>2

PromiseStep(d) ==
    \/ Promise!Stay(d) \/ Promise!Amend(d) \/ Promise!TakeUp(d)
    \/ Promise!Finish(d) \/ Promise!HandOver(d) \/ Promise!Lose(d)

LEMMA RosterStep ==
    ASSUME IInv, IInv', [Next]_vars, NEW d \in Job
    PROVE  PromiseStep(d)
<1>t. /\ pc \in [Worker -> {"poll", "pick", "call", "save"}]
      /\ job \in [Worker -> Job \union {NoJob}]
      /\ lock \in [Job -> Worker \union {NoWorker}]
      /\ next \in [Job -> Nat] /\ left \in [Job -> Nat \union {-1}]
      /\ NoWorker \notin Worker
  BY JobAssumption DEF IInv, TypeOK
<1>h. ASSUME NEW w \in Worker PROVE Holds(w) => job[w] \in Job /\ lock[job[w]] = w
  BY DEF IInv, Locked
<1>k. lock[d] # NoWorker => lock[d] \in Worker /\ Holds(lock[d]) /\ job[lock[d]] = d
  BY DEF IInv, Taken
\* A step that locks, unlocks, commits and writes nothing
<1>1. ASSUME UNCHANGED <<lock, next, left, active, interval, ran, redo>>,
             \A w \in Worker : Holds(w) => pc'[w] = pc[w]
      PROVE  PromiseStep(d)
  BY <1>1, StageStays, RosterStays DEF PromiseStep
<1>2. ASSUME NEW w \in Worker, Poll(w) \/ Reopen(w) \/ CallDone(w) \/ CallFails(w)
      PROVE  PromiseStep(d)
  <2>1. UNCHANGED <<lock, next, left, active, interval, ran, redo>>
    BY <1>2 DEF Poll, Reopen, CallDone, CallFails, rows, history
  <2>2. \A v \in Worker : Holds(v) => pc'[v] = pc[v]
    BY <1>t, <1>2 DEF Poll, Reopen, CallDone, CallFails, Holds
  <2> QED
    BY <1>1, <2>1, <2>2
<1>3. ASSUME NEW w \in Worker, NEW j \in Job, PassOver(w, j) \/ Conflict(w, j)
      PROVE  PromiseStep(d)
  <2>1. UNCHANGED <<lock, next, left, active, interval, ran, redo>>
    BY <1>3 DEF PassOver, Conflict, rows, history
  <2>2. \A v \in Worker : Holds(v) => pc'[v] = pc[v]
    BY <1>t, <1>3 DEF PassOver, Conflict, Done, Holds
  <2> QED
    BY <1>1, <2>1, <2>2
<1>4. ASSUME NEW w \in Worker, NEW j \in Job, Acquire(w, j) PROVE PromiseStep(d)
  <2>1. /\ UNCHANGED <<now, next, left, active, interval, triggers, ran, redo>>
        /\ lock' = [lock EXCEPT ![j] = w] /\ lock[j] = NoWorker
        /\ pc' = [pc EXCEPT ![w] = "call"] /\ ~ Holds(w)
    BY <1>4 DEF Acquire, Available, rows, history, Holds
  <2>2. CASE d = j
    <3>1. Stage(d) = "idle" /\ Stage(d)' = "kept" /\ lock'[d] = w
      BY <1>t, <2>1, <2>2 DEF Stage
    <3>2. d \in Ready
      BY <1>4, <2>2 DEF Acquire, Available, IInv, Fresh
    <3>3. Promise!TakeUp(d)
      BY <2>1, <3>1, <3>2 DEF Promise!TakeUp, Promise!Same
    <3> QED
      BY <3>3 DEF PromiseStep
  <2>3. CASE d # j
    <3>1. lock'[d] = lock[d] /\ \A v \in Worker : Holds(v) => pc'[v] = pc[v]
      BY <1>t, <2>1, <2>3
    <3> QED
      BY <2>1, <3>1, StageStays, RosterStays DEF PromiseStep
  <2> QED
    BY <2>2, <2>3
<1>5. ASSUME NEW w \in Worker, CommitCalls(w) PROVE PromiseStep(d)
  <2>1. /\ UNCHANGED <<lock, next, left, active, interval, redo>>
        /\ pc[w] = "call" /\ pc' = [pc EXCEPT ![w] = "save"]
        /\ ran' = ran \/ ran' = ran \union {job[w]}
    BY <1>5 DEF CommitCalls, rows
  <2>2. lock[job[w]] = w
    BY <1>h, <2>1 DEF Holds
  <2>3. CASE d = job[w]
    <3>1. Stage(d) = "kept" /\ Stage(d)' = "over"
      BY <1>t, <2>1, <2>2, <2>3 DEF Stage
    <3>2. d \in ran => d \in redo
      <4> SUFFICES ASSUME d \in ran, d \notin redo PROVE FALSE
        OBVIOUS
      <4>1. PICK v \in Worker : pc[v] = "save" /\ job[v] = d
        BY DEF IInv, Once
      <4> QED
        BY <1>h, <2>1, <2>2, <2>3, <4>1 DEF Holds
    <3>3. Promise!Finish(d)
      BY <2>1, <2>3, <3>1, <3>2 DEF Promise!Finish, Promise!Same
    <3> QED
      BY <3>3 DEF PromiseStep
  <2>4. CASE d # job[w]
    <3>1. \A v \in Worker : lock[d] = v /\ Holds(v) => pc'[v] = pc[v]
      BY <1>t, <1>k, <2>1, <2>4
    <3> QED
      BY <2>1, <2>4, <3>1, StageStays, RosterStays DEF PromiseStep
  <2> QED
    BY <2>3, <2>4
<1>6. ASSUME NEW w \in Worker, Reschedule(w) PROVE PromiseStep(d)
  <2>1. /\ lock' = [lock EXCEPT ![job[w]] = NoWorker] /\ pc[w] = "save"
        /\ ran' = ran \ {job[w]} /\ redo' = redo \ {job[w]}
    BY <1>6 DEF Reschedule
  <2>2. job[w] \in Job /\ lock[job[w]] = w
    BY <1>h, <2>1 DEF Holds
  <2>3. CASE d = job[w]
    <3>1. Stage(d) = "over" /\ Stage(d)' = "idle" /\ lock'[d] = NoWorker
      BY <1>t, <2>1, <2>2, <2>3 DEF Stage
    <3>2. Promise!HandOver(d)
      BY <2>1, <2>3, <3>1 DEF Promise!HandOver, Promise!Cleared
    <3> QED
      BY <3>2 DEF PromiseStep
  <2>4. CASE d # job[w]
    <3>1. next'[d] = next[d] /\ left'[d] = left[d] /\ interval'[d] = interval[d]
          /\ (d \in active' <=> d \in active)
      BY <1>t, <1>6, <2>2, <2>4 DEF Reschedule
    <3>2. lock'[d] = lock[d] /\ lock[d] # w
      BY <1>t, <1>k, <2>1, <2>4
    <3>3. \A v \in Worker : v # w => pc'[v] = pc[v]
      BY <1>t, <1>6 DEF Reschedule, Done
    <3> QED
      BY <2>1, <2>4, <3>1, <3>2, <3>3, StageStays, RosterStays DEF PromiseStep
  <2> QED
    BY <2>3, <2>4
<1>7. ASSUME NEW w \in Worker, Abort(w) PROVE PromiseStep(d)
  <2>1. /\ lock' = [j \in Job |-> IF lock[j] = w THEN NoWorker ELSE lock[j]]
        /\ redo' = IF pc[w] = "save" THEN redo \union {job[w]} ELSE redo
        /\ pc' = [pc EXCEPT ![w] = "poll"]
        /\ UNCHANGED <<next, left, active, interval, ran>>
    BY <1>7 DEF Abort, rows
  <2>2. CASE lock[d] = w
    <3>1. Holds(w) /\ job[w] = d /\ lock'[d] = NoWorker
      BY <1>t, <1>k, <2>1, <2>2
    <3>2. /\ Stage(d) = IF pc[w] = "save" THEN "over" ELSE "kept"
          /\ Stage(d)' = "idle"
      BY <1>t, <2>2, <3>1 DEF Stage
    <3>3. Promise!Lose(d)
      BY <2>1, <3>1, <3>2 DEF Promise!Lose
    <3> QED
      BY <3>3 DEF PromiseStep
  <2>3. CASE lock[d] # w
    <3>1. lock'[d] = lock[d] /\ \A v \in Worker : v # w => pc'[v] = pc[v]
      BY <1>t, <2>1, <2>3
    <3>2. d \in redo' <=> d \in redo
      BY <1>h, <2>1, <2>3 DEF Holds
    <3> QED
      BY <2>1, <2>3, <3>1, <3>2, StageStays, RosterStays DEF PromiseStep
  <2> QED
    BY <2>2, <2>3
\* Somebody writes the row of j, which nobody processes
<1>8. ASSUME NEW j \in Job, UserStep(j) PROVE PromiseStep(d)
  <2>1. UNCHANGED <<lock, pc>> /\ lock[j] = NoWorker
    BY <1>8, UserFacts DEF IInv, Write
  <2>2. \/ UNCHANGED <<ran, redo>>
        \/ ran' = ran \ {j} /\ redo' = redo \ {j}
    BY <1>8, UserFacts DEF IInv
  <2>3. CASE d = j
    <3>1. Stage(d) = "idle" /\ Stage(d)' = "idle" /\ lock'[d] = NoWorker
      BY <2>1, <2>3 DEF Stage
    <3>2. Promise!Amend(d)
      BY <2>2, <2>3, <3>1 DEF Promise!Amend, Promise!Same, Promise!Cleared
    <3> QED
      BY <3>2 DEF PromiseStep
  <2>4. CASE d # j
    <3>1. /\ next'[d] = next[d] /\ left'[d] = left[d] /\ interval'[d] = interval[d]
          /\ d \in active' <=> d \in active
      BY <1>8, <2>4, UserFacts DEF IInv
    <3> QED
      BY <2>1, <2>2, <2>4, <3>1, StageStays, RosterStays DEF PromiseStep
  <2> QED
    BY <2>3, <2>4
<1>9. ASSUME NEW j \in Job, NEW id, NEW m, AddTrigger(j, id, m) PROVE PromiseStep(d)
  <2>1. UNCHANGED <<lock, next, left, active, interval, ran, redo, pc>>
    BY <1>9 DEF AddTrigger, history
  <2> QED
    BY <1>1, <2>1
<1>10. CASE SetChanging \/ Tick \/ UNCHANGED vars
  <2>1. UNCHANGED <<lock, next, left, active, interval, ran, redo, pc>>
    BY <1>10 DEF SetChanging, Tick, vars, rows, history
  <2> QED
    BY <1>1, <2>1
<1> QED
  BY <1>2, <1>3, <1>4, <1>5, <1>6, <1>7, <1>8, <1>9, <1>10, BoundAssumption
     DEF Next, WorkerStep

\* However many workers there are, and whatever rows are written, triggers made
\* and workers lost meanwhile, the scheduler keeps the roster: the lock of
\* _acquire_one_job makes a worker the only keeper of a job, the write at the end
\* of _process_job is all that lets it be performed again, and what made it due
\* stays until then.
THEOREM RosterTheorem == Spec => KeepsRoster
<1>1. Init => Promise!Init
  <2> SUFFICES ASSUME Init PROVE Promise!Init
    OBVIOUS
  <2>1. \A j \in Job : Stage(j) = "idle"
    BY DEF Init, Stage
  <2> QED
    BY <2>1 DEF Init, Promise!Init
<1>2. IInv /\ IInv' /\ [Next]_vars => [Promise!Next]_(Promise!vars)
  <2> SUFFICES ASSUME IInv, IInv', [Next]_vars PROVE Promise!Next
    OBVIOUS
  <2>1. \A d \in Job : PromiseStep(d)
    BY RosterStep
  <2>2. ASSUME NEW d \in Job, Stage(d)' # "idle" PROVE d \in Ready'
    <3>1. lock'[d] # NoWorker
      BY <2>2 DEF Stage
    <3> QED
      BY <3>1 DEF IInv, StillDue
  <2>3. ASSUME NEW d \in Job, NEW e \in Job, lock'[d] = lock'[e], lock'[d] # NoWorker PROVE d = e
    <3>1. job'[lock'[d]] = d /\ job'[lock'[e]] = e
      BY <2>3 DEF IInv, Taken
    <3> QED
      BY <2>3, <3>1
  <2> QED
    BY <2>1, <2>2, <2>3 DEF Promise!Next, PromiseStep
<1> QED
  BY <1>1, <1>2, Inductive, PTL DEF Spec, KeepsRoster, Promise!Spec
\* The loop of _process_job, one interval after another until the moment has
\* passed, as the division that Missed is
LEMMA DivFacts ==
    ASSUME NEW a \in Nat, NEW b \in Nat \ {0}
    PROVE  /\ a \div b \in Nat
           /\ (a \div b) * b <= a /\ a < (a \div b) * b + b
OBVIOUS

LEMMA MissedFacts ==
    ASSUME TypeOK, NEW j \in Job, NEW t \in Nat, next[j] <= t
    PROVE  /\ Missed(j, t) \in Nat
           /\ next[j] + Missed(j, t) * interval[j] \in t + 1 .. t + interval[j]
<1>1. next[j] \in Nat /\ interval[j] \in Nat \ {0}
  BY DEF TypeOK
<1> DEFINE b == interval[j]
           q == (t - next[j]) \div b
<1>2. t - next[j] \in Nat
  BY <1>1
<1>3. q \in Nat /\ q * b <= t - next[j] /\ t - next[j] < q * b + b
  BY <1>1, <1>2, DivFacts
<1>4. Missed(j, t) = q + 1
  BY DEF Missed
<1> HIDE DEF q
<1>5. (q + 1) * b = q * b + b /\ q * b \in Nat
  BY <1>1, <1>3
<1>6. next[j] + (q * b + b) \in t + 1 .. t + b
  BY <1>1, <1>3, <1>5
<1> QED
  BY <1>3, <1>4, <1>5, <1>6

\* Only its worker hands a job over
LEMMA HandedOver ==
    ASSUME IInv, Next, NEW j \in Job, Stage(j) = "over", Stage(j)' = "idle", j \notin redo'
    PROVE  Reschedule(lock[j]) /\ job[lock[j]] = j
<1>t. /\ lock \in [Job -> Worker \union {NoWorker}]
      /\ NoWorker \notin Worker
  BY JobAssumption DEF IInv, TypeOK
<1>1. lock[j] # NoWorker /\ pc[lock[j]] = "save" /\ lock'[j] = NoWorker
  BY DEF Stage
<1>2. lock[j] \in Worker /\ job[lock[j]] = j
  BY <1>1 DEF IInv, Taken
<1>3. lock' # lock
  BY <1>1
<1>4. ASSUME NEW w \in Worker, WorkerStep(w) PROVE Reschedule(w) /\ lock[j] = w
  <2>1. ~ Poll(w) /\ ~ Reopen(w) /\ ~ CallDone(w) /\ ~ CallFails(w) /\ ~ CommitCalls(w)
    BY <1>3 DEF Poll, Reopen, CallDone, CallFails, CommitCalls
  <2>2. ASSUME NEW i \in Job PROVE ~ PassOver(w, i) /\ ~ Conflict(w, i) /\ ~ Acquire(w, i)
    BY <1>t, <1>1, <1>3 DEF PassOver, Conflict, Acquire
  <2>3. Reschedule(w)
    BY <1>4, <2>1, <2>2 DEF WorkerStep
  <2>4. lock' = [lock EXCEPT ![job[w]] = NoWorker] /\ pc[w] = "save"
    BY <2>3 DEF Reschedule
  <2>5. lock[job[w]] = w
    BY <2>4 DEF IInv, Locked, Holds
  <2> QED
    BY <1>t, <1>1, <2>3, <2>4, <2>5
<1>5. ASSUME NEW w \in Worker, Abort(w) PROVE FALSE
  <2>1. lock[j] = w
    BY <1>1, <1>5 DEF Abort
  <2> QED
    BY <1>1, <1>2, <1>5, <2>1 DEF Abort
<1>6. \A i \in Job : ~ UserStep(i) /\ \A id, d : ~ AddTrigger(i, id, d)
  BY <1>3, UserFacts DEF IInv, Write, AddTrigger
<1>7. ~ SetChanging /\ ~ Tick
  BY <1>3 DEF SetChanging, Tick
<1> QED
  BY <1>2, <1>4, <1>5, <1>6, <1>7, BoundAssumption DEF Next

\* A job that was processed is put off to the first of its moments after the
\* one it was taken at, "the cron nextcall as seen from now" (ir_cron.py:288): it
\* is never left in the past however late it was, and never skips a moment.  A
\* job that was called for a trigger, before it was due, keeps its nextcall.
PutOff ==
    [][\A j \in Job : Stage(j) = "over" /\ Stage(j)' = "idle" /\ j \notin redo' =>
          LET t == time[lock[j]] IN
          IF next[j] <= t
          THEN /\ next'[j] \in t + 1 .. t + interval[j]
               /\ \E n \in Nat : next'[j] = next[j] + n * interval[j]
          ELSE next'[j] = next[j]]_vars

\* So it is, whatever the intervals are and however many calls were missed.
THEOREM PutOffTheorem == Spec => PutOff
<1>1. ASSUME IInv, Next, NEW j \in Job, Stage(j) = "over", Stage(j)' = "idle", j \notin redo'
      PROVE  LET t == time[lock[j]] IN
             IF next[j] <= t
             THEN /\ next'[j] \in t + 1 .. t + interval[j]
                  /\ \E n \in Nat : next'[j] = next[j] + n * interval[j]
             ELSE next'[j] = next[j]
  <2> DEFINE t == time[lock[j]]
  <2>1. Reschedule(lock[j]) /\ job[lock[j]] = j
    BY <1>1, HandedOver
  <2>2. TypeOK /\ t \in Nat /\ next[j] \in Nat /\ interval[j] \in Nat
    <3>1. lock[j] \in Worker
      BY <1>1 DEF IInv, Taken, Stage
    <3> QED
      BY <1>1, <3>1 DEF IInv, TypeOK
  <2>3. next' = [next EXCEPT ![j] = next[j] + Missed(j, t) * interval[j]]
    BY <2>1 DEF Reschedule
  <2>4. next'[j] = next[j] + Missed(j, t) * interval[j]
    BY <2>2, <2>3 DEF TypeOK
  <2>5. CASE next[j] <= t
    BY <2>2, <2>4, <2>5, MissedFacts
  <2>6. CASE ~ (next[j] <= t)
    <3>1. Missed(j, t) = 0
      BY <2>6 DEF Missed
    <3> QED
      BY <2>2, <2>4, <2>6, <3>1
  <2> QED
    BY <2>5, <2>6
<1>2. IInv /\ [Next]_vars =>
        [\A j \in Job : Stage(j) = "over" /\ Stage(j)' = "idle" /\ j \notin redo' =>
            LET t == time[lock[j]] IN
            IF next[j] <= t
            THEN /\ next'[j] \in t + 1 .. t + interval[j]
                 /\ \E n \in Nat : next'[j] = next[j] + n * interval[j]
            ELSE next'[j] = next[j]]_vars
  BY <1>1
<1> QED
  BY <1>2, Inductive, PTL DEF Spec, PutOff
=============================================================================
