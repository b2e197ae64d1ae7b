-------------------------- MODULE Maintenance_proofs --------------------------
(***************************************************************************)
(* Theorems about the repair cycle, for every set of reports and quotes,   *)
(* every number of jobs and of overlapping creations, and every bound.     *)
(***************************************************************************)
EXTENDS Maintenance, Extremes, TLAPS, FiniteSetTheorems

(* The job state of a quote and its approval agree in all rows there are.  *)
WorkInv == RowsOK /\ StateFollowsApproval

(* What a step makes of the quotes of the reports outside gone, when it    *)
(* rewrote their job states to state1: they stay, and a new one is TODO.   *)
Kept(gone, state1) ==
    /\ \A q \in quotes : report[q] \notin gone =>
            q \in quotes' /\ approved'[q] = approved[q]
                          /\ state'[q] = state1[q] /\ done'[q] = done[q]
    /\ \A q \in quotes' : q \in premade => q \in premade'
    /\ \A q \in quotes' : state'[q] # "TODO" =>
            q \in quotes /\ state'[q] = state1[q] /\ done'[q] = done[q]

(* Job quotes are made of ids that are free, all for the one report.       *)
LEMMA JobQuotesFacts ==
    ASSUME NEW r, NEW owner \in JobQuotes(r)
    PROVE  DOMAIN owner \subseteq Quote \ quotes /\ \A q \in DOMAIN owner : owner[q] = r
BY DEF JobQuotes

(* Replacing reports keeps the rows well formed and leaves the other       *)
(* reports' quotes as they were rewritten.                                 *)
LEMMA ReplaceKeeps ==
    ASSUME WorkInv, today' \in Day \ {0},
           NEW gone \in SUBSET Report, NEW new \in SUBSET Report,
           NEW owner, DOMAIN owner \subseteq Quote \ quotes,
           \A q \in DOMAIN owner : owner[q] \in new,
           NEW state1 \in [Quote -> JobState],
           \A q \in quotes : state1[q] = "UNAPPROVED" <=> ~approved[q],
           NEW ref1, NEW R, Replace(gone, new, owner, state1, ref1, R)
    PROVE  WorkInv' /\ Kept(gone, state1)
<1> DEFINE lost == {q \in quotes : report[q] \in gone}
           born == DOMAIN owner
<1>1. /\ reports' = (reports \ gone) \cup new
      /\ quotes' = (quotes \ lost) \cup born
      /\ report' = [q \in Quote |-> IF q \in born THEN owner[q]
                                    ELSE IF q \in lost THEN NoReport ELSE report[q]]
      /\ approved' = [q \in Quote |-> q \in born \/ (q \notin lost /\ approved[q])]
      /\ state' = [q \in Quote |-> IF q \in born THEN "TODO"
                                   ELSE IF q \in lost THEN "UNAPPROVED" ELSE state1[q]]
      /\ done' = [q \in Quote |-> IF q \in born \cup lost THEN 0 ELSE done[q]]
      /\ premade' = premade \ lost
  BY DEF Replace
<1>2. /\ premade \subseteq quotes
      /\ reports \subseteq Report /\ quotes \subseteq Quote
      /\ report \in [Quote -> Report \cup {NoReport}] /\ approved \in [Quote -> BOOLEAN]
      /\ state \in [Quote -> JobState] /\ done \in [Quote -> Day]
      /\ \A q \in Quote : report[q] \in (IF q \in quotes THEN reports ELSE {}) \cup {NoReport}
      /\ 0 \in Day
  BY MaintenanceAssumption DEF WorkInv, RowsOK, Day
<1>3. born \cap quotes = {} /\ born \subseteq Quote /\ lost \subseteq quotes
  OBVIOUS
<1> HIDE DEF born
<1>4. reports' \subseteq Report /\ quotes' \subseteq Quote /\ premade' \subseteq quotes'
  BY <1>1, <1>2, <1>3
<1>5. report' \in [Quote -> Report \cup {NoReport}]
  BY <1>1, <1>2 DEF born
<1>6. approved' \in [Quote -> BOOLEAN]
  BY <1>1, <1>2
<1>7. state' \in [Quote -> JobState]
  BY <1>1, <1>2 DEF JobState
<1>8. done' \in [Quote -> Day]
  BY <1>1, <1>2
<1>9. ASSUME NEW q \in Quote
      PROVE  report'[q] \in (IF q \in quotes' THEN reports' ELSE {}) \cup {NoReport}
  <2>1. CASE q \in born
    BY <1>1, <2>1 DEF born
  <2>2. CASE q \notin born
    BY <1>1, <1>2, <2>2
  <2> QED BY <2>1, <2>2
<1>10. ASSUME NEW q \in quotes'
       PROVE  state'[q] = "UNAPPROVED" <=> ~approved'[q]
  BY <1>1, <1>2, <1>3
<1>11. Kept(gone, state1)
  BY <1>1, <1>2, <1>3 DEF Kept
<1> QED BY <1>4, <1>5, <1>6, <1>7, <1>8, <1>9, <1>10, <1>11
        DEF WorkInv, RowsOK, StateFollowsApproval

(* The two uses of Replace that several actions share.                     *)
LEMMA RewriteKeeps ==
    ASSUME WorkInv, today' \in Day \ {0},
           NEW state1 \in [Quote -> JobState],
           \A q \in quotes : state1[q] = "UNAPPROVED" <=> ~approved[q],
           NEW ref1, NEW R, Rewrite(state1, ref1, R)
    PROVE  WorkInv' /\ Kept({}, state1)
<1>1. DOMAIN NoQuotes = {}
  BY DEF NoQuotes
<1>2. Replace({}, {}, NoQuotes, state1, ref1, R)
  BY DEF Rewrite
<1> HIDE DEF NoQuotes
<1> QED BY <1>1, <1>2, ReplaceKeeps

LEMMA RenewKeeps ==
    ASSUME WorkInv, today' \in Day \ {0},
           NEW state1 \in [Quote -> JobState],
           \A q \in quotes : state1[q] = "UNAPPROVED" <=> ~approved[q],
           NEW ref1, NEW R, Renew(state1, ref1, R)
    PROVE  WorkInv' /\ Kept(Unfinished, state1)
<1>1. PICK r \in Report \ reports : \E owner \in JobQuotes(r) :
            Replace(Unfinished, {r}, owner, state1, ref1, R)
  BY DEF Renew
<1>3. PICK owner \in JobQuotes(r) : Replace(Unfinished, {r}, owner, state1, ref1, R)
  BY <1>1
<1>2. Unfinished \in SUBSET Report
  BY DEF WorkInv, RowsOK, Unfinished
<1> QED BY <1>2, <1>3, JobQuotesFacts, ReplaceKeeps

LEMMA FinishKeeps ==
    ASSUME WorkInv, today' \in Day \ {0},
           NEW state1 \in [Quote -> JobState],
           \A q \in quotes : state1[q] = "UNAPPROVED" <=> ~approved[q],
           NEW ref1, NEW R, NEW day, Finish(day, state1, ref1, R)
    PROVE  WorkInv' /\ \E gone \in SUBSET Report : Kept(gone, state1)
<1>1. CASE Renew(state1, ref1, R)
  BY <1>1, RenewKeeps DEF WorkInv, RowsOK, Unfinished
<1>2. CASE Rewrite(state1, ref1, R)
  BY <1>2, RewriteKeeps
<1> QED BY <1>1, <1>2 DEF Finish

(* Confirming rewrites the job states of approved quotes of one report.    *)
LEMMA ConfirmFacts ==
    ASSUME WorkInv, NEW r \in reports \cup {NoReport}, NEW C \in Confirmable(r)
    PROVE  LET state1 == [q \in Quote |-> IF q \in C THEN "CONFIRMED" ELSE state[q]]
           IN  /\ state1 \in [Quote -> JobState]
               /\ \A q \in quotes : state1[q] = "UNAPPROVED" <=> ~approved[q]
               /\ \A q \in C : q \in quotes /\ report[q] = r /\ state[q] = "COMPLETED"
<1>1. \A q \in C : q \in quotes /\ report[q] = r /\ state[q] = "COMPLETED" /\ approved[q]
  BY DEF Confirmable, QuotesOf
<1> QED BY <1>1 DEF WorkInv, RowsOK, StateFollowsApproval, JobState

(* Quotes of reports that a docking step leaves alone.                     *)
Frozen ==
    docking /\ docking' => \A q \in quotes : report[q] \in reports =>
        /\ q \in quotes' /\ approved'[q] = approved[q]
        /\ state'[q] = state[q] /\ done'[q] = done[q]

(* What every step does.                                                   *)
StepOK ==
    /\ WorkInv'
    /\ Frozen
    /\ FinishedWorkIsDated => FinishedWorkIsDated'

(* A step that keeps the job states, but for those of quotes it confirms,  *)
(* keeps finished work dated.                                              *)
LEMMA KeptIsDated ==
    ASSUME NEW gone, NEW state1, Kept(gone, state1), FinishedWorkIsDated,
           \A q \in quotes : state1[q] \in Finished => state[q] \in Finished
    PROVE  FinishedWorkIsDated'
BY DEF Kept, FinishedWorkIsDated, Finished

(* What Replace, Rewrite, Renew and Finish are given by all but Confirm.   *)
LEMMA StateFacts ==
    ASSUME WorkInv
    PROVE  /\ state \in [Quote -> JobState] /\ today \in Day \ {0}
           /\ \A q \in quotes : state[q] = "UNAPPROVED" <=> ~approved[q]
BY DEF WorkInv, RowsOK, StateFollowsApproval

LEMMA ReportSteps ==
    ASSUME WorkInv, ReportStep
    PROVE  StepOK
<1>1. CASE ReadForCreation
  <2>1. UNCHANGED <<today, rows, docking>>
    BY <1>1 DEF ReadForCreation, scope
  <2> QED BY <2>1 DEF StepOK, WorkInv, RowsOK, StateFollowsApproval, Frozen,
                      FinishedWorkIsDated, rows
<1>2. CASE AutoCreate
  <2>1. today' = today /\ ~docking /\ Renew(state, ref, {})
    BY <1>2 DEF AutoCreate
  <2>2. WorkInv' /\ Kept(Unfinished, state)
    BY <2>1, StateFacts, RenewKeeps
  <2> QED BY <2>1, <2>2, KeptIsDated DEF StepOK, Frozen
<1>3. ASSUME NEW r \in Report, CommitCreation(r)
      PROVE  StepOK
  <2>1. PICK owner \in JobQuotes(r) : Replace({}, {r}, owner, state, ref, {})
    BY <1>3 DEF CommitCreation
  <2>2. today' = today
    BY <1>3 DEF CommitCreation
  <2>3. WorkInv' /\ Kept({}, state)
    BY <2>1, <2>2, StateFacts, JobQuotesFacts, ReplaceKeeps
  <2> QED BY <2>3, KeptIsDated DEF StepOK, Frozen, Kept
<1>4. ASSUME NEW r \in Report, DeleteReport(r)
      PROVE  StepOK
  <2>1. /\ Replace({r}, {}, NoQuotes, state, ref, {}) /\ today' = today
        /\ docking => QuotesOf(r) = {}
    BY <1>4 DEF DeleteReport
  <2>2. DOMAIN NoQuotes = {}
    BY DEF NoQuotes
  <2>3. WorkInv' /\ Kept({r}, state)
    <3> HIDE DEF NoQuotes
    <3> QED BY <2>1, <2>2, StateFacts, ReplaceKeeps
  <2>4. Frozen
    BY <2>1, <2>3 DEF Frozen, Kept, QuotesOf
  <2> QED BY <2>3, <2>4, KeptIsDated DEF StepOK
<1>5. ASSUME NEW r \in Report, RecreateQuotes(r)
      PROVE  StepOK
  <2>1. PICK owner \in JobQuotes(r) : Replace({r}, {r}, owner, state, ref, {})
    BY <1>5 DEF RecreateQuotes
  <2>2. today' = today /\ ~docking
    BY <1>5 DEF RecreateQuotes
  <2>3. WorkInv' /\ Kept({r}, state)
    BY <2>1, <2>2, StateFacts, JobQuotesFacts, ReplaceKeeps
  <2> QED BY <2>2, <2>3, KeptIsDated DEF StepOK, Frozen
<1> QED BY <1>1, <1>2, <1>3, <1>4, <1>5 DEF ReportStep

(* The new approval and job state of a quote agree.                        *)
LEMMA SetApprovalKeeps ==
    ASSUME WorkInv, NEW q \in quotes, NEW a \in BOOLEAN, NEW s \in JobState,
           SetApproval(q, a, s), s = "UNAPPROVED" <=> ~a, a # approved[q],
           s \in Finished => state[q] = s
    PROVE  StepOK
<1>1. /\ approved' = [approved EXCEPT ![q] = a] /\ state' = [state EXCEPT ![q] = s]
      /\ s # state[q] => ~Blocked(report[q])
      /\ UNCHANGED <<today, docking, reports, quotes, report, done, premade>>
  BY DEF SetApproval, scope
<1>2. WorkInv'
  BY <1>1 DEF WorkInv, RowsOK, StateFollowsApproval
<1>3. s # state[q]
  <2>1. approved[q] \in BOOLEAN /\ (state[q] = "UNAPPROVED" <=> ~approved[q])
    BY DEF WorkInv, RowsOK, StateFollowsApproval
  <2>2. CASE a = TRUE
    BY <2>1, <2>2
  <2>3. CASE a = FALSE
    BY <2>1, <2>3
  <2> QED BY <2>2, <2>3
<1>4. Frozen
  BY <1>1, <1>3 DEF Frozen, Blocked, WorkInv, RowsOK
<1>5. FinishedWorkIsDated => FinishedWorkIsDated'
  BY <1>1 DEF FinishedWorkIsDated, WorkInv, RowsOK
<1> QED BY <1>2, <1>4, <1>5 DEF StepOK

LEMMA QuoteSteps ==
    ASSUME WorkInv, QuoteStep
    PROVE  StepOK
<1>0. RowsOK /\ StateFollowsApproval /\ 0 \in Day /\ HandState \subseteq JobState
  BY MaintenanceAssumption DEF WorkInv, Day
<1>1. ASSUME NEW q \in Quote, NEW r \in reports \cup {NoReport}, MoveQuote(q, r)
      PROVE  StepOK
  <2>1. /\ q \in quotes /\ report' = [report EXCEPT ![q] = r]
        /\ UNCHANGED <<today, reports, quotes, approved, state, done, premade>>
    BY <1>1 DEF MoveQuote
  <2>2. RowsOK'
    BY <1>0, <2>1 DEF RowsOK
  <2> QED BY <1>0, <2>1, <2>2 DEF StepOK, WorkInv, StateFollowsApproval, Frozen,
                                  FinishedWorkIsDated
<1>2. ASSUME NEW q \in Quote, NEW r \in reports \cup {NoReport},
             NEW crew \in BOOLEAN, NEW s \in HandState, AddQuote(q, r, crew, s)
      PROVE  StepOK
  <2> DEFINE s1 == IF ~crew THEN "UNAPPROVED" ELSE IF s = "UNAPPROVED" THEN "TODO" ELSE s
  <2>1. /\ q \notin quotes /\ quotes' = quotes \cup {q}
        /\ report' = [report EXCEPT ![q] = r]
        /\ approved' = [approved EXCEPT ![q] = crew]
        /\ state' = [state EXCEPT ![q] = s1]
        /\ premade' = IF crew /\ s \in Finished THEN premade \cup {q} ELSE premade
        /\ UNCHANGED <<today, docking, reports, done>>
    BY <1>2 DEF AddQuote, scope
  <2>2. s1 \in JobState /\ (s1 = "UNAPPROVED" <=> ~crew)
    BY <1>0 DEF JobState
  <2>3. s1 \in Finished => premade' = premade \cup {q}
    BY <2>1 DEF Finished
  <2> HIDE DEF s1
  <2>4. WorkInv'
    BY <1>0, <2>1, <2>2 DEF WorkInv, RowsOK, StateFollowsApproval
  <2>5. Frozen
    BY <1>0, <2>1 DEF Frozen, RowsOK
  <2>6. FinishedWorkIsDated => FinishedWorkIsDated'
    BY <1>0, <2>1, <2>3 DEF FinishedWorkIsDated, RowsOK
  <2> QED BY <2>4, <2>5, <2>6 DEF StepOK
<1>3. ASSUME NEW q \in Quote, DeleteQuote(q)
      PROVE  StepOK
  <2>1. /\ q \in quotes /\ ~Blocked(report[q]) /\ quotes' = quotes \ {q}
        /\ report' = [report EXCEPT ![q] = NoReport]
        /\ approved' = [approved EXCEPT ![q] = FALSE]
        /\ state' = [state EXCEPT ![q] = "UNAPPROVED"]
        /\ done' = [done EXCEPT ![q] = 0]
        /\ premade' = premade \ {q}
        /\ UNCHANGED <<today, docking, reports>>
    BY <1>3 DEF DeleteQuote, scope
  <2>2. WorkInv'
    BY <1>0, <2>1 DEF WorkInv, RowsOK, StateFollowsApproval, JobState
  <2>3. Frozen
    BY <1>0, <2>1 DEF Frozen, Blocked, RowsOK
  <2>4. FinishedWorkIsDated => FinishedWorkIsDated'
    BY <1>0, <2>1 DEF FinishedWorkIsDated, RowsOK
  <2> QED BY <2>2, <2>3, <2>4 DEF StepOK
<1>4. ASSUME NEW q \in Quote, Approve(q)
      PROVE  StepOK
  <2>1. q \in quotes /\ ~approved[q] /\ state[q] = "UNAPPROVED"
    BY <1>0, <1>4 DEF Approve, StateFollowsApproval
  <2>2. SetApproval(q, TRUE, "TODO")
    BY <1>4, <2>1 DEF Approve
  <2>3. approved[q] = FALSE /\ "TODO" \in JobState
    BY <1>0, <2>1 DEF RowsOK, JobState
  <2> QED BY <2>1, <2>2, <2>3, SetApprovalKeeps DEF Finished
<1>5. ASSUME NEW q \in Quote, Unapprove(q)
      PROVE  StepOK
  <2>1. q \in quotes /\ approved[q] /\ SetApproval(q, FALSE, "UNAPPROVED")
    BY <1>5 DEF Unapprove
  <2>2. approved[q] = TRUE /\ "UNAPPROVED" \in JobState
    BY <1>0, <2>1 DEF RowsOK, JobState
  <2> QED BY <2>1, <2>2, SetApprovalKeeps DEF Finished
<1>6. ASSUME NEW q \in Quote, NEW s \in JobState \ {"CONFIRMED"}, SetState(q, s)
      PROVE  StepOK
  <2>1. /\ q \in quotes /\ ~Blocked(report[q])
        /\ approved[q] <=> s # "UNAPPROVED"
        /\ state' = [state EXCEPT ![q] = s]
        /\ done' = [done EXCEPT ![q] = IF s = "COMPLETED" THEN today ELSE @]
        /\ premade' = premade \ {q}
        /\ UNCHANGED <<today, docking, reports, quotes, report, approved>>
    BY <1>6 DEF SetState, scope
  <2>2. WorkInv'
    BY <1>0, <2>1 DEF WorkInv, RowsOK, StateFollowsApproval
  <2>3. Frozen
    BY <1>0, <2>1 DEF Frozen, Blocked, RowsOK
  <2>5. s \in Finished => s = "COMPLETED" /\ today # 0
    BY <1>0 DEF Finished, RowsOK
  <2>4. FinishedWorkIsDated => FinishedWorkIsDated'
    BY <1>0, <2>1, <2>5 DEF FinishedWorkIsDated, RowsOK
  <2> QED BY <2>2, <2>3, <2>4 DEF StepOK
<1>7. ASSUME NEW r \in reports \cup {NoReport}, NEW C \in Confirmable(r), Confirm(r, C)
      PROVE  StepOK
  <2> DEFINE state1 == [q \in Quote |-> IF q \in C THEN "CONFIRMED" ELSE state[q]]
  <2>1. /\ state1 \in [Quote -> JobState]
        /\ \A q \in quotes : state1[q] = "UNAPPROVED" <=> ~approved[q]
        /\ \A q \in C : q \in quotes /\ report[q] = r /\ state[q] = "COMPLETED"
    BY ConfirmFacts
  <2>2. \A q \in quotes : q \notin C => state1[q] = state[q]
    BY <1>0 DEF RowsOK
  <2>3. /\ ~Blocked(r) /\ UNCHANGED <<today, docking>>
        /\ \E day, ref1, R : Finish(day, state1, ref1, R) \/ Rewrite(state1, ref1, R)
        /\ r \notin reports => \E ref1, R : Rewrite(state1, ref1, R)
    BY <1>7 DEF Confirm
  <2>4. today' \in Day \ {0}
    BY <1>0, <2>3 DEF RowsOK
  <2> HIDE DEF state1
  <2>5. WorkInv' /\ \E gone : Kept(gone, state1)
    BY <2>1, <2>3, <2>4, FinishKeeps, RewriteKeeps
  <2>6. r \notin reports => Kept({}, state1)
    BY <2>1, <2>3, <2>4, RewriteKeeps
  <2>7. Frozen
    BY <2>1, <2>2, <2>3, <2>6 DEF Frozen, Blocked, Kept
  <2>8. FinishedWorkIsDated => FinishedWorkIsDated'
    BY <2>1, <2>2, <2>5, KeptIsDated DEF Finished
  <2> QED BY <2>5, <2>7, <2>8 DEF StepOK
<1> QED BY <1>1, <1>2, <1>3, <1>4, <1>5, <1>6, <1>7 DEF QuoteStep

LEMMA ScopeSteps ==
    ASSUME WorkInv, ScopeStep
    PROVE  StepOK
<1>1. CASE SetAuto
  BY <1>1 DEF SetAuto, rows, StepOK, WorkInv, RowsOK, StateFollowsApproval, Frozen,
              FinishedWorkIsDated
<1>2. CASE NextDay
  <2>1. today' \in Day \ {0} /\ UNCHANGED <<docking, rows>>
    BY <1>2, MaintenanceAssumption DEF NextDay, scope, WorkInv, RowsOK, Day
  <2> QED BY <2>1 DEF rows, StepOK, WorkInv, RowsOK, StateFollowsApproval, Frozen,
                      FinishedWorkIsDated
<1>3. CASE Dock
  <2>1. today' = today /\ \E ref1, R : Rewrite(state, ref1, R)
    BY <1>3 DEF Dock
  <2>2. WorkInv' /\ Kept({}, state)
    BY <2>1, StateFacts, RewriteKeeps
  <2> QED BY <2>2, KeptIsDated DEF StepOK, Frozen, Kept
<1>4. CASE Undock
  <2>1. today' = today /\ docking' = FALSE /\ \E ref1, R : Rewrite(state, ref1, R)
    BY <1>4 DEF Undock
  <2>2. WorkInv' /\ Kept({}, state)
    BY <2>1, StateFacts, RewriteKeeps
  <2> QED BY <2>1, <2>2, KeptIsDated DEF StepOK, Frozen
<1>5. ASSUME NEW day, FinishDocking(day)
      PROVE  StepOK
  <2>1. today' = today /\ docking' = FALSE /\ \E ref1, R : Finish(day, state, ref1, R)
    BY <1>5 DEF FinishDocking
  <2>2. WorkInv' /\ \E gone : Kept(gone, state)
    BY <2>1, StateFacts, FinishKeeps
  <2> QED BY <2>1, <2>2, KeptIsDated DEF StepOK, Frozen
<1> QED BY <1>1, <1>2, <1>3, <1>4, <1>5 DEF ScopeStep

LEMMA Step ==
    ASSUME WorkInv, [Next]_vars
    PROVE  StepOK
<1>1. CASE UNCHANGED vars
  BY <1>1 DEF vars, scope, rows, StepOK, WorkInv, RowsOK, StateFollowsApproval, Frozen,
              FinishedWorkIsDated
<1> QED BY <1>1, ReportSteps, QuoteSteps, ScopeSteps DEF Next

LEMMA Start == Init => WorkInv /\ FinishedWorkIsDated
<1> SUFFICES ASSUME Init PROVE WorkInv /\ FinishedWorkIsDated
  OBVIOUS
<1>1. today = 1 /\ 1 \in Day \ {0} /\ 0 \in Day
  BY MaintenanceAssumption DEF Init, Day
<1> QED BY <1>1 DEF Init, WorkInv, RowsOK, StateFollowsApproval, FinishedWorkIsDated, JobState

(* Every quote that exists is of a report that exists or of none, and rows *)
(* are well typed: no deletion leaves a quote behind.                      *)
THEOREM RowsTheorem == Spec => []RowsOK
<1>1. Init => WorkInv
  BY Start
<1>2. WorkInv /\ [Next]_vars => WorkInv'
  BY Step DEF StepOK
<1>3. WorkInv => RowsOK
  BY DEF WorkInv
<1> QED BY <1>1, <1>2, <1>3, PTL DEF Spec

(* The job state of a quote is UNAPPROVED exactly while it is not approved. *)
THEOREM ApprovalTheorem == Spec => []StateFollowsApproval
<1>1. Init => WorkInv
  BY Start
<1>2. WorkInv /\ [Next]_vars => WorkInv'
  BY Step DEF StepOK
<1>3. WorkInv => StateFollowsApproval
  BY DEF WorkInv
<1> QED BY <1>1, <1>2, <1>3, PTL DEF Spec

(* Finished work is dated, but for quotes created by hand as finished.     *)
THEOREM DatedTheorem == Spec => []FinishedWorkIsDated
<1>1. Init => WorkInv /\ FinishedWorkIsDated
  BY Start
<1>2. WorkInv /\ FinishedWorkIsDated /\ [Next]_vars => (WorkInv /\ FinishedWorkIsDated)'
  BY Step DEF StepOK
<1> QED BY <1>1, <1>2, PTL DEF Spec

(* Docking freezes the quotes of the scope's reports.                      *)
THEOREM DockingTheorem == Spec => DockingFreezes
<1>1. Init => WorkInv
  BY Start
<1>2. WorkInv /\ [Next]_vars => WorkInv'
  BY Step DEF StepOK
<1>3. WorkInv /\ [Next]_vars =>
        [docking /\ docking' => \A q \in quotes : report[q] \in reports =>
            /\ q \in quotes' /\ approved'[q] = approved[q]
            /\ state'[q] = state[q] /\ done'[q] = done[q]]_vars
  BY Step DEF StepOK, Frozen
<1> QED BY <1>1, <1>2, <1>3, PTL DEF Spec, DockingFreezes
-----------------------------------------------------------------------------
(* What a report makes of its quotes.                                      *)

(* The ref_job_state and the day that fit a set of job states and of days. *)
RefFits(v, S) ==
    /\ v = "UNAPPROVED" <=> "UNAPPROVED" \in S
    /\ v = "CONFIRMED" <=> S = {"CONFIRMED"}
    /\ v = "TODO" <=> S \subseteq {"TODO"}
    /\ v = "COMPLETED" <=> S \subseteq {"COMPLETED", "CONFIRMED"} /\ "COMPLETED" \in S

DayFits(v, D) ==
    /\ v = 0 <=> D = {} \/ 0 \in D
    /\ \A d \in D : v # 0 => d <= v
    /\ v \in D \cup {0}

LEMMA RefStateFits ==
    ASSUME NEW S \in SUBSET JobState
    PROVE  RefState(S) \in JobState /\ RefFits(RefState(S), S)
<1>1. CASE S \subseteq {"TODO"}
  BY <1>1 DEF RefState, RefFits, JobState
<1>2. CASE S = {"COMPLETED"}
  BY <1>2 DEF RefState, RefFits, JobState
<1>3. CASE S = {"CONFIRMED"}
  BY <1>3 DEF RefState, RefFits, JobState
<1>4. CASE ~ S \subseteq {"TODO"} /\ "UNAPPROVED" \in S
  <2>1. S # {"COMPLETED"} /\ S # {"CONFIRMED"}
    BY <1>4
  <2>2. RefState(S) = "UNAPPROVED"
    BY <1>4, <2>1 DEF RefState
  <2> QED BY <1>4, <2>1, <2>2 DEF RefFits, JobState
<1>5. CASE S = {"COMPLETED", "CONFIRMED"}
  <2>1. ~ S \subseteq {"TODO"} /\ S # {"COMPLETED"} /\ S # {"CONFIRMED"} /\ "UNAPPROVED" \notin S
    BY <1>5
  <2>2. RefState(S) = "COMPLETED"
    BY <1>5, <2>1 DEF RefState
  <2> QED BY <1>5, <2>1, <2>2 DEF RefFits, JobState
<1>6. CASE /\ ~ S \subseteq {"TODO"} /\ S # {"COMPLETED"} /\ S # {"CONFIRMED"}
           /\ "UNAPPROVED" \notin S /\ S # {"COMPLETED", "CONFIRMED"}
  <2>1. RefState(S) = "WORKING"
    BY <1>6 DEF RefState
  <2>2. ~ (S \subseteq {"COMPLETED", "CONFIRMED"} /\ "COMPLETED" \in S)
    BY <1>6
  <2> QED BY <1>6, <2>1, <2>2 DEF RefFits, JobState
<1> QED BY <1>1, <1>2, <1>3, <1>4, <1>5, <1>6

LEMMA FinishDayFits ==
    ASSUME NEW D \in SUBSET Day
    PROVE  FinishDay(D) \in Day /\ DayFits(FinishDay(D), D)
<1>1. 0 \in Day /\ D \subseteq 0..MaxDay /\ MaxDay \in Nat
  BY MaintenanceAssumption DEF Day
<1>2. CASE D = {} \/ 0 \in D
  BY <1>1, <1>2 DEF FinishDay, DayFits
<1>3. CASE D # {} /\ 0 \notin D
  <2>1. \E d \in D : \A e \in D : e <= d
    BY <1>1, <1>3, GreatestExists
  <2>2. FinishDay(D) \in D /\ \A e \in D : e <= FinishDay(D)
    BY <1>3, <2>1 DEF FinishDay
  <2> QED BY <1>1, <1>3, <2>2 DEF DayFits
<1> QED BY <1>2, <1>3

(* Summaries are typed and current, and a report that waits for docking is *)
(* not finished.                                                           *)
SummaryTypes ==
    /\ ref \in [Report -> RefJobState] /\ finished \in [Report -> Day]
    /\ staleRef \subseteq reports /\ staleDay \subseteq reports

WaitingIsUnfinished ==
    \A r \in reports : ref[r] = "WAITING_FOR_DOCKING" => finished[r] = 0

Summaries == SummaryTypes /\ SummaryIsCurrent /\ WaitingIsUnfinished

(* How a request may rewrite report x before it replaces others.           *)
Rewritten(x, state1, ref1, R) ==
    \/ x \in R /\ ref1[x] = RefState({state1[q] : q \in QuotesOf(x)})
    \/ /\ x \notin R /\ \A q \in QuotesOf(x) : state1[q] = state[q]
       /\ \/ ref1[x] = ref[x]
          \/ ref1[x] = "WAITING_FOR_DOCKING" /\ finished[x] = 0

LEMMA ReplaceSummaries ==
    ASSUME WorkInv, Summaries,
           NEW gone \in SUBSET Report, NEW new \in SUBSET Report, new \cap reports \subseteq gone,
           NEW owner, DOMAIN owner \subseteq Quote \ quotes,
           \A q \in DOMAIN owner : owner[q] \in new,
           NEW state1 \in [Quote -> JobState], NEW ref1 \in [Report -> RefJobState],
           NEW R, \A x \in reports \ gone : Rewritten(x, state1, ref1, R),
           Replace(gone, new, owner, state1, ref1, R)
    PROVE  Summaries'
<1> DEFINE lost == {q \in quotes : report[q] \in gone}
           born == DOMAIN owner
<1>1. /\ reports' = (reports \ gone) \cup new
      /\ quotes' = (quotes \ lost) \cup born
      /\ report' = [q \in Quote |-> IF q \in born THEN owner[q]
                                    ELSE IF q \in lost THEN NoReport ELSE report[q]]
      /\ state' = [q \in Quote |-> IF q \in born THEN "TODO"
                                   ELSE IF q \in lost THEN "UNAPPROVED" ELSE state1[q]]
      /\ done' = [q \in Quote |-> IF q \in born \cup lost THEN 0 ELSE done[q]]
      /\ ref' = [r \in Report |-> IF r \in new THEN "TODO"
                                  ELSE IF r \in gone THEN "UNAPPROVED" ELSE ref1[r]]
      /\ finished' = [r \in Report |-> IF r \in gone \cup new THEN 0 ELSE finished[r]]
      /\ staleRef' = staleRef \ (gone \cup R)
      /\ staleDay' = staleDay \ gone
  BY DEF Replace
<1>2. /\ reports \subseteq Report /\ quotes \subseteq Quote
      /\ state \in [Quote -> JobState] /\ done \in [Quote -> Day]
      /\ \A q \in quotes : report[q] \in reports \cup {NoReport}
      /\ NoReport \notin Report
      /\ ref \in [Report -> RefJobState] /\ finished \in [Report -> Day]
      /\ staleRef \subseteq reports /\ staleDay \subseteq reports
      /\ 0 \in Day
  BY MaintenanceAssumption DEF WorkInv, RowsOK, Day, Summaries, SummaryTypes
<1>3. born \cap quotes = {} /\ born \subseteq Quote /\ lost \subseteq quotes
      /\ \A q \in born : owner[q] \in new
  OBVIOUS
<1> HIDE DEF born
<1>4. SummaryTypes'
  <2>1. ref' \in [Report -> RefJobState] /\ finished' \in [Report -> Day]
    BY <1>1, <1>2 DEF RefJobState, JobState
  <2> QED BY <1>1, <1>2, <2>1 DEF SummaryTypes
(* A report that is new has the quotes that were born for it, and no more. *)
<1>5. ASSUME NEW x \in new
      PROVE  RefIsCurrent(x)' /\ FinishIsCurrent(x)' /\ ref'[x] = "TODO"
  <2>1. \A q \in QuotesOf(x)' : state'[q] = "TODO" /\ done'[q] = 0
    <3> SUFFICES ASSUME NEW q \in quotes', report'[q] = x
                 PROVE  state'[q] = "TODO" /\ done'[q] = 0
      BY DEF QuotesOf
    <3>1. q \in Quote /\ (q \in born \/ (q \in quotes /\ q \notin lost))
      BY <1>1, <1>2, <1>3
    <3>2. q \in born
      BY <1>1, <1>2, <1>3, <3>1
    <3> QED BY <1>1, <3>1, <3>2
  <2>2. ref'[x] = "TODO" /\ finished'[x] = 0
    BY <1>1
  <2>3. StatesOf(x)' \subseteq {"TODO"}
    BY <2>1 DEF StatesOf
  <2>4. RefIsCurrent(x)'
    BY <2>2, <2>3 DEF RefIsCurrent
  <2>5. QuotesOf(x)' # {} => \E q \in QuotesOf(x)' : done'[q] = 0
    BY <2>1
  <2>6. FinishIsCurrent(x)'
    BY <2>2, <2>5 DEF FinishIsCurrent
  <2> QED BY <2>2, <2>4, <2>6
(* Another keeps its quotes as they were rewritten.                        *)
<1>6. ASSUME NEW x \in reports', x \notin new
      PROVE  /\ x \in reports \ gone
             /\ QuotesOf(x)' = QuotesOf(x)
             /\ \A q \in QuotesOf(x) : state'[q] = state1[q] /\ done'[q] = done[q]
             /\ ref'[x] = ref1[x] /\ finished'[x] = finished[x]
             /\ Rewritten(x, state1, ref1, R)
  <2>1. x \in reports \ gone /\ x \in Report
    BY <1>1, <1>2, <1>6
  <2>2. \A q \in Quote : q \in QuotesOf(x) => q \notin born \cup lost
    BY <1>2, <1>3, <2>1 DEF QuotesOf
  <2>3. QuotesOf(x)' = QuotesOf(x)
    BY <1>1, <1>2, <1>3, <1>6, <2>1 DEF QuotesOf
  <2>4. QuotesOf(x) \subseteq Quote
    BY <1>2 DEF QuotesOf
  <2>5. \A q \in QuotesOf(x) : state'[q] = state1[q] /\ done'[q] = done[q]
    BY <1>1, <2>2, <2>4
  <2> QED BY <1>1, <1>6, <2>1, <2>3, <2>5
<1>7. SummaryIsCurrent'
  <2>1. ASSUME NEW x \in reports', x \notin staleRef' PROVE RefIsCurrent(x)'
    <3>1. CASE x \in new
      BY <1>5, <3>1
    <3>2. CASE x \notin new
      <4>1. StatesOf(x)' = {state1[q] : q \in QuotesOf(x)} /\ ref'[x] = ref1[x]
        BY <1>6, <3>2 DEF StatesOf
      <4>2. CASE x \in R
        <5>1. StatesOf(x)' \in SUBSET JobState /\ ref'[x] = RefState(StatesOf(x)')
          BY <1>2, <1>6, <3>2, <4>1, <4>2 DEF Rewritten, QuotesOf
        <5>2. RefFits(ref'[x], StatesOf(x)')
          BY <5>1, RefStateFits
        <5> QED BY <5>2 DEF RefIsCurrent, RefFits
      <4>3. CASE x \notin R
        <5>1. x \in reports \ staleRef
          BY <1>1, <1>6, <2>1, <3>2, <4>3
        <5>2. RefIsCurrent(x)
          BY <5>1 DEF Summaries, SummaryIsCurrent
        <5>a. \A q \in QuotesOf(x) : state1[q] = state[q]
          BY <1>6, <3>2, <4>3 DEF Rewritten
        <5>b. {state1[q] : q \in QuotesOf(x)} = {state[q] : q \in QuotesOf(x)}
          BY <5>a
        <5>3. StatesOf(x)' = StatesOf(x)
          BY <4>1, <5>b DEF StatesOf
        <5>4. ref'[x] = ref[x] \/ ref'[x] = "WAITING_FOR_DOCKING"
          BY <1>6, <3>2, <4>3 DEF Rewritten
        <5> QED BY <5>2, <5>3, <5>4 DEF RefIsCurrent
      <4> QED BY <4>2, <4>3
    <3> QED BY <3>1, <3>2
  <2>2. ASSUME NEW x \in reports', x \notin staleDay' PROVE FinishIsCurrent(x)'
    <3>1. CASE x \in new
      BY <1>5, <3>1
    <3>2. CASE x \notin new
      <4>1. x \in reports \ staleDay
        BY <1>1, <1>6, <2>2, <3>2
      <4>2. FinishIsCurrent(x)
        BY <4>1 DEF Summaries, SummaryIsCurrent
      <4>3. QuotesOf(x)' = QuotesOf(x) /\ finished'[x] = finished[x]
            /\ \A q \in QuotesOf(x) : done'[q] = done[q]
        BY <1>6, <3>2
      <4>4. DaysOf(x)' = DaysOf(x)
        BY <4>3 DEF DaysOf
      <4> QED BY <4>2, <4>3, <4>4 DEF FinishIsCurrent
    <3> QED BY <3>1, <3>2
  <2> QED BY <2>1, <2>2 DEF SummaryIsCurrent
<1>8. WaitingIsUnfinished'
  <2> SUFFICES ASSUME NEW x \in reports', ref'[x] = "WAITING_FOR_DOCKING"
               PROVE  finished'[x] = 0
    BY DEF WaitingIsUnfinished
  <2>1. x \notin new
    BY <1>5
  <2>2. ref1[x] = "WAITING_FOR_DOCKING" /\ x \in reports /\ finished'[x] = finished[x]
        /\ Rewritten(x, state1, ref1, R)
    BY <1>6, <2>1
  <2>3. {state1[q] : q \in QuotesOf(x)} \in SUBSET JobState
    BY <1>2 DEF QuotesOf
  <2>4. RefState({state1[q] : q \in QuotesOf(x)}) # "WAITING_FOR_DOCKING"
    BY <2>3, RefStateFits DEF JobState
  <2>5. finished[x] = 0
    BY <2>2, <2>4 DEF Rewritten, Summaries, WaitingIsUnfinished
  <2> QED BY <2>2, <2>5
<1> QED BY <1>4, <1>7, <1>8 DEF Summaries
LEMMA RewriteSummaries ==
    ASSUME WorkInv, Summaries,
           NEW state1 \in [Quote -> JobState], NEW ref1 \in [Report -> RefJobState],
           NEW R, \A x \in reports : Rewritten(x, state1, ref1, R),
           Rewrite(state1, ref1, R)
    PROVE  Summaries'
<1>1. DOMAIN NoQuotes = {}
  BY DEF NoQuotes
<1>2. Replace({}, {}, NoQuotes, state1, ref1, R)
  BY DEF Rewrite
<1> HIDE DEF NoQuotes
<1> QED BY <1>1, <1>2, ReplaceSummaries

LEMMA RenewSummaries ==
    ASSUME WorkInv, Summaries,
           NEW state1 \in [Quote -> JobState], NEW ref1 \in [Report -> RefJobState],
           NEW R, \A x \in reports : Rewritten(x, state1, ref1, R),
           Renew(state1, ref1, R)
    PROVE  Summaries'
<1>1. PICK r \in Report \ reports : \E owner \in JobQuotes(r) :
            Replace(Unfinished, {r}, owner, state1, ref1, R)
  BY DEF Renew
<1>2. PICK owner \in JobQuotes(r) : Replace(Unfinished, {r}, owner, state1, ref1, R)
  BY <1>1
<1>3. Unfinished \in SUBSET Report
  BY DEF WorkInv, RowsOK, Unfinished
<1>4. DOMAIN owner \subseteq Quote \ quotes /\ \A q \in DOMAIN owner : owner[q] \in {r}
  BY JobQuotesFacts
<1> QED BY <1>2, <1>3, <1>4, ReplaceSummaries

LEMMA FinishSummaries ==
    ASSUME WorkInv, Summaries,
           NEW state1 \in [Quote -> JobState], NEW ref1 \in [Report -> RefJobState],
           NEW R, \A x \in reports : Rewritten(x, state1, ref1, R),
           NEW day, Finish(day, state1, ref1, R)
    PROVE  Summaries'
<1>1. Renew(state1, ref1, R) \/ Rewrite(state1, ref1, R)
  BY DEF Finish
<1> QED BY <1>1, RenewSummaries, RewriteSummaries

(* A request that rewrites no report before it replaces some.              *)
LEMMA NotRewritten ==
    ASSUME WorkInv, Summaries
    PROVE  /\ state \in [Quote -> JobState] /\ ref \in [Report -> RefJobState]
           /\ \A x \in reports : Rewritten(x, state, ref, {})
BY DEF WorkInv, RowsOK, Summaries, SummaryTypes, Rewritten

(* Reports that are told of a change recompute what they make of their     *)
(* quotes; nothing changed for the others.                                 *)
LEMMA RecomputeSummaries ==
    ASSUME WorkInv, WorkInv', Summaries, UNCHANGED reports,
           NEW R \in SUBSET reports, NEW F \in SUBSET R, Recompute(R, F),
           \A x \in reports \ R : /\ QuotesOf(x)' = QuotesOf(x)
                                  /\ \A q \in QuotesOf(x) : state'[q] = state[q],
           \A x \in reports \ F : /\ QuotesOf(x)' = QuotesOf(x)
                                  /\ \A q \in QuotesOf(x) : done'[q] = done[q]
    PROVE  Summaries'
<1>1. /\ ref' = [r \in Report |-> IF r \in R THEN RefState(StatesOf(r)') ELSE ref[r]]
      /\ finished' = [r \in Report |-> IF r \in F THEN FinishDay(DaysOf(r)') ELSE finished[r]]
      /\ staleRef' = staleRef \ R
      /\ staleDay' = staleDay \ F
  BY DEF Recompute
<1>2. /\ reports \subseteq Report
      /\ ref \in [Report -> RefJobState] /\ finished \in [Report -> Day]
      /\ staleRef \subseteq reports /\ staleDay \subseteq reports
  BY DEF WorkInv, RowsOK, Summaries, SummaryTypes
<1>3. \A r \in Report : StatesOf(r)' \in SUBSET JobState /\ DaysOf(r)' \in SUBSET Day
  BY DEF WorkInv, RowsOK, StatesOf, DaysOf, QuotesOf
<1>4. ASSUME NEW r \in R
      PROVE  ref'[r] = RefState(StatesOf(r)') /\ ref'[r] \in JobState
             /\ RefFits(ref'[r], StatesOf(r)')
  BY <1>1, <1>2, <1>3, RefStateFits
<1>5. ASSUME NEW r \in F
      PROVE  finished'[r] = FinishDay(DaysOf(r)') /\ finished'[r] \in Day
             /\ DayFits(finished'[r], DaysOf(r)')
  BY <1>1, <1>2, <1>3, FinishDayFits
<1>6. \A r \in Report : /\ r \notin R => ref'[r] = ref[r]
                        /\ r \notin F => finished'[r] = finished[r]
  BY <1>1
<1>7. SummaryTypes'
  <2>1. ref' \in [Report -> RefJobState]
    BY <1>1, <1>2, <1>4 DEF RefJobState
  <2>2. finished' \in [Report -> Day]
    BY <1>1, <1>2, <1>5
  <2> QED BY <1>1, <1>2, <2>1, <2>2 DEF SummaryTypes
<1>8. ASSUME NEW x \in reports', x \notin staleRef' PROVE RefIsCurrent(x)'
  <2>1. CASE x \in R
    BY <1>4, <2>1 DEF RefIsCurrent, RefFits
  <2>2. CASE x \notin R
    <3>1. RefIsCurrent(x) /\ ref'[x] = ref[x]
      BY <1>1, <1>2, <1>6, <1>8, <2>2 DEF Summaries, SummaryIsCurrent
    <3>2. QuotesOf(x)' = QuotesOf(x) /\ \A q \in QuotesOf(x) : state'[q] = state[q]
      BY <2>2
    <3>3. StatesOf(x)' = StatesOf(x)
      BY <3>2 DEF StatesOf
    <3> QED BY <3>1, <3>3 DEF RefIsCurrent
  <2> QED BY <2>1, <2>2
<1>9. ASSUME NEW x \in reports', x \notin staleDay' PROVE FinishIsCurrent(x)'
  <2>1. CASE x \in F
    <3>1. DayFits(finished'[x], DaysOf(x)')
      BY <1>5, <2>1
    <3>2. (QuotesOf(x)' = {} \/ \E q \in QuotesOf(x)' : done'[q] = 0)
            <=> (DaysOf(x)' = {} \/ 0 \in DaysOf(x)')
      BY DEF DaysOf
    <3>3. (\A q \in QuotesOf(x)' : finished'[x] # 0 => done'[q] <= finished'[x])
            <=> (\A d \in DaysOf(x)' : finished'[x] # 0 => d <= finished'[x])
      BY DEF DaysOf
    <3> QED BY <3>1, <3>2, <3>3 DEF FinishIsCurrent, DayFits
  <2>2. CASE x \notin F
    <3>1. FinishIsCurrent(x) /\ finished'[x] = finished[x]
      BY <1>1, <1>2, <1>6, <1>9, <2>2 DEF Summaries, SummaryIsCurrent
    <3>2. QuotesOf(x)' = QuotesOf(x) /\ \A q \in QuotesOf(x) : done'[q] = done[q]
      BY <2>2
    <3>3. DaysOf(x)' = DaysOf(x)
      BY <3>2 DEF DaysOf
    <3> QED BY <3>1, <3>2, <3>3 DEF FinishIsCurrent
  <2> QED BY <2>1, <2>2
<1>10. WaitingIsUnfinished'
  <2> SUFFICES ASSUME NEW x \in reports', ref'[x] = "WAITING_FOR_DOCKING"
               PROVE  finished'[x] = 0
    BY DEF WaitingIsUnfinished
  <2>1. x \notin R
    BY <1>4 DEF JobState
  <2>2. x \in reports /\ x \in Report /\ x \notin F
    BY <1>2, <2>1
  <2> QED BY <1>6, <2>1, <2>2 DEF Summaries, WaitingIsUnfinished
<1>11. SummaryIsCurrent'
  BY <1>8, <1>9 DEF SummaryIsCurrent
<1> QED BY <1>7, <1>10, <1>11 DEF Summaries
(* The rest of the state.                                                  *)
ScopeTypes ==
    /\ creating \in 0..MaxOverlap
    /\ docking \in BOOLEAN /\ auto \in BOOLEAN /\ lastDay \in Day

(* What the action properties ask of a step, but for confirming quotes.    *)
Chained(r) ==
    /\ r \in reports'
    /\ lastDay' \in DaysOf(r) /\ \A day \in DaysOf(r) : day <= lastDay'
    /\ Threshold /\ auto =>
        \E new \in reports' \ reports :
            /\ Unfinished' = {new}
            /\ Cardinality(QuotesOf(new)') = JobCount
            /\ \A q \in QuotesOf(new)' : approved'[q] /\ state'[q] = "TODO"

Released ==
    docking /\ ~docking' /\ Cardinality(Unfinished) = 1 =>
        \A r \in reports' : ref'[r] # "WAITING_FOR_DOCKING"

Liftable ==
    docking /\ docking' /\ Unfinished # {} =>
        \/ Unfinished' # {}
        \/ \E r \in Unfinished : QuotesOf(r) = {} /\ reports' = reports \ {r}

NoneConfirmed ==
    \A q \in quotes \cap quotes' : state'[q] = "CONFIRMED" => state[q] = "CONFIRMED"

SummaryOK == Summaries' /\ ScopeTypes' /\ Released /\ Liftable

(* Without a quote that becomes confirmed none is the last to be.          *)
LEMMA NoneIsLast ==
    ASSUME NoneConfirmed, NEW r
    PROVE  ~ ConfirmsLastQuote(r)
<1> SUFFICES ASSUME ConfirmsLastQuote(r) PROVE FALSE
  OBVIOUS
<1>1. /\ StatesOf(r) # {"CONFIRMED"} /\ QuotesOf(r)' = QuotesOf(r) /\ QuotesOf(r) # {}
      /\ \A q \in QuotesOf(r) : state'[q] = "CONFIRMED"
  BY DEF ConfirmsLastQuote
<1>2. QuotesOf(r) \subseteq quotes /\ QuotesOf(r)' \subseteq quotes'
  BY DEF QuotesOf
<1>3. \A q \in QuotesOf(r) : state[q] = "CONFIRMED"
  BY <1>1, <1>2 DEF NoneConfirmed
<1> QED BY <1>1, <1>3 DEF StatesOf

(* What Replace does to the reports it leaves and to those it creates.     *)
Left(gone, new, state1, ref1) ==
    /\ reports' = (reports \ gone) \cup new
    /\ \A x \in reports \ (gone \cup new) : finished'[x] = finished[x] /\ ref'[x] = ref1[x]
    /\ \A x \in new : finished'[x] = 0 /\ ref'[x] = "TODO"
    /\ \A q \in quotes : state'[q] = "CONFIRMED" => state1[q] = "CONFIRMED"

LEMMA ReplaceFacts ==
    ASSUME WorkInv, NEW gone, NEW new \in SUBSET Report, NEW owner, NEW state1, NEW ref1, NEW R,
           Replace(gone, new, owner, state1, ref1, R)
    PROVE  Left(gone, new, state1, ref1)
<1> DEFINE lost == {q \in quotes : report[q] \in gone}
           born == DOMAIN owner
<1>1. /\ reports' = (reports \ gone) \cup new
      /\ state' = [q \in Quote |-> IF q \in born THEN "TODO"
                                   ELSE IF q \in lost THEN "UNAPPROVED" ELSE state1[q]]
      /\ ref' = [r \in Report |-> IF r \in new THEN "TODO"
                                  ELSE IF r \in gone THEN "UNAPPROVED" ELSE ref1[r]]
      /\ finished' = [r \in Report |-> IF r \in gone \cup new THEN 0 ELSE finished[r]]
  BY DEF Replace
<1>2. reports \subseteq Report /\ quotes \subseteq Quote
  BY DEF WorkInv, RowsOK
<1> HIDE DEF born, lost
<1> QED BY <1>1, <1>2 DEF Left

LEMMA RewriteFacts ==
    ASSUME WorkInv, NEW state1, NEW ref1, NEW R, Rewrite(state1, ref1, R)
    PROVE  Left({}, {}, state1, ref1)
<1>1. Replace({}, {}, NoQuotes, state1, ref1, R)
  BY DEF Rewrite
<1> HIDE DEF NoQuotes
<1> QED BY <1>1, ReplaceFacts

LEMMA RenewFacts ==
    ASSUME WorkInv, NEW state1, NEW ref1, NEW R, Renew(state1, ref1, R)
    PROVE  \E r \in Report \ reports : Left(Unfinished, {r}, state1, ref1)
<1>1. PICK r \in Report \ reports : \E owner \in JobQuotes(r) :
            Replace(Unfinished, {r}, owner, state1, ref1, R)
  BY DEF Renew
<1> QED BY <1>1, ReplaceFacts

(* A step that changes no row.                                             *)
LEMMA SameRows ==
    ASSUME Summaries, UNCHANGED rows
    PROVE  Summaries' /\ Unfinished' = Unfinished /\ NoneConfirmed
<1>1. /\ UNCHANGED <<reports, quotes, report, state, done>>
      /\ UNCHANGED <<ref, finished, staleRef, staleDay>>
  BY DEF rows, summary
<1> QED BY <1>1 DEF Summaries, SummaryTypes, SummaryIsCurrent, WaitingIsUnfinished, RefIsCurrent,
                    FinishIsCurrent, StatesOf, DaysOf, QuotesOf, Unfinished, NoneConfirmed

(* A step that lets the unfinished reports be lets the docking end.        *)
LEMMA StaysLiftable ==
    ASSUME Unfinished \subseteq Unfinished' PROVE Liftable
BY DEF Liftable

LEMMA ReportSummaries ==
    ASSUME WorkInv, Summaries, ScopeTypes, ReportStep
    PROVE  SummaryOK /\ NoneConfirmed
<1>1. CASE ReadForCreation
  <2>1. UNCHANGED <<rows, docking, auto, lastDay>> /\ creating' = creating + 1
        /\ creating < MaxOverlap
    BY <1>1 DEF ReadForCreation, scope
  <2>2. ScopeTypes'
    BY <2>1, MaintenanceAssumption DEF ScopeTypes
  <2> QED BY <2>1, <2>2, SameRows, StaysLiftable DEF SummaryOK, Released
<1>2. CASE AutoCreate
  <2>1. UNCHANGED <<creating, docking, auto, lastDay>> /\ ~docking /\ Renew(state, ref, {})
    BY <1>2 DEF AutoCreate, scope
  <2>2. Summaries'
    BY <2>1, NotRewritten, RenewSummaries
  <2>3. NoneConfirmed
    BY <2>1, RenewFacts DEF NoneConfirmed, Left
  <2> QED BY <2>1, <2>2, <2>3 DEF SummaryOK, ScopeTypes, Released, Liftable
<1>3. ASSUME NEW r \in Report, CommitCreation(r)
      PROVE  SummaryOK /\ NoneConfirmed
  <2>1. UNCHANGED <<docking, auto, lastDay>> /\ creating' = creating - 1 /\ creating > 0
        /\ r \notin reports
    BY <1>3 DEF CommitCreation, scope
  <2>2. PICK owner \in JobQuotes(r) : Replace({}, {r}, owner, state, ref, {})
    BY <1>3 DEF CommitCreation
  <2>3. DOMAIN owner \subseteq Quote \ quotes /\ \A q \in DOMAIN owner : owner[q] \in {r}
    BY JobQuotesFacts
  <2>4. Summaries'
    BY <2>1, <2>2, <2>3, NotRewritten, ReplaceSummaries
  <2>5. Left({}, {r}, state, ref)
    BY <2>2, ReplaceFacts
  <2>6. ScopeTypes'
    BY <2>1, MaintenanceAssumption DEF ScopeTypes
  <2>7. Liftable
    BY <2>1, <2>5, StaysLiftable DEF Unfinished, Left
  <2> QED BY <2>1, <2>4, <2>5, <2>6, <2>7 DEF SummaryOK, Released, NoneConfirmed, Left
<1>4. ASSUME NEW r \in Report, DeleteReport(r)
      PROVE  SummaryOK /\ NoneConfirmed
  <2>1. /\ UNCHANGED <<creating, docking, auto, lastDay>> /\ r \in reports
        /\ docking => QuotesOf(r) = {}
        /\ Replace({r}, {}, NoQuotes, state, ref, {})
    BY <1>4 DEF DeleteReport, scope
  <2>2. DOMAIN NoQuotes = {}
    BY DEF NoQuotes
  <2> HIDE DEF NoQuotes
  <2>3. Summaries'
    BY <2>1, <2>2, NotRewritten, ReplaceSummaries
  <2>4. Left({r}, {}, state, ref)
    BY <2>1, ReplaceFacts
  <2>5. Liftable
    <3>1. CASE r \in Unfinished
      BY <2>1, <2>4, <3>1 DEF Liftable, Left
    <3>2. CASE r \notin Unfinished
      BY <2>4, <3>2, StaysLiftable DEF Unfinished, Left
    <3> QED BY <3>1, <3>2
  <2> QED BY <2>1, <2>3, <2>4, <2>5 DEF SummaryOK, ScopeTypes, Released, NoneConfirmed, Left
<1>5. ASSUME NEW r \in Report, RecreateQuotes(r)
      PROVE  SummaryOK /\ NoneConfirmed
  <2>1. UNCHANGED <<creating, docking, auto, lastDay>> /\ ~docking
    BY <1>5 DEF RecreateQuotes, scope
  <2>2. PICK owner \in JobQuotes(r) : Replace({r}, {r}, owner, state, ref, {})
    BY <1>5 DEF RecreateQuotes
  <2>3. DOMAIN owner \subseteq Quote \ quotes /\ \A q \in DOMAIN owner : owner[q] \in {r}
    BY JobQuotesFacts
  <2>4. Summaries'
    BY <2>2, <2>3, NotRewritten, ReplaceSummaries
  <2>5. Left({r}, {r}, state, ref)
    BY <2>2, ReplaceFacts
  <2> QED BY <2>1, <2>4, <2>5 DEF SummaryOK, ScopeTypes, Released, Liftable, NoneConfirmed, Left
<1> QED BY <1>1, <1>2, <1>3, <1>4, <1>5 DEF ReportStep
(* A docking scope's reports are told of no change that would date them.   *)
LEMMA RecomputeLiftable ==
    ASSUME WorkInv, NEW R, NEW F, Recompute(R, F), UNCHANGED reports, docking => F = {}
    PROVE  Liftable
<1>1. CASE ~ docking
  BY <1>1 DEF Liftable
<1>2. CASE F = {}
  <2>1. reports \subseteq Report /\ finished' = [r \in Report |-> finished[r]]
    BY <1>2 DEF WorkInv, RowsOK, Recompute
  <2> QED BY <2>1, StaysLiftable DEF Unfinished
<1> QED BY <1>1, <1>2

(* Confirming quotes of report r rewrites it, and no other.                *)
LEMMA ConfirmRewrites ==
    ASSUME WorkInv, Summaries, NEW r \in reports \cup {NoReport}, NEW C \in Confirmable(r)
    PROVE  LET state1 == [q \in Quote |-> IF q \in C THEN "CONFIRMED" ELSE state[q]]
               S == {state1[q] : q \in QuotesOf(r)}
               R == {r} \cap reports
               ref1 == [x \in Report |-> IF x \in R THEN RefState(S) ELSE ref[x]]
           IN  /\ ref1 \in [Report -> RefJobState]
               /\ \A x \in reports : Rewritten(x, state1, ref1, R)
<1> DEFINE state1 == [q \in Quote |-> IF q \in C THEN "CONFIRMED" ELSE state[q]]
           S == {state1[q] : q \in QuotesOf(r)}
           R == {r} \cap reports
           ref1 == [x \in Report |-> IF x \in R THEN RefState(S) ELSE ref[x]]
<1>1. /\ state1 \in [Quote -> JobState]
      /\ \A q \in C : q \in quotes /\ report[q] = r
  BY ConfirmFacts
<1>2. /\ reports \subseteq Report /\ quotes \subseteq Quote /\ state \in [Quote -> JobState]
      /\ ref \in [Report -> RefJobState]
  BY DEF WorkInv, RowsOK, Summaries, SummaryTypes
<1>3. QuotesOf(r) \subseteq Quote
  BY <1>2 DEF QuotesOf
<1>4. S \in SUBSET JobState
  BY <1>1, <1>3
<1>5. RefState(S) \in RefJobState
  BY <1>4, RefStateFits DEF RefJobState
<1>6. ref1 \in [Report -> RefJobState]
  BY <1>2, <1>5
<1>7. ASSUME NEW x \in reports PROVE Rewritten(x, state1, ref1, R)
  <2>1. CASE x = r
    BY <1>2, <2>1 DEF Rewritten
  <2>2. CASE x # r
    <3>1. \A q \in QuotesOf(x) : q \in Quote /\ q \notin C
      BY <1>1, <1>2, <2>2 DEF QuotesOf
    <3> QED BY <1>2, <2>2, <3>1 DEF Rewritten
  <2> QED BY <2>1, <2>2
<1> QED BY <1>6, <1>7

LEMMA QuoteSummaries ==
    ASSUME WorkInv, Summaries, ScopeTypes, QuoteStep
    PROVE  SummaryOK
<1>0. /\ WorkInv' /\ RowsOK /\ RowsOK' /\ SummaryTypes /\ 0 \in Day
      /\ reports \subseteq Report /\ quotes \subseteq Quote /\ NoReport \notin Report
  BY QuoteSteps, MaintenanceAssumption DEF StepOK, WorkInv, RowsOK, Summaries, Day
<1>1. ASSUME NEW q \in Quote, NEW r \in reports \cup {NoReport}, MoveQuote(q, r)
      PROVE  SummaryOK
  <2>1. /\ q \in quotes /\ report' = [report EXCEPT ![q] = r]
        /\ staleRef' = staleRef \cup ({report[q], r} \cap reports)
        /\ staleDay' = staleDay \cup ({report[q], r} \cap reports)
        /\ UNCHANGED <<creating, docking, auto, lastDay, reports, quotes, state, done,
                       ref, finished>>
    BY <1>1 DEF MoveQuote, scope
  <2>2. SummaryTypes'
    BY <1>0, <2>1 DEF SummaryTypes
  <2>3. ASSUME NEW x \in reports, x # report[q], x # r
        PROVE  QuotesOf(x)' = QuotesOf(x) /\ StatesOf(x)' = StatesOf(x) /\ DaysOf(x)' = DaysOf(x)
    <3>1. QuotesOf(x)' = QuotesOf(x)
      BY <1>0, <2>1, <2>3 DEF QuotesOf, RowsOK
    <3> QED BY <2>1, <3>1 DEF StatesOf, DaysOf
  <2>4. \A x \in reports' \ staleRef' : RefIsCurrent(x)'
    BY <2>1, <2>3 DEF Summaries, SummaryIsCurrent, RefIsCurrent
  <2>5. \A x \in reports' \ staleDay' : FinishIsCurrent(x)'
    BY <2>1, <2>3 DEF Summaries, SummaryIsCurrent, FinishIsCurrent
  <2>6. Summaries'
    BY <2>1, <2>2, <2>4, <2>5 DEF Summaries, SummaryIsCurrent, WaitingIsUnfinished
  <2> QED BY <2>1, <2>6, StaysLiftable DEF SummaryOK, ScopeTypes, Released, Unfinished
<1>2. ASSUME NEW q \in Quote, NEW r \in reports \cup {NoReport},
             NEW crew \in BOOLEAN, NEW s \in HandState, AddQuote(q, r, crew, s)
      PROVE  SummaryOK
  <2>1. /\ q \notin quotes /\ quotes' = quotes \cup {q} /\ ~ Blocked(r)
        /\ report' = [report EXCEPT ![q] = r]
        /\ \A p \in quotes : state'[p] = state[p]
        /\ UNCHANGED <<creating, docking, auto, lastDay, reports, done>>
        /\ Recompute({r} \cap reports, {r} \cap reports)
    BY <1>0, <1>2 DEF AddQuote, scope, RowsOK
  <2>2. \A x \in reports : x # r => QuotesOf(x)' = QuotesOf(x)
    BY <1>0, <2>1 DEF QuotesOf, RowsOK
  <2>3. \A x \in reports : QuotesOf(x) \subseteq quotes
    BY DEF QuotesOf
  <2>4. Summaries'
    BY <1>0, <2>1, <2>2, <2>3, RecomputeSummaries
  <2>5. docking => {r} \cap reports = {}
    BY <2>1 DEF Blocked
  <2> QED BY <2>1, <2>4, <2>5, RecomputeLiftable DEF SummaryOK, ScopeTypes, Released
<1>3. ASSUME NEW q \in Quote, DeleteQuote(q)
      PROVE  SummaryOK
  <2>1. /\ q \in quotes /\ ~ Blocked(report[q]) /\ quotes' = quotes \ {q}
        /\ report' = [report EXCEPT ![q] = NoReport]
        /\ \A p \in quotes : p # q => state'[p] = state[p] /\ done'[p] = done[p]
        /\ UNCHANGED <<creating, docking, auto, lastDay, reports>>
        /\ Recompute({report[q]} \cap reports, {report[q]} \cap reports)
    BY <1>0, <1>3 DEF DeleteQuote, scope, RowsOK
  <2>2. \A x \in reports : x # report[q] => QuotesOf(x)' = QuotesOf(x) /\ q \notin QuotesOf(x)
    BY <1>0, <2>1 DEF QuotesOf, RowsOK
  <2>3. \A x \in reports : QuotesOf(x) \subseteq quotes
    BY DEF QuotesOf
  <2>4. Summaries'
    BY <1>0, <2>1, <2>2, <2>3, RecomputeSummaries
  <2>5. docking => {report[q]} \cap reports = {}
    BY <2>1 DEF Blocked
  <2> QED BY <2>1, <2>4, <2>5, RecomputeLiftable DEF SummaryOK, ScopeTypes, Released
<1>4. ASSUME NEW q \in quotes, NEW a, NEW s, SetApproval(q, a, s)
      PROVE  SummaryOK
  <2> DEFINE R == {r \in reports : s # state[q] /\ r = report[q]}
  <2>1. /\ state' = [state EXCEPT ![q] = s]
        /\ UNCHANGED <<creating, docking, auto, lastDay, reports, quotes, report, done>>
        /\ Recompute(R, {})
    BY <1>4 DEF SetApproval, scope
  <2>2. \A x \in reports : QuotesOf(x)' = QuotesOf(x) /\ QuotesOf(x) \subseteq Quote
    BY <1>0, <2>1 DEF QuotesOf
  <2>3. ASSUME NEW x \in reports \ R, NEW p \in QuotesOf(x)
        PROVE  state'[p] = state[p]
    <3>1. s = state[q] \/ p # q
      BY <2>3 DEF QuotesOf
    <3>2. p \in Quote
      BY <2>2, <2>3
    <3> QED BY <1>0, <2>1, <3>1, <3>2 DEF RowsOK
  <2> HIDE DEF R
  <2>4. R \in SUBSET reports
    BY DEF R
  <2>5. Summaries'
    BY <1>0, <2>1, <2>2, <2>3, <2>4, RecomputeSummaries
  <2> QED BY <2>1, <2>5, RecomputeLiftable DEF SummaryOK, ScopeTypes, Released
<1>5. ASSUME NEW q \in Quote, NEW s \in JobState \ {"CONFIRMED"}, SetState(q, s)
      PROVE  SummaryOK
  <2> DEFINE R == {report[q]} \cap reports
             F == {r \in reports : s = "COMPLETED" /\ r = report[q]}
  <2>1. /\ q \in quotes /\ ~ Blocked(report[q])
        /\ state' = [state EXCEPT ![q] = s]
        /\ done' = [done EXCEPT ![q] = IF s = "COMPLETED" THEN today ELSE done[q]]
        /\ UNCHANGED <<creating, docking, auto, lastDay, reports, quotes, report>>
        /\ Recompute(R, F)
    BY <1>5 DEF SetState, scope
  <2>2. \A x \in reports : QuotesOf(x)' = QuotesOf(x) /\ QuotesOf(x) \subseteq Quote
    BY <1>0, <2>1 DEF QuotesOf
  <2>3. ASSUME NEW x \in reports \ R, NEW p \in QuotesOf(x)
        PROVE  state'[p] = state[p]
    <3>1. p # q /\ p \in Quote
      BY <2>2, <2>3 DEF QuotesOf
    <3> QED BY <1>0, <2>1, <3>1 DEF RowsOK
  <2>4. ASSUME NEW x \in reports \ F, NEW p \in QuotesOf(x)
        PROVE  done'[p] = done[p]
    <3>1. (s # "COMPLETED" \/ p # q) /\ p \in Quote
      BY <2>2, <2>4 DEF QuotesOf
    <3> QED BY <1>0, <2>1, <3>1 DEF RowsOK
  <2>5. R \in SUBSET reports /\ F \in SUBSET R /\ (docking => F = {})
    BY <2>1 DEF Blocked
  <2> HIDE DEF R, F
  <2>6. Summaries'
    BY <1>0, <2>1, <2>2, <2>3, <2>4, <2>5, RecomputeSummaries
  <2> QED BY <2>1, <2>5, <2>6, RecomputeLiftable DEF SummaryOK, ScopeTypes, Released
<1>6. ASSUME NEW r \in reports \cup {NoReport}, NEW C \in Confirmable(r), Confirm(r, C)
      PROVE  SummaryOK
  <2> DEFINE state1 == [q \in Quote |-> IF q \in C THEN "CONFIRMED" ELSE state[q]]
             S == {state1[q] : q \in QuotesOf(r)}
             R == {r} \cap reports
             ref1 == [x \in Report |-> IF x \in R THEN RefState(S) ELSE ref[x]]
  <2>1. state1 \in [Quote -> JobState]
    BY ConfirmFacts
  <2>2. ref1 \in [Report -> RefJobState] /\ \A x \in reports : Rewritten(x, state1, ref1, R)
    BY ConfirmRewrites
  <2>3. /\ ~ Blocked(r) /\ UNCHANGED <<creating, docking, auto>>
        /\ \/ R # {} /\ Finish(finished[r], state1, ref1, R)
           \/ Rewrite(state1, ref1, R) /\ UNCHANGED lastDay
    BY <1>6 DEF Confirm
  <2>4. docking => R = {}
    BY <2>3 DEF Blocked
  <2>5. R # {} => r \in Report
    BY <1>0
  <2> HIDE DEF state1, ref1, R
  <2>6. Summaries'
    BY <2>1, <2>2, <2>3, FinishSummaries, RewriteSummaries
  <2>7. lastDay' \in Day
    BY <1>0, <2>3, <2>5 DEF Finish, SummaryTypes, ScopeTypes
  <2>8. Liftable
    <3>1. CASE ~ docking
      BY <3>1 DEF Liftable
    <3>2. CASE docking
      <4>1. Left({}, {}, state1, ref1)
        BY <2>3, <2>4, <3>2, RewriteFacts
      <4> QED BY <4>1, StaysLiftable DEF Left, Unfinished
    <3> QED BY <3>1, <3>2
  <2> QED BY <2>3, <2>6, <2>7, <2>8 DEF SummaryOK, ScopeTypes, Released
<1>7. ASSUME NEW q \in Quote, Approve(q) \/ Unapprove(q)
      PROVE  SummaryOK
  BY <1>4, <1>7 DEF Approve, Unapprove
<1> QED BY <1>1, <1>2, <1>3, <1>5, <1>6, <1>7 DEF QuoteStep
(* Once the last quote of a report is confirmed its scope is dated with    *)
(* the day of the report, and goes on.                                     *)
LEMMA FinishChains ==
    ASSUME WorkInv, Summaries, NEW r \in reports, finished[r] # 0,
           finished[r] \in DaysOf(r), \A day \in DaysOf(r) : day <= finished[r],
           NEW state1, NEW ref1, NEW R, Finish(finished[r], state1, ref1, R)
    PROVE  Chained(r)
<1>1. lastDay' = finished[r]
  BY DEF Finish
<1>2. CASE Threshold /\ auto
  <2>1. Renew(state1, ref1, R)
    BY <1>2 DEF Finish
  <2>2. PICK new \in Report \ reports : \E owner \in JobQuotes(new) :
              Replace(Unfinished, {new}, owner, state1, ref1, R)
    BY <2>1 DEF Renew
  <2>3. PICK owner \in JobQuotes(new) : Replace(Unfinished, {new}, owner, state1, ref1, R)
    BY <2>2
  <2>4. Left(Unfinished, {new}, state1, ref1)
    BY <2>3, ReplaceFacts
  <2>5. r \in reports' /\ new \in reports' \ reports
    BY <2>4 DEF Left, Unfinished
  <2>6. Unfinished' = {new}
    BY <2>4 DEF Left, Unfinished
  <2> DEFINE born == DOMAIN owner
  <2>7. /\ born \subseteq Quote \ quotes /\ \A q \in born : owner[q] = new
        /\ Cardinality(born) = JobCount
    BY DEF JobQuotes
  <2>8. /\ quotes' = (quotes \ {q \in quotes : report[q] \in Unfinished}) \cup born
        /\ \A q \in Quote : q \notin born =>
              report'[q] = IF q \in quotes /\ report[q] \in Unfinished THEN NoReport ELSE report[q]
        /\ \A q \in born : report'[q] = owner[q] /\ approved'[q] /\ state'[q] = "TODO"
    BY <2>3, <2>7 DEF Replace
  <2>9. \A q \in quotes : q \in Quote /\ report[q] # new
    BY <2>2, MaintenanceAssumption DEF WorkInv, RowsOK
  <2> HIDE DEF born
  <2>10. QuotesOf(new)' = born
    <3>1. ASSUME NEW q \in quotes', report'[q] = new PROVE q \in born
      BY <2>8, <2>9, <3>1, MaintenanceAssumption
    <3>2. ASSUME NEW q \in born PROVE q \in quotes' /\ report'[q] = new
      BY <2>7, <2>8
    <3> QED BY <3>1, <3>2 DEF QuotesOf
  <2> QED BY <1>1, <2>5, <2>6, <2>7, <2>8, <2>10 DEF Chained
<1>3. CASE ~ (Threshold /\ auto)
  <2>1. Rewrite(state1, ref1, R)
    BY <1>3 DEF Finish
  <2>2. Left({}, {}, state1, ref1)
    BY <2>1, RewriteFacts
  <2> QED BY <1>1, <1>3, <2>2 DEF Left, Chained
<1> QED BY <1>2, <1>3

LEMMA ConfirmChains ==
    ASSUME WorkInv, Summaries, FinishedWorkIsDated,
           NEW r \in reports \cup {NoReport}, NEW C \in Confirmable(r), Confirm(r, C),
           NEW x, ConfirmsLastQuote(x)
    PROVE  Chained(x)
<1> DEFINE state1 == [q \in Quote |-> IF q \in C THEN "CONFIRMED" ELSE state[q]]
           S == {state1[q] : q \in QuotesOf(r)}
           R == {r} \cap reports
           ref1 == [y \in Report |-> IF y \in R THEN RefState(S) ELSE ref[y]]
<1>1. /\ x \in reports /\ x \notin staleDay /\ QuotesOf(x) # {}
      /\ StatesOf(x) # {"CONFIRMED"} /\ \A q \in QuotesOf(x) : state'[q] = "CONFIRMED"
      /\ HasInterval \/ QuotesOf(x) \cap premade = {}
  BY DEF ConfirmsLastQuote
<1>2. \A q \in C : q \in quotes /\ report[q] = r /\ state[q] = "COMPLETED"
  BY ConfirmFacts
<1>3. /\ R # {} /\ S = {"CONFIRMED"} => Finish(finished[r], state1, ref1, R)
      /\ (\E day : Finish(day, state1, ref1, R)) \/ Rewrite(state1, ref1, R)
  BY DEF Confirm
<1>4. QuotesOf(x) \subseteq quotes /\ quotes \subseteq Quote
  BY DEF QuotesOf, WorkInv, RowsOK
(* The step confirmed all quotes of x, which makes x the report it was for. *)
<1>5. \A q \in QuotesOf(x) : state1[q] = "CONFIRMED"
  <2> HIDE DEF state1, ref1, R
  <2>1. \E gone, new : Left(gone, new, state1, ref1)
    <3>1. CASE Rewrite(state1, ref1, R)
      BY <3>1, RewriteFacts
    <3>2. CASE Renew(state1, ref1, R)
      BY <3>2, RenewFacts
    <3> QED BY <1>3, <3>1, <3>2 DEF Finish
  <2> QED BY <1>1, <1>4, <2>1 DEF Left
<1>6. \A q \in QuotesOf(x) : q \in C \/ state[q] = "CONFIRMED"
  BY <1>4, <1>5
<1>7. \E q \in QuotesOf(x) : state[q] # "CONFIRMED"
  BY <1>1 DEF StatesOf
<1>8. x = r
  BY <1>2, <1>6, <1>7 DEF QuotesOf
<1>9. Finish(finished[r], state1, ref1, R)
  <2>1. S = {"CONFIRMED"}
    BY <1>1, <1>5, <1>8
  <2> QED BY <1>1, <1>3, <1>8, <2>1
(* Its day is that of a quote, and no quote was completed later.           *)
<1>10. FinishIsCurrent(r)
  BY <1>1, <1>8 DEF Summaries, SummaryIsCurrent
<1>11. finished[r] # 0
  <2>1. CASE HasInterval
    BY <1>9, <2>1 DEF Finish, Datable
  <2>2. CASE QuotesOf(r) \cap premade = {}
    <3>1. \A q \in QuotesOf(r) : done[q] # 0
      BY <1>2, <1>4, <1>6, <1>8, <2>2 DEF FinishedWorkIsDated, Finished
    <3> QED BY <1>1, <1>8, <1>10, <3>1 DEF FinishIsCurrent
  <2> QED BY <1>1, <1>8, <2>1, <2>2
<1>12. finished[r] \in DaysOf(r) /\ \A day \in DaysOf(r) : day <= finished[r]
  BY <1>10, <1>11 DEF FinishIsCurrent, DaysOf
<1> HIDE DEF state1, ref1, R
<1> QED BY <1>1, <1>8, <1>9, <1>11, <1>12, FinishChains

(* A quote that is not confirmed by Confirm is not confirmed.              *)
LEMMA QuoteChains ==
    ASSUME WorkInv, Summaries, FinishedWorkIsDated, QuoteStep,
           NEW x, ConfirmsLastQuote(x)
    PROVE  Chained(x)
<1>0. quotes \subseteq Quote /\ state \in [Quote -> JobState]
  BY DEF WorkInv, RowsOK
<1>1. CASE \E r \in reports \cup {NoReport} : \E C \in Confirmable(r) : Confirm(r, C)
  BY <1>1, ConfirmChains
<1>2. ASSUME NEW q \in Quote, NEW r \in reports \cup {NoReport},
             NEW crew \in BOOLEAN, NEW s \in HandState, AddQuote(q, r, crew, s)
      PROVE  NoneConfirmed
  BY <1>0, <1>2 DEF AddQuote, NoneConfirmed
<1>3. ASSUME NEW q \in Quote, DeleteQuote(q) PROVE NoneConfirmed
  BY <1>0, <1>3 DEF DeleteQuote, NoneConfirmed
<1>4. ASSUME NEW q \in Quote, Approve(q) \/ Unapprove(q) PROVE NoneConfirmed
  BY <1>0, <1>4 DEF Approve, Unapprove, SetApproval, NoneConfirmed
<1>5. ASSUME NEW q \in Quote, NEW s \in JobState \ {"CONFIRMED"}, SetState(q, s)
      PROVE  NoneConfirmed
  BY <1>0, <1>5 DEF SetState, NoneConfirmed
<1>6. ASSUME NEW q \in Quote, NEW r \in reports \cup {NoReport}, MoveQuote(q, r)
      PROVE  NoneConfirmed
  BY <1>0, <1>6 DEF MoveQuote, NoneConfirmed
<1> QED BY <1>1, <1>2, <1>3, <1>4, <1>5, <1>6, NoneIsLast DEF QuoteStep
(* The scope's reports as they are written when its docking begins or ends. *)
LEMMA DockingRewrites ==
    ASSUME WorkInv, Summaries, NEW r \in Unfinished
    PROVE  /\ [ref EXCEPT ![r] = "WAITING_FOR_DOCKING"] \in [Report -> RefJobState]
           /\ \A x \in reports :
                 Rewritten(x, state, [ref EXCEPT ![r] = "WAITING_FOR_DOCKING"], {})
           /\ Undocked(r) \in [Report -> RefJobState]
           /\ \A x \in reports : Rewritten(x, state, Undocked(r), {r})
           /\ Undocked(r)[r] # "WAITING_FOR_DOCKING"
<1>1. /\ r \in reports /\ r \in Report /\ finished[r] = 0 /\ reports \subseteq Report
      /\ ref \in [Report -> RefJobState] /\ state \in [Quote -> JobState]
      /\ quotes \subseteq Quote
  BY DEF Unfinished, WorkInv, RowsOK, Summaries, SummaryTypes
<1>2. StatesOf(r) \in SUBSET JobState
  BY <1>1 DEF StatesOf, QuotesOf
<1>3. RefState(StatesOf(r)) \in JobState
  BY <1>2, RefStateFits
<1>4. "WAITING_FOR_DOCKING" \in RefJobState /\ "WAITING_FOR_DOCKING" \notin JobState
      /\ JobState \subseteq RefJobState
  BY DEF RefJobState, JobState
<1>5. Undocked(r) \in [Report -> RefJobState] /\ Undocked(r)[r] = RefState(StatesOf(r))
      /\ \A x \in Report : x # r => Undocked(r)[x] = ref[x]
  BY <1>1, <1>3, <1>4 DEF Undocked
<1>6. \A x \in reports : Rewritten(x, state, Undocked(r), {r})
  BY <1>1, <1>5 DEF Rewritten, StatesOf
<1>7. \A x \in reports : Rewritten(x, state, [ref EXCEPT ![r] = "WAITING_FOR_DOCKING"], {})
  BY <1>1 DEF Rewritten
<1> QED BY <1>1, <1>3, <1>4, <1>5, <1>6, <1>7

(* If one report was unfinished when the docking ends, it was the one that *)
(* waited, since no finished report does.                                  *)
LEMMA EndReleases ==
    ASSUME WorkInv, Summaries, Summaries', NEW r \in Unfinished,
           NEW new, Left({}, new, state, Undocked(r)) \/ Left(Unfinished, new, state, Undocked(r))
    PROVE  Released
<1> SUFFICES ASSUME Cardinality(Unfinished) = 1, NEW x \in reports'
             PROVE  ref'[x] # "WAITING_FOR_DOCKING"
  BY DEF Released
<1>1. Unfinished = {r}
  <2>1. Unfinished \in SUBSET Report /\ IsFiniteSet(Report)
    BY MaintenanceAssumption DEF WorkInv, RowsOK, Unfinished
  <2>2. IsFiniteSet(Unfinished)
    BY <2>1, FS_Subset
  <2> QED BY <2>2, FS_Singleton
<1>2. CASE x \in new
  BY <1>2 DEF Left
<1>3. CASE x \notin new /\ x = r
  <2>1. ref'[x] = Undocked(r)[x]
    BY <1>1, <1>3 DEF Left
  <2> QED BY <1>3, <2>1, DockingRewrites
<1>4. CASE x \notin new /\ x # r
  <2>1. x \in reports /\ x \notin Unfinished /\ finished'[x] = finished[x]
    BY <1>1, <1>4 DEF Left
  <2>2. finished'[x] # 0
    BY <2>1 DEF Unfinished
  <2> QED BY <2>2 DEF Summaries, WaitingIsUnfinished
<1> QED BY <1>2, <1>3, <1>4

LEMMA ScopeSummaries ==
    ASSUME WorkInv, Summaries, ScopeTypes, ScopeStep
    PROVE  SummaryOK /\ NoneConfirmed
<1>0. RowsOK
  BY DEF WorkInv
<1>1. CASE SetAuto
  <2>1. UNCHANGED <<creating, docking, lastDay, rows>> /\ auto' = ~auto
    BY <1>1 DEF SetAuto
  <2> QED BY <2>1, SameRows, StaysLiftable DEF SummaryOK, ScopeTypes, Released
<1>2. CASE NextDay
  <2>1. UNCHANGED <<creating, docking, auto, lastDay, rows>>
    BY <1>2 DEF NextDay, scope
  <2> QED BY <2>1, SameRows, StaysLiftable DEF SummaryOK, ScopeTypes, Released
<1>3. CASE Dock
  <2>1. PICK r \in Unfinished :
            /\ docking' = TRUE /\ UNCHANGED <<creating, auto, lastDay>>
            /\ Rewrite(state, [ref EXCEPT ![r] = "WAITING_FOR_DOCKING"], {})
    BY <1>3 DEF Dock
  <2> DEFINE ref1 == [ref EXCEPT ![r] = "WAITING_FOR_DOCKING"]
  <2>2. ref1 \in [Report -> RefJobState] /\ \A x \in reports : Rewritten(x, state, ref1, {})
    BY DockingRewrites
  <2>3. Rewrite(state, ref1, {})
    BY <2>1
  <2> HIDE DEF ref1
  <2>4. Summaries'
    BY <2>2, <2>3, NotRewritten, RewriteSummaries
  <2>5. Left({}, {}, state, ref1)
    BY <2>3, RewriteFacts
  <2> QED BY <2>1, <2>4, <2>5, StaysLiftable
          DEF SummaryOK, ScopeTypes, Released, Left, Unfinished, NoneConfirmed
<1>4. CASE Undock
  <2>1. PICK r \in Unfinished :
            /\ docking' = FALSE /\ UNCHANGED <<creating, auto, lastDay>>
            /\ Rewrite(state, Undocked(r), {r})
    BY <1>4 DEF Undock
  <2>2. Undocked(r) \in [Report -> RefJobState]
        /\ \A x \in reports : Rewritten(x, state, Undocked(r), {r})
    BY DockingRewrites
  <2>3. Summaries'
    BY <2>1, <2>2, NotRewritten, RewriteSummaries
  <2>4. Left({}, {}, state, Undocked(r))
    BY <2>1, RewriteFacts
  <2>5. Released
    BY <2>3, <2>4, EndReleases
  <2> QED BY <2>1, <2>3, <2>4, <2>5 DEF SummaryOK, ScopeTypes, Liftable, Left, NoneConfirmed
<1>5. ASSUME NEW day \in 1..today, FinishDocking(day)
      PROVE  SummaryOK /\ NoneConfirmed
  <2>1. PICK r \in Unfinished :
            /\ docking' = FALSE /\ UNCHANGED <<creating, auto>>
            /\ Finish(day, state, Undocked(r), {r})
    BY <1>5 DEF FinishDocking
  <2>2. Undocked(r) \in [Report -> RefJobState]
        /\ \A x \in reports : Rewritten(x, state, Undocked(r), {r})
    BY DockingRewrites
  <2>3. Summaries'
    BY <2>1, <2>2, NotRewritten, FinishSummaries
  <2>4. \E new : Left({}, new, state, Undocked(r)) \/ Left(Unfinished, new, state, Undocked(r))
    <3>1. CASE Rewrite(state, Undocked(r), {r})
      BY <3>1, RewriteFacts
    <3>2. CASE Renew(state, Undocked(r), {r})
      BY <3>2, RenewFacts
    <3> QED BY <2>1, <3>1, <3>2 DEF Finish
  <2>5. Released
    BY <2>3, <2>4, EndReleases
  <2>6. lastDay' \in Day
    BY <1>0, <2>1, MaintenanceAssumption DEF Finish, RowsOK, Day
  <2>7. NoneConfirmed
    BY <2>4 DEF Left, NoneConfirmed
  <2> QED BY <2>1, <2>3, <2>5, <2>6, <2>7 DEF SummaryOK, ScopeTypes, Liftable
<1> QED BY <1>1, <1>2, <1>3, <1>4, <1>5 DEF ScopeStep

-----------------------------------------------------------------------------
(* The inductive invariant of the summaries, and what every step does.     *)

IInv == WorkInv /\ Summaries /\ ScopeTypes /\ FinishedWorkIsDated

LEMMA InvStart == Init => IInv
<1> SUFFICES ASSUME Init PROVE IInv
  OBVIOUS
<1>1. WorkInv /\ FinishedWorkIsDated
  BY Start
<1>2. ScopeTypes
  <2>1. creating \in 0..MaxOverlap /\ lastDay \in Day
    BY MaintenanceAssumption DEF Init, Day
  <2>2. docking \in BOOLEAN /\ auto \in BOOLEAN
    BY DEF Init
  <2> QED BY <2>1, <2>2 DEF ScopeTypes
<1>3. Summaries
  <2>1. 0 \in Day /\ "UNAPPROVED" \in RefJobState
    BY MaintenanceAssumption DEF RefJobState, JobState, Day
  <2>2. SummaryTypes
    BY <2>1 DEF Init, SummaryTypes
  <2>3. reports = {}
    BY DEF Init
  <2> QED BY <2>2, <2>3 DEF Summaries, SummaryIsCurrent, WaitingIsUnfinished
<1> QED BY <1>1, <1>2, <1>3 DEF IInv

LEMMA InvStep ==
    ASSUME IInv, [Next]_vars
    PROVE  IInv' /\ SummaryOK
<1>1. StepOK
  BY Step DEF IInv
<1>2. SummaryOK
  <2>1. CASE UNCHANGED vars
    <3>1. UNCHANGED <<creating, docking, auto, lastDay, rows>>
      BY <2>1 DEF vars, scope
    <3> QED BY <3>1, SameRows, StaysLiftable DEF IInv, SummaryOK, ScopeTypes, Released
  <2> QED BY <2>1, ReportSummaries, QuoteSummaries, ScopeSummaries DEF IInv, Next
<1> QED BY <1>1, <1>2 DEF StepOK, SummaryOK, IInv

LEMMA InvAlways == Spec => []IInv
<1>1. IInv /\ [Next]_vars => IInv'
  BY InvStep
<1> QED BY <1>1, InvStart, PTL DEF Spec

LEMMA StepChains ==
    ASSUME IInv, [Next]_vars, NEW r, ConfirmsLastQuote(r)
    PROVE  Chained(r)
<1>1. CASE UNCHANGED vars
  <2>1. NoneConfirmed
    BY <1>1 DEF vars, rows, NoneConfirmed
  <2> QED BY <2>1, NoneIsLast
<1>2. CASE ReportStep \/ ScopeStep
  BY <1>2, ReportSummaries, ScopeSummaries, NoneIsLast DEF IInv
<1>3. CASE QuoteStep
  BY <1>3, QuoteChains DEF IInv
<1> QED BY <1>1, <1>2, <1>3 DEF Next

(* All variables keep their types, and no summary is called stale of a     *)
(* report that is gone.                                                    *)
THEOREM TypeTheorem == Spec => []TypeOK
<1>1. IInv => TypeOK
  BY DEF IInv, WorkInv, Summaries, SummaryTypes, ScopeTypes, TypeOK
<1> QED BY <1>1, InvAlways, PTL

(* The ref_job_state and the finished_at that the callbacks keep are those *)
(* of the report's quotes, unless one was moved or the scope is docking.   *)
THEOREM SummaryTheorem == Spec => []SummaryIsCurrent
<1>1. IInv => SummaryIsCurrent
  BY DEF IInv, Summaries
<1> QED BY <1>1, InvAlways, PTL

(* Confirming the last quote of a report dates the scope and starts the    *)
(* next report.  Of a report with a quote that was created by hand as      *)
(* finished, and hence is not dated, this is said only if the scope has an *)
(* interval: the arithmetic of the interval refuses a day that is not set. *)
THEOREM ChainTheorem == Spec => ChainContinues
<1>1. \A r \in Report : IInv /\ [Next]_vars /\ ConfirmsLastQuote(r) => Chained(r)
  BY StepChains
<1>2. IInv /\ [Next]_vars =>
        [\A r \in Report : ConfirmsLastQuote(r) =>
            /\ r \in reports'
            /\ lastDay' \in DaysOf(r) /\ \A day \in DaysOf(r) : day <= lastDay'
            /\ Threshold /\ auto =>
                \E new \in reports' \ reports :
                    /\ Unfinished' = {new}
                    /\ Cardinality(QuotesOf(new)') = JobCount
                    /\ \A q \in QuotesOf(new)' : approved'[q] /\ state'[q] = "TODO"]_vars
  BY <1>1 DEF Chained
<1> QED BY <1>2, InvAlways, PTL DEF Spec, ChainContinues

(* The end of the docking releases the one unfinished report: no finished  *)
(* report waits, whatever was written while the scope was docking.         *)
THEOREM UndockTheorem == Spec => UndockReleases
<1>1. IInv /\ [Next]_vars =>
        [docking /\ ~docking' /\ Cardinality(Unfinished) = 1 =>
            \A r \in reports' : ref'[r] # "WAITING_FOR_DOCKING"]_vars
  BY InvStep DEF SummaryOK, Released
<1> QED BY <1>1, InvAlways, PTL DEF Spec, UndockReleases

(* A docking scope keeps an unfinished report, on which its docking can be *)
(* ended, unless a user deletes one that has no quotes.                    *)
THEOREM LiftTheorem == Spec => DockingCanBeLifted
<1>1. IInv /\ [Next]_vars =>
        [docking /\ docking' /\ Unfinished # {} =>
            \/ Unfinished' # {}
            \/ \E r \in Unfinished : QuotesOf(r) = {} /\ reports' = reports \ {r}]_vars
  BY InvStep DEF SummaryOK, Liftable
<1> QED BY <1>1, InvAlways, PTL DEF Spec, DockingCanBeLifted
=============================================================================
