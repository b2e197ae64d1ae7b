---------------------------- MODULE Maintenance ----------------------------
(***************************************************************************)
(* The repair cycle of one maintenance scope: its reports (each one round  *)
(* of maintenance), the job quotes of each report, and the docking switch. *)
(*                                                                         *)
(* Quotes tell their report what happens to them through the callbacks of  *)
(* listen.py: the report then recomputes ref_job_state and finished_at and *)
(* writes them, and a report whose quotes are all confirmed dates the      *)
(* scope and starts the next report.  A write to a report fails while its  *)
(* scope is docking, which undoes the whole request.                       *)
(*                                                                         *)
(* A request is one transaction.  One that touches a quote writes its      *)
(* report's row, so two of them on one report never both commit.  Creating *)
(* a report only inserts rows: what it reads may have changed by the time  *)
(* it commits (ReadForCreation, CommitCreation).                           *)
(*                                                                         *)
(* The approval of a quote is module Approval's; here it is or is not      *)
(* approved.  Who may confirm and the dates of the materials of a quote    *)
(* only forbid steps and are left out.  Ids are reused after a row is      *)
(* deleted, which bounds the rows that exist at a time and not how many    *)
(* there ever are.                                                         *)
(***************************************************************************)
EXTENDS Integers, FiniteSets

CONSTANTS
    Report,      \* ids of maintenance scope reports
    Quote,       \* ids of job quotes
    NoReport,    \* a quote of no report
    JobCount,    \* how many jobs the scope has, each report gets a quote of each
    Threshold,   \* the scope's maintenance_type is THRESHOLD
    HasInterval, \* it has a maintenance_interval
    HandState,   \* the job states quotes are created in by hand (a bound)
    Movable,     \* the quotes that may be given to another report (a bound)
    MaxOverlap,  \* bound on the creations of a report that are open at a time
    MaxDay       \* bound on today

JobState == {"UNAPPROVED", "TODO", "WORKING", "COMPLETED", "CONFIRMED"}
RefJobState == JobState \cup {"WAITING_FOR_DOCKING"}
Day == 0..MaxDay    \* 0 stands for a date that is not set

ASSUME MaintenanceAssumption ==
    /\ NoReport \notin Report
    /\ JobCount \in Nat \ {0} /\ MaxOverlap \in Nat /\ MaxDay \in Nat \ {0}
    /\ Threshold \in BOOLEAN /\ HasInterval \in BOOLEAN
    /\ HandState \subseteq JobState
    /\ Movable \subseteq Quote
    /\ IsFiniteSet(Report) /\ IsFiniteSet(Quote)

VARIABLES
    today,
    creating,   \* transactions that are creating a report, reads done
    docking,    \* scope: is_docking
    auto,       \* scope: is_auto_create_allowed
    lastDay,    \* scope: last_maintenance_date
    reports,    \* the reports of the scope
    ref,        \* report: ref_job_state
    finished,   \* report: finished_at
    quotes,     \* the quotes that exist
    report,     \* quote: maintenance_scope_report_id
    approved,   \* quote: whether its approval status is APPROVED
    state,      \* quote: job_state
    done,       \* quote: finished_at
    premade,    \* history: quotes created as finished work, no state set since
    staleRef,   \* history: reports that gained or lost a quote since ref,
    staleDay    \* history: or since finished, was computed

scope == <<docking, auto, lastDay>>
summary == <<ref, finished, staleRef, staleDay>>
rows == <<reports, quotes, report, approved, state, done, premade, summary>>
vars == <<today, creating, scope, rows>>

-----------------------------------------------------------------------------
(* What a report makes of its quotes.                                      *)

QuotesOf(r) == {q \in quotes : report[q] = r}
StatesOf(r) == {state[q] : q \in QuotesOf(r)}
DaysOf(r) == {done[q] : q \in QuotesOf(r)}
Unfinished == {r \in reports : finished[r] = 0}

\* Mutant: a report without an open quote is written all the same.
Blocked_Open(r) == docking /\ r \in Unfinished

\* A quote of a report of a docking scope cannot tell its report anything.
Blocked(r) == docking /\ r \in reports

\* Mutant: a report with a working quote is working, unapproved ones or not.
RefState_WorkingFirst(S) ==
    CASE S \subseteq {"TODO"} -> "TODO"
      [] S = {"COMPLETED"} -> "COMPLETED"
      [] S = {"CONFIRMED"} -> "CONFIRMED"
      [] S \subseteq {"UNAPPROVED", "COMPLETED", "CONFIRMED"} /\ "COMPLETED" \in S
            -> "COMPLETED"
      [] "UNAPPROVED" \in S /\ "WORKING" \notin S -> "UNAPPROVED"
      [] OTHER -> "WORKING"

\* set_ref_job_state(), of the set of job states of the report's quotes.
RefState(S) ==
    CASE S \subseteq {"TODO"} -> "TODO"
      [] S = {"COMPLETED"} -> "COMPLETED"
      [] S = {"CONFIRMED"} -> "CONFIRMED"
      [] "UNAPPROVED" \in S -> "UNAPPROVED"
      [] S = {"COMPLETED", "CONFIRMED"} -> "COMPLETED"
      [] OTHER -> "WORKING"

\* Mutant: the quotes that are not finished are left out of the maximum.
FinishDay_SkipOpen(D) ==
    IF D \subseteq {0} THEN 0 ELSE CHOOSE d \in D : \A e \in D : e <= d

\* set_finished_at(): the last day, unset if there is no quote or one is open.
FinishDay(D) ==
    IF D = {} \/ 0 \in D THEN 0 ELSE CHOOSE d \in D : \A e \in D : e <= d

\* The reports in R compute ref_job_state, those in F finished_at, from the
\* quotes as they are after the step.
Recompute(R, F) ==
    /\ ref' = [r \in Report |-> IF r \in R THEN RefState(StatesOf(r)') ELSE ref[r]]
    /\ finished' = [r \in Report |->
                        IF r \in F THEN FinishDay(DaysOf(r)') ELSE finished[r]]
    /\ staleRef' = staleRef \ R
    /\ staleDay' = staleDay \ F

-----------------------------------------------------------------------------
(* Creating and deleting rows.                                             *)

\* Mutant: the quotes of a deleted report stay behind.
Replace_KeepQuotes(gone, new, owner, state1, ref1, R) ==
    LET born == DOMAIN owner
    IN  /\ reports' = (reports \ gone) \cup new
        /\ quotes' = quotes \cup born
        /\ report' = [q \in Quote |-> IF q \in born THEN owner[q] ELSE report[q]]
        /\ approved' = [q \in Quote |-> q \in born \/ approved[q]]
        /\ state' = [q \in Quote |-> IF q \in born THEN "TODO" ELSE state1[q]]
        /\ done' = [q \in Quote |-> IF q \in born THEN 0 ELSE done[q]]
        /\ premade' = premade
        /\ ref' = [r \in Report |-> IF r \in new THEN "TODO"
                                    ELSE IF r \in gone THEN "UNAPPROVED" ELSE ref1[r]]
        /\ finished' = [r \in Report |-> IF r \in gone \cup new THEN 0 ELSE finished[r]]
        /\ staleRef' = staleRef \ (gone \cup R)
        /\ staleDay' = staleDay \ gone

\* Mutant: created quotes are not approved at once.
Replace_Unapproved(gone, new, owner, state1, ref1, R) ==
    LET lost == {q \in quotes : report[q] \in gone}
        born == DOMAIN owner
    IN  /\ reports' = (reports \ gone) \cup new
        /\ quotes' = (quotes \ lost) \cup born
        /\ report' = [q \in Quote |-> IF q \in born THEN owner[q]
                                      ELSE IF q \in lost THEN NoReport ELSE report[q]]
        /\ approved' = [q \in Quote |-> q \notin born \cup lost /\ approved[q]]
        /\ state' = [q \in Quote |->
                IF q \in born \cup lost THEN "UNAPPROVED" ELSE state1[q]]
        /\ done' = [q \in Quote |-> IF q \in born \cup lost THEN 0 ELSE done[q]]
        /\ premade' = premade \ lost
        /\ ref' = [r \in Report |-> IF r \in gone \cup new THEN "UNAPPROVED" ELSE ref1[r]]
        /\ finished' = [r \in Report |-> IF r \in gone \cup new THEN 0 ELSE finished[r]]
        /\ staleRef' = staleRef \ (gone \cup R)
        /\ staleDay' = staleDay \ gone

\* The reports in gone are deleted with their quotes and those in new are
\* created; owner gives each quote that is created its report.  Such a quote is
\* for the crew, hence approved at once and TODO, and so is its report.  state1
\* and ref1 are what the request wrote before, R the reports it wrote ref1 to.
Replace(gone, new, owner, state1, ref1, R) ==
    LET lost == {q \in quotes : report[q] \in gone}
        born == DOMAIN owner
    IN  /\ reports' = (reports \ gone) \cup new
        /\ quotes' = (quotes \ lost) \cup born
        /\ report' = [q \in Quote |-> IF q \in born THEN owner[q]
                                      ELSE IF q \in lost THEN NoReport ELSE report[q]]
        /\ approved' = [q \in Quote |-> q \in born \/ (q \notin lost /\ approved[q])]
        /\ state' = [q \in Quote |-> IF q \in born THEN "TODO"
                                     ELSE IF q \in lost THEN "UNAPPROVED" ELSE state1[q]]
        /\ done' = [q \in Quote |-> IF q \in born \cup lost THEN 0 ELSE done[q]]
        /\ premade' = premade \ lost
        /\ ref' = [r \in Report |-> IF r \in new THEN "TODO"
                                    ELSE IF r \in gone THEN "UNAPPROVED" ELSE ref1[r]]
        /\ finished' = [r \in Report |-> IF r \in gone \cup new THEN 0 ELSE finished[r]]
        /\ staleRef' = staleRef \ (gone \cup R)
        /\ staleDay' = staleDay \ gone

\* The ways to give report r a quote of each job of the scope.
JobQuotes(r) == {[q \in B |-> r] : B \in {C \in SUBSET (Quote \ quotes) :
                                              Cardinality(C) = JobCount}}

NoQuotes == [q \in {} |-> NoReport]

\* No row is created or deleted.
Rewrite(state1, ref1, R) == Replace({}, {}, NoQuotes, state1, ref1, R)

\* unlink_prepare_reports() and create_maintenance_scope_report().
Renew(state1, ref1, R) ==
    \E r \in Report \ reports : \E owner \in JobQuotes(r) :
        Replace(Unfinished, {r}, owner, state1, ref1, R)

\* The creation of a report reads that the scope is not docking and, in the
\* constraint on the scope's reports, that none but the new one is unfinished.
ReadForCreation ==
    /\ creating < MaxOverlap
    /\ ~docking /\ Unfinished = {}
    /\ creating' = creating + 1
    /\ UNCHANGED <<today, scope, rows>>

\* The rows of the report and its quotes become visible.
CommitCreation(r) ==
    /\ creating > 0 /\ r \notin reports
    /\ \E owner \in JobQuotes(r) : Replace({}, {r}, owner, state, ref, {})
    /\ creating' = creating - 1
    /\ UNCHANGED <<today, scope>>

\* Mutant: a report may be deleted while its scope is docking.
DeleteReport_WhileDocking(r) ==
    /\ r \in reports
    /\ Replace({r}, {}, NoQuotes, state, ref, {})
    /\ UNCHANGED <<today, creating, scope>>

\* Deleting its quotes first writes the report, deleting the report does not.
DeleteReport(r) ==
    /\ r \in reports
    /\ docking => QuotesOf(r) = {}
    /\ Replace({r}, {}, NoQuotes, state, ref, {})
    /\ UNCHANGED <<today, creating, scope>>

\* unlink_and_create_job_quotes(): the report stays, its quotes are new.
RecreateQuotes(r) ==
    /\ r \in reports /\ ~docking
    /\ \E owner \in JobQuotes(r) : Replace({r}, {r}, owner, state, ref, {})
    /\ UNCHANGED <<today, creating, scope>>

\* create_all_report_for_scope(), and a consumption scope at its limit.
AutoCreate ==
    /\ auto /\ ~docking
    /\ Renew(state, ref, {})
    /\ UNCHANGED <<today, creating, scope>>

-----------------------------------------------------------------------------
(* Quotes.                                                                 *)

\* Work that has been done, from the states of a quote.
Finished == {"COMPLETED", "CONFIRMED"}

\* A quote is created by hand, in job state s unless its approval says other:
\* the statusbar of the form and the columns of the kanban view offer each.
AddQuote(q, r, crew, s) ==
    /\ q \notin quotes /\ ~Blocked(r)
    /\ quotes' = quotes \cup {q}
    /\ report' = [report EXCEPT ![q] = r]
    /\ approved' = [approved EXCEPT ![q] = crew]
    /\ state' = [state EXCEPT ![q] = IF ~crew THEN "UNAPPROVED"
                                     ELSE IF s = "UNAPPROVED" THEN "TODO" ELSE s]
    /\ premade' = IF crew /\ s \in Finished THEN premade \cup {q} ELSE premade
    /\ UNCHANGED <<today, creating, scope, reports, done>>
    /\ Recompute({r} \cap reports, {r} \cap reports)

DeleteQuote(q) ==
    /\ q \in quotes /\ ~Blocked(report[q])
    /\ quotes' = quotes \ {q}
    /\ report' = [report EXCEPT ![q] = NoReport]
    /\ approved' = [approved EXCEPT ![q] = FALSE]
    /\ state' = [state EXCEPT ![q] = "UNAPPROVED"]
    /\ done' = [done EXCEPT ![q] = 0]
    /\ premade' = premade \ {q}
    /\ UNCHANGED <<today, creating, scope, reports>>
    /\ Recompute({report[q]} \cap reports, {report[q]} \cap reports)

\* No callback listens to maintenance_scope_report_id.
MoveQuote(q, r) ==
    /\ q \in quotes \cap Movable /\ r # report[q]
    /\ report' = [report EXCEPT ![q] = r]
    /\ staleRef' = staleRef \cup ({report[q], r} \cap reports)
    /\ staleDay' = staleDay \cup ({report[q], r} \cap reports)
    /\ UNCHANGED <<today, creating, scope, reports, quotes, approved, state, done,
                   premade, ref, finished>>

\* The approval of q becomes a; a change of job state that follows is told to
\* the report.
SetApproval(q, a, s) ==
    /\ approved' = [approved EXCEPT ![q] = a]
    /\ state' = [state EXCEPT ![q] = s]
    /\ s # state[q] => ~Blocked(report[q])
    /\ UNCHANGED <<today, creating, scope, reports, quotes, report, done, premade>>
    /\ Recompute({r \in reports : s # state[q] /\ r = report[q]}, {})

\* The approval status becomes APPROVED.
Approve(q) ==
    /\ q \in quotes /\ ~approved[q]
    /\ SetApproval(q, TRUE, IF state[q] = "UNAPPROVED" THEN "TODO" ELSE state[q])

\* Mutant: work that has begun goes on.
Unapprove_KeepsWork(q) ==
    /\ q \in quotes /\ approved[q]
    /\ SetApproval(q, FALSE, IF state[q] = "TODO" THEN "UNAPPROVED" ELSE state[q])

\* The approval is withdrawn: by a user, by a new implement date that restarts
\* the flow, or by the change of flow that follows is_for_crew.
Unapprove(q) ==
    /\ q \in quotes /\ approved[q]
    /\ SetApproval(q, FALSE, "UNAPPROVED")

\* Mutant: the day the work was completed is not noted.
SetState_NoDay(q, s) ==
    /\ q \in quotes /\ ~Blocked(report[q])
    /\ approved[q] <=> s # "UNAPPROVED"
    /\ state' = [state EXCEPT ![q] = s]
    /\ done' = done
    /\ premade' = premade \ {q}
    /\ UNCHANGED <<today, creating, scope, reports, quotes, report, approved>>
    /\ Recompute({report[q]} \cap reports, {})

\* A user moves the quote to job state s, other than CONFIRMED.
SetState(q, s) ==
    /\ q \in quotes /\ ~Blocked(report[q])
    /\ approved[q] <=> s # "UNAPPROVED"
    /\ state' = [state EXCEPT ![q] = s]
    /\ done' = [done EXCEPT ![q] = IF s = "COMPLETED" THEN today ELSE @]
    /\ premade' = premade \ {q}
    /\ UNCHANGED <<today, creating, scope, reports, quotes, report, approved>>
    /\ Recompute({report[q]} \cap reports,
                 {r \in reports : s = "COMPLETED" /\ r = report[q]})

\* What a user may confirm at once: a completed quote, or all those of a report
\* (confirm_all_job_quotes).
Confirmable(r) ==
    LET completed == {q \in QuotesOf(r) : approved[q] /\ state[q] = "COMPLETED"}
    IN  {{q} : q \in completed} \cup ({completed} \ {{}})

\* Mutant: the scope is dated today.
Finish_Today(day, state1, ref1, R) ==
    /\ lastDay' = today
    /\ IF Threshold /\ auto THEN Renew(state1, ref1, R) ELSE Rewrite(state1, ref1, R)

\* get_interval_days(): an interval cannot be added to a day that is not set.
Datable(day) == HasInterval => day # 0

\* The scope was maintained on day, and goes on to its next report if its type
\* is THRESHOLD.
Finish(day, state1, ref1, R) ==
    /\ Datable(day)
    /\ lastDay' = day
    /\ IF Threshold /\ auto THEN Renew(state1, ref1, R) ELSE Rewrite(state1, ref1, R)

\* The quotes in C, of report r, become CONFIRMED.
Confirm(r, C) ==
    LET state1 == [q \in Quote |-> IF q \in C THEN "CONFIRMED" ELSE state[q]]
        S == {state1[q] : q \in QuotesOf(r)}
        R == {r} \cap reports
        ref1 == [x \in Report |-> IF x \in R THEN RefState(S) ELSE ref[x]]
    IN  /\ C \in Confirmable(r) /\ ~Blocked(r)
        /\ IF R # {} /\ S = {"CONFIRMED"}
           THEN Finish(finished[r], state1, ref1, R)
           ELSE Rewrite(state1, ref1, R) /\ UNCHANGED lastDay
        /\ UNCHANGED <<today, creating, docking, auto>>

-----------------------------------------------------------------------------
(* The scope.                                                              *)

SetAuto ==
    /\ auto' = ~auto
    /\ UNCHANGED <<today, creating, docking, lastDay, rows>>

\* Mutant: the report goes on waiting.
Undocked_Waits(r) == [ref EXCEPT ![r] = "WAITING_FOR_DOCKING"]

\* ref_job_state of every report once r is no longer docking.
Undocked(r) == [ref EXCEPT ![r] = RefState(StatesOf(r))]

\* A report of the docking addon is created for the scope, or a user ticks
\* is_docking.  The first unfinished report waits: which is first is their
\* order's concern.  There must be one: the code calls a method of None.
Dock ==
    \E r \in Unfinished :
        /\ docking' = TRUE
        /\ Rewrite(state, [ref EXCEPT ![r] = "WAITING_FOR_DOCKING"], {})
        /\ UNCHANGED <<today, creating, auto, lastDay>>

\* That report is deleted, or a user unticks is_docking.
Undock ==
    \E r \in Unfinished :
        /\ docking' = FALSE
        /\ Rewrite(state, Undocked(r), {r})
        /\ UNCHANGED <<today, creating, auto, lastDay>>

\* All quotes of that report are confirmed; it was finished on day.
FinishDocking(day) ==
    \E r \in Unfinished :
        /\ docking' = FALSE
        /\ Finish(day, state, Undocked(r), {r})
        /\ UNCHANGED <<today, creating, auto>>

NextDay ==
    /\ today < MaxDay
    /\ today' = today + 1
    /\ UNCHANGED <<creating, scope, rows>>

-----------------------------------------------------------------------------

Init ==
    /\ today = 1 /\ creating = 0
    /\ docking = FALSE /\ auto \in BOOLEAN /\ lastDay = 0
    /\ reports = {} /\ quotes = {}
    /\ ref = [r \in Report |-> "UNAPPROVED"]
    /\ finished = [r \in Report |-> 0]
    /\ report = [q \in Quote |-> NoReport]
    /\ approved = [q \in Quote |-> FALSE]
    /\ state = [q \in Quote |-> "UNAPPROVED"]
    /\ done = [q \in Quote |-> 0]
    /\ premade = {} /\ staleRef = {} /\ staleDay = {}

ReportStep ==
    \/ ReadForCreation
    \/ AutoCreate
    \/ \E r \in Report : CommitCreation(r) \/ DeleteReport(r) \/ RecreateQuotes(r)

QuoteStep ==
    \/ \E q \in Quote, r \in reports \cup {NoReport} :
        \/ MoveQuote(q, r)
        \/ \E crew \in BOOLEAN, s \in HandState : AddQuote(q, r, crew, s)
    \/ \E q \in Quote :
        \/ DeleteQuote(q) \/ Approve(q) \/ Unapprove(q)
        \/ \E s \in JobState \ {"CONFIRMED"} : SetState(q, s)
    \/ \E r \in reports \cup {NoReport} : \E C \in Confirmable(r) : Confirm(r, C)

ScopeStep ==
    SetAuto \/ Dock \/ Undock \/ NextDay \/ \E day \in 1..today : FinishDocking(day)

Next == ReportStep \/ QuoteStep \/ ScopeStep

Spec == Init /\ [][Next]_vars

-----------------------------------------------------------------------------
(* Properties.                                                             *)

\* The rows are well typed, a quote is of a report that exists or of none.
RowsOK ==
    /\ today \in Day \ {0}
    /\ reports \subseteq Report /\ quotes \subseteq Quote
    /\ report \in [Quote -> Report \cup {NoReport}]
    /\ approved \in [Quote -> BOOLEAN]
    /\ state \in [Quote -> JobState]
    /\ done \in [Quote -> Day]
    /\ premade \subseteq quotes
    /\ \A q \in Quote : report[q] \in (IF q \in quotes THEN reports ELSE {}) \cup {NoReport}

\* Types of the variables, and the foreign key of quotes: deleting a report
\* deletes its quotes.
TypeOK ==
    /\ RowsOK
    /\ creating \in 0..MaxOverlap
    /\ docking \in BOOLEAN /\ auto \in BOOLEAN /\ lastDay \in Day
    /\ ref \in [Report -> RefJobState] /\ finished \in [Report -> Day]
    /\ staleRef \subseteq reports /\ staleDay \subseteq reports

\* A quote has left the state UNAPPROVED exactly if it is approved, whichever of
\* its approval, its job state and its report was written last: the two fields
\* are written by different requests that call each other.
StateFollowsApproval == \A q \in quotes : state[q] = "UNAPPROVED" <=> ~approved[q]

\* Completed and confirmed work has a day it was completed on, which is what
\* the report and then the scope are dated with, unless the quote was created
\* by hand in that state: no order of approvals, withdrawals, states and
\* confirmations leaves finished work without its day.
FinishedWorkIsDated ==
    \A q \in quotes \ premade : state[q] \in Finished => done[q] # 0

RefIsCurrent(r) ==
    ref[r] # "WAITING_FOR_DOCKING" =>
        /\ ref[r] = "UNAPPROVED" <=> "UNAPPROVED" \in StatesOf(r)
        /\ ref[r] = "CONFIRMED" <=> StatesOf(r) = {"CONFIRMED"}
        /\ ref[r] = "TODO" <=> StatesOf(r) \subseteq {"TODO"}
        /\ ref[r] = "COMPLETED" <=>
                StatesOf(r) \subseteq {"COMPLETED", "CONFIRMED"} /\ "COMPLETED" \in StatesOf(r)

FinishIsCurrent(r) ==
    /\ finished[r] = 0 <=> QuotesOf(r) = {} \/ \E q \in QuotesOf(r) : done[q] = 0
    /\ \A q \in QuotesOf(r) : finished[r] # 0 => done[q] <= finished[r]
    /\ finished[r] \in DaysOf(r) \cup {0}

\* A report's ref_job_state and finished_at, which the callbacks of listen.py
\* keep, are those of its quotes at all times, unless a quote was moved to
\* another report or the report waits for the docking of its scope.
SummaryIsCurrent ==
    /\ \A r \in reports \ staleRef : RefIsCurrent(r)
    /\ \A r \in reports \ staleDay : FinishIsCurrent(r)

\* The request that confirms the last quote of a report, whose finished_at is
\* known.  A quote created as finished has no day; its report is undated, which
\* only the arithmetic of an interval refuses, and the renewal deletes it.
ConfirmsLastQuote(r) ==
    /\ r \in reports /\ r \notin staleDay
    /\ HasInterval \/ QuotesOf(r) \cap premade = {}
    /\ StatesOf(r) # {"CONFIRMED"} /\ QuotesOf(r)' = QuotesOf(r)
    /\ \A q \in QuotesOf(r) : state'[q] = "CONFIRMED"
    /\ QuotesOf(r) # {}

\* It dates the scope with the last day a quote of the report was completed,
\* keeps the report, and leaves a threshold scope whose reports are created
\* automatically with exactly one unfinished report, a new one in which every
\* job is approved and to do.
ChainContinues ==
    [][\A r \in Report : ConfirmsLastQuote(r) =>
        /\ r \in reports'
        /\ lastDay' \in DaysOf(r) /\ \A day \in DaysOf(r) : day <= lastDay'
        /\ Threshold /\ auto =>
            \E new \in reports' \ reports :
                /\ Unfinished' = {new}
                /\ Cardinality(QuotesOf(new)') = JobCount
                /\ \A q \in QuotesOf(new)' : approved'[q] /\ state'[q] = "TODO"]_vars

\* While its scope stays docking, no request changes a quote of a report: none
\* is lost, and none is approved, worked on, completed or confirmed.
DockingFreezes ==
    [][docking /\ docking' => \A q \in quotes : report[q] \in reports =>
        /\ q \in quotes' /\ approved'[q] = approved[q]
        /\ state'[q] = state[q] /\ done'[q] = done[q]]_vars

\* When the docking of a scope with one unfinished report ends, no report goes
\* on waiting for it.
UndockReleases ==
    [][docking /\ ~docking' /\ Cardinality(Unfinished) = 1 =>
        \A r \in reports' : ref'[r] # "WAITING_FOR_DOCKING"]_vars

\* A docking scope keeps an unfinished report, without which its docking cannot
\* be ended (set_ref_job_state is called on the first unfinished report), unless
\* a user deletes one that has no quotes.
DockingCanBeLifted ==
    [][docking /\ docking' /\ Unfinished # {} =>
        \/ Unfinished' # {}
        \/ \E r \in Unfinished : QuotesOf(r) = {} /\ reports' = reports \ {r}]_vars

\* "Vui lòng hoàn thành báo cáo sửa chữa, trước khi tạo mới báo cáo cho hạng mục
\* này!" (maintenance_scope_report.py:323): a scope has at most one unfinished
\* report.
OneUnfinishedReport == Cardinality(Unfinished) <= 1

\* "Vui lòng hoàn thành báo giá trước!" (job_quote.py:314): a quote becomes
\* CONFIRMED only if it was COMPLETED.
ConfirmedWasCompleted ==
    [][\A q \in Quote : state[q] # "CONFIRMED" /\ state'[q] = "CONFIRMED"
                            => state[q] = "COMPLETED"]_vars
=============================================================================
