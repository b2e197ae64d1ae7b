------------------------------ MODULE Approval ------------------------------
(***************************************************************************)
(* The approval engine: the mixin utilities.approval.status, inherited by  *)
(* every record that must be signed off (job quotes, quote requests,       *)
(* liquidations, docking contracts, incident reports, ...).                *)
(*                                                                         *)
(* A record walks up a flow, an ordered list of levels.  A level is named  *)
(* here by its option, the selection value the code builds from the user   *)
(* group of the level and its second-time mark; GroupOf gives the group    *)
(* back.  A record has a status in each of two flows, main and secondary,  *)
(* and a switch saying which one counts.  The group that may act on it is  *)
(* a stored computed column (xml_id), and a cron row reminds the approver. *)
(*                                                                         *)
(* Every operation is one database transaction.  All of them update the    *)
(* record's own row, PostgreSQL lets one of two concurrent updates of a    *)
(* row through and Odoo retries the other one, so an operation is atomic.  *)
(***************************************************************************)
EXTENDS Integers, Sequences

CONSTANTS
    Record,     \* the records under approval
    User,       \* the users of the web client
    Admin,      \* those in utilities.group_ship_admin
    Group,      \* the "Ship Roles" groups
    GroupsOf,   \* the groups of each user
    Option,     \* the selection values a level can have
    GroupOf,    \* the group of each option
    FlowChoice, \* the flows an administrator may configure, for each kind
    Batch,      \* the recordsets one write() may be called on, as sequences
    APPROVED, REJECTED, \* the two final selection values
    NoStatus,   \* a null status: no level is configured, or none was found
    EMPTY,      \* the group "EMPTY.EMPTY" of a null status: nobody is in it
    NoReminder  \* stands for "the record has no reminder cron"

Kind == {"main", "secondary"}

(* The selection is keyed by its values: a flow lists no option twice.  It *)
(* is empty when the model has no flow of that kind.                       *)
IsFlow(f) ==
    /\ f \in Seq(Option)
    /\ \A i, j \in 1..Len(f) : f[i] = f[j] => i = j

IsBatch(b) ==
    /\ b \in Seq(Record)
    /\ \A i, j \in 1..Len(b) : b[i] = b[j] => i = j

ASSUME ConstantsAssumption ==
    /\ Admin \subseteq User
    /\ GroupsOf \in [User -> SUBSET Group]
    /\ GroupOf \in [Option -> Group]
    /\ APPROVED \notin Option
    /\ REJECTED \notin Option
    /\ APPROVED # REJECTED
    /\ NoStatus \notin Option \cup {APPROVED, REJECTED}
    /\ EMPTY \notin Group
    /\ NoReminder \notin Group \cup {EMPTY}

ASSUME FlowAssumption ==
    /\ DOMAIN FlowChoice = Kind
    /\ \A k \in Kind : \A f \in FlowChoice[k] : IsFlow(f)

ASSUME BatchAssumption == \A b \in Batch : IsBatch(b)

VARIABLES
    flow,       \* utilities.approval.flow: the levels of each kind, in order
    secondary,  \* is_for_secondary_approval_flow
    status,     \* approval_status and secondary_approval_status
    off,        \* is_off_approval
    permitted,  \* xml_id, the stored group that may act on the record
    reminder,   \* the group the record's reminder cron writes to
    signed,     \* history: levels signed by one of their group on the way up
    bypassed,   \* history: decided with checks bypassed since the last restart
    reflowed,   \* history: its flow was edited since the last restart
    overridden  \* history: an administrator wrote over a null status since then

ghosts == <<signed, bypassed, reflowed, overridden>>
vars == <<flow, secondary, status, off, permitted, reminder,
          signed, bypassed, reflowed, overridden>>

-----------------------------------------------------------------------------
(* Reading a record.                                                       *)

Final == {APPROVED, REJECTED}
Status == Option \cup Final \cup {NoStatus}

Levels(f) == {f[i] : i \in 1..Len(f)}
First(f) == IF f = <<>> THEN NoStatus ELSE f[1]
Last(f) == f[Len(f)]
Index(f, o) == CHOOSE i \in 1..Len(f) : f[i] = o

\* The options below position i, which are signed before it is reached.
Below(f, i) == {f[j] : j \in 1..(i - 1)}

KindOf(sec) == IF sec THEN "secondary" ELSE "main"
Active(r) == KindOf(secondary[r])
FlowOf(r) == flow[Active(r)]
StatusOf(r) == status[r][Active(r)]
Decided(r) == StatusOf(r) \in Final

\* Mutant: a final status has no group.
GroupOfStatus_NoLast(s, f) == IF s \in Option THEN GroupOf[s] ELSE NoReminder

\* Mutant: a null status belongs to the first level of the flow.
GroupOfStatus_NullFirst(s, f) ==
    IF s = NoStatus THEN IF f = <<>> THEN EMPTY ELSE GroupOf[First(f)]
    ELSE IF s \in Final THEN GroupOf[Last(f)] ELSE GroupOf[s]

\* The group of a status: a final one belongs to the last level of the flow.
GroupOfStatus(s, f) ==
    IF s = NoStatus THEN EMPTY
    ELSE IF s \in Final THEN GroupOf[Last(f)] ELSE GroupOf[s]

MayAct(u, r) == u \in Admin \/ permitted[r] \in GroupsOf[u]

\* Mutant: a proposal may span two levels.
ValidMove_TwoLevels(r, k, v) ==
    LET f == FlowOf(r)
        old == StatusOf(r)
    IN  k = "main" /\ old \in Levels(f) =>
          /\ v \in Levels(f) => Index(f, v) - Index(f, old) \in -2..2
          /\ v \in Final => old = Last(f)

\* Mutant: only a rejection must come from the last level.
ValidMove_ApproveAnywhere(r, k, v) ==
    LET f == FlowOf(r)
        old == StatusOf(r)
    IN  k = "main" /\ old \in Levels(f) =>
          /\ v \in Levels(f) => Index(f, v) - Index(f, old) \in -1..1
          /\ v = REJECTED => old = Last(f)

\* What a write of value v to the status of kind k is validated against: the
\* record's own flow, but always the value of the field approval_status.
ValidMove(r, k, v) ==
    LET f == FlowOf(r)
        old == StatusOf(r)
    IN  k = "main" /\ old \in Levels(f) =>
          /\ v \in Levels(f) => Index(f, v) - Index(f, old) \in -1..1
          /\ v \in Final => old = Last(f)

-----------------------------------------------------------------------------
(* What a write of the status field(s) does once it is accepted.  newSec   *)
(* and newStatus are the record fields after the write, b the recordset it *)
(* is called on.  It fails if it decides a record whose flow has no level. *)

\* Mutant: the loop returns after its first record.
Notified_FirstOnly(b) == {b[i] : i \in {j \in 1..Len(b) : j = 1 /\ ~off[b[j]]}}

\* The loop over the recordset returns at the first record that is off.
Notified(b) ==
    {b[i] : i \in {j \in 1..Len(b) : \A m \in 1..j : ~off[b[m]]}}

\* Mutant: the stored group depends on approval_status alone.
StoreStatus_MainOnly(b, newSec, newStatus) ==
    LET now(r) == newStatus[r][KindOf(newSec[r])]
        group(r) == GroupOfStatus(now(r), flow[KindOf(newSec[r])])
    IN  /\ \A r \in Levels(b) : now(r) \in Final => flow[KindOf(newSec[r])] # <<>>
        /\ secondary' = newSec
        /\ status' = newStatus
        /\ permitted' = [r \in Record |->
                IF newStatus[r]["main"] # status[r]["main"] THEN group(r)
                ELSE permitted[r]]
        /\ reminder' = [r \in Record |->
                IF r \notin Notified(b) THEN reminder[r]
                ELSE IF now(r) \in Final THEN NoReminder ELSE group(r)]
        /\ UNCHANGED <<flow, off>>

StoreStatus(b, newSec, newStatus) ==
    LET now(r) == newStatus[r][KindOf(newSec[r])]
        group(r) == GroupOfStatus(now(r), flow[KindOf(newSec[r])])
    IN  /\ \A r \in Levels(b) : now(r) \in Final => flow[KindOf(newSec[r])] # <<>>
        /\ secondary' = newSec
        /\ status' = newStatus
        /\ permitted' = [r \in Record |->
                IF r \in Levels(b) THEN group(r) ELSE permitted[r]]
        /\ reminder' = [r \in Record |->
                IF r \notin Notified(b) THEN reminder[r]
                ELSE IF now(r) \in Final THEN NoReminder ELSE group(r)]
        /\ UNCHANGED <<flow, off>>

\* history: the signature a user leaves on level o when acting on it.
Signature(u, o) == IF u \in Admin \/ GroupOf[o] \in GroupsOf[u] THEN {o} ELSE {}

\* history: the signatures after u moves r to v in its active flow.
Signatures(u, r, v) ==
    LET f == FlowOf(r)
        old == StatusOf(r)
        acted == IF old \in Levels(f) THEN old ELSE Last(f)
    IN  IF v = NoStatus THEN {}
        ELSE IF v = REJECTED THEN signed[r] \cap Below(f, Len(f))
        ELSE IF v = APPROVED THEN signed[r] \cup Signature(u, acted)
        ELSE (signed[r] \cup Signature(u, acted)) \cap Below(f, Index(f, v))

-----------------------------------------------------------------------------
(* Operations of users.                                                    *)

\* write({"approval_status": v}) or write({"secondary_approval_status": v})
\* on recordset b: every record is validated and the user checked before the
\* first one is stored; a value outside the selection is refused.  False is
\* accepted at any level (the field is not required), and what is then written
\* over the null status is not validated.
WriteStatus(u, b, k, v) ==
    /\ v \in Levels(flow[k]) \cup Final \cup {NoStatus}
    /\ \A r \in Levels(b) : ValidMove(r, k, v) /\ MayAct(u, r)
    /\ StoreStatus(b, secondary,
            [r \in Record |-> IF r \in Levels(b)
                              THEN [status[r] EXCEPT ![k] = v]
                              ELSE status[r]])
    /\ signed' = [r \in Record |->
            IF r \in Levels(b) /\ Active(r) = k THEN Signatures(u, r, v)
            ELSE signed[r]]
    /\ overridden' = [r \in Record |->
            \/ overridden[r]
            \/ /\ r \in Levels(b) /\ Active(r) = k
               /\ StatusOf(r) = NoStatus /\ u \in Admin]
    /\ UNCHANGED <<bypassed, reflowed>>

\* _set_approval_status() writes the field of the active flow.
SetStatus(u, r, v) == WriteStatus(u, <<r>>, Active(r), v)

Propose(u, r) ==
    LET f == FlowOf(r) IN
    /\ StatusOf(r) \in Levels(f)        \* else the index lookup raises
    /\ StatusOf(r) # Last(f)
    /\ SetStatus(u, r, f[Index(f, StatusOf(r)) + 1])

Unpropose(u, r) ==
    LET f == FlowOf(r) IN
    \/ /\ Decided(r)
       /\ SetStatus(u, r, IF Len(f) >= 2 THEN f[Len(f) - 1] ELSE NoStatus)
    \/ /\ StatusOf(r) \in Levels(f)
       /\ StatusOf(r) # First(f)
       /\ SetStatus(u, r, f[Index(f, StatusOf(r)) - 1])

Approve(u, r) == SetStatus(u, r, APPROVED)

Reject(u, r) == SetStatus(u, r, REJECTED)

\* _off_approval() and _on_approval(): an ordinary write of is_off_approval.
SetOff(u, r, b) ==
    /\ MayAct(u, r)
    /\ off' = [off EXCEPT ![r] = b]
    /\ UNCHANGED <<flow, secondary, status, permitted, reminder, ghosts>>

-----------------------------------------------------------------------------
(* Operations of the program, which bypass the checks.                     *)

\* history: the record starts again, with no signature and nothing to excuse.
Forget(r) ==
    /\ signed' = [signed EXCEPT ![r] = {}]
    /\ bypassed' = [bypassed EXCEPT ![r] = FALSE]
    /\ reflowed' = [reflowed EXCEPT ![r] = FALSE]
    /\ overridden' = [overridden EXCEPT ![r] = FALSE]

RestartFlow(r) ==
    /\ StoreStatus(<<r>>, secondary,
                   [status EXCEPT ![r][Active(r)] = First(FlowOf(r))])
    /\ Forget(r)

\* bypass_checks()._set_approval_status() to a final value.
Decide(r, v) ==
    /\ StoreStatus(<<r>>, secondary, [status EXCEPT ![r][Active(r)] = v])
    /\ bypassed' = [bypassed EXCEPT ![r] = TRUE]
    /\ UNCHANGED <<signed, reflowed, overridden>>

SudoApprove(r) == Decide(r, APPROVED)

\* get_approval_status(), a button of the quote's form: the free selection
\* request_state becomes the status.  Its loop over all records that have one
\* is one step for each of them here.
GetApprovalStatus(r) == \E v \in Final : Decide(r, v)

\* switch_to_main_approval_status() and switch_to_secondary_approval_status():
\* both statuses start again at the first level of their flow.
SwitchTo(r, sec) ==
    /\ secondary[r] # sec
    /\ StoreStatus(<<r>>, [secondary EXCEPT ![r] = sec],
                   [status EXCEPT ![r] = [k \in Kind |-> First(flow[k])]])
    /\ Forget(r)

\* The administrator saves other levels on a flow: no record is touched, not
\* even the stored group of those whose status the flow no longer has.
EditFlow(k, f) ==
    /\ f \in FlowChoice[k]
    /\ f # flow[k]
    /\ flow' = [flow EXCEPT ![k] = f]
    /\ reflowed' = [r \in Record |-> reflowed[r] \/ Active(r) = k]
    /\ UNCHANGED <<secondary, status, off, permitted, reminder,
                   signed, bypassed, overridden>>

-----------------------------------------------------------------------------

\* A record is created at the first level of both flows, with no reminder.
Init ==
    /\ flow \in {fl \in [Kind -> UNION {FlowChoice[k] : k \in Kind}] :
                    \A k \in Kind : fl[k] \in FlowChoice[k]}
    /\ secondary = [r \in Record |-> FALSE]
    /\ status = [r \in Record |-> [k \in Kind |-> First(flow[k])]]
    /\ off = [r \in Record |-> FALSE]
    /\ permitted = [r \in Record |-> GroupOfStatus(First(flow["main"]), flow["main"])]
    /\ reminder = [r \in Record |-> NoReminder]
    /\ signed = [r \in Record |-> {}]
    /\ bypassed = [r \in Record |-> FALSE]
    /\ reflowed = [r \in Record |-> FALSE]
    /\ overridden = [r \in Record |-> FALSE]

Next ==
    \/ \E u \in User, b \in Batch, k \in Kind, v \in Status : WriteStatus(u, b, k, v)
    \/ \E u \in User, r \in Record : Propose(u, r)
    \/ \E u \in User, r \in Record : Unpropose(u, r)
    \/ \E u \in User, r \in Record : Approve(u, r)
    \/ \E u \in User, r \in Record : Reject(u, r)
    \/ \E u \in User, r \in Record, b \in BOOLEAN : SetOff(u, r, b)
    \/ \E r \in Record : RestartFlow(r)
    \/ \E r \in Record : SudoApprove(r)
    \/ \E r \in Record : GetApprovalStatus(r)
    \/ \E r \in Record, sec \in BOOLEAN : SwitchTo(r, sec)
    \/ \E k \in Kind : \E f \in FlowChoice[k] : EditFlow(k, f)

Spec == Init /\ [][Next]_vars

-----------------------------------------------------------------------------
(* Properties.                                                             *)

\* Type invariant of the engine's rows and of the history variables.
TypeOK ==
    /\ flow \in [Kind -> UNION {FlowChoice[k] : k \in Kind}]
    /\ \A k \in Kind : flow[k] \in FlowChoice[k]
    /\ secondary \in [Record -> BOOLEAN]
    /\ status \in [Record -> [Kind -> Status]]
    /\ off \in [Record -> BOOLEAN]
    /\ permitted \in [Record -> Group \cup {EMPTY}]
    /\ reminder \in [Record -> Group \cup {EMPTY, NoReminder}]
    /\ signed \in [Record -> SUBSET Option]
    /\ bypassed \in [Record -> BOOLEAN]
    /\ reflowed \in [Record -> BOOLEAN]
    /\ overridden \in [Record -> BOOLEAN]

\* The stored column xml_id, the only thing user checks read, is the group of
\* the level the record is at, whatever flow it was switched to; for a decided
\* record it is the last group, unless the flow was edited under the record.
PermittedIsCurrent ==
    \A r \in Record :
        \/ Decided(r) /\ reflowed[r]
        \/ permitted[r] = GroupOfStatus(StatusOf(r), FlowOf(r))

\* What has been signed when a record of flow f has status s.
SignedUpTo(f, s, sig) ==
    /\ \A i \in 1..Len(f) : s = f[i] => sig = Below(f, i)
    /\ s = REJECTED => sig = Below(f, Len(f))
    /\ s = APPROVED => sig = Levels(f)
    /\ s = NoStatus => sig = {}

\* The signatures of a record mean something: its main flow is active and since
\* it last started at the bottom no check was bypassed, no level was edited and
\* no administrator wrote over a null status.
Trusted(r) == ~secondary[r] /\ ~bypassed[r] /\ ~reflowed[r] /\ ~overridden[r]

\* A trusted record has been signed, at exactly the levels below the one it is
\* at, by someone of that level's group since it last started.
SignedSoFar ==
    \A r \in Record :
        Trusted(r) => SignedUpTo(flow["main"], status[r]["main"], signed[r])

\* Status s has a place in flow f, or is null.
HasPlace(s, f) == s \in Levels(f) \/ (s \in Final /\ f # <<>>) \/ s = NoStatus

\* A record's status has a place in its flow, until that flow is edited.
StatusInFlow == \A r \in Record : reflowed[r] \/ HasPlace(StatusOf(r), FlowOf(r))

\* The inductive invariant: signatures can be trusted because the group the
\* checks read is the current one and the status has a place in the flow.
IInv == TypeOK /\ PermittedIsCurrent /\ StatusInFlow /\ SignedSoFar

\* A record that is approved in the main flow, with the checks on and under one
\* flow, carries a signature of every level: no sequence of proposals, returns,
\* rejections, reopenings and list edits by users skips one.  The only way
\* around is an administrator's: anyone at a level may erase the status, after
\* which nothing is validated but nobody else may write it.
ApprovalIsFullySigned ==
    \A r \in Record :
        Trusted(r) /\ status[r]["main"] = APPROVED
        => Levels(flow["main"]) \subseteq signed[r]

\* How many levels of flow f a record of status s has been signed past.
HeightOf(f, s) ==
    IF s \in Levels(f) THEN Index(f, s) - 1
    ELSE IF s = APPROVED THEN Len(f)
    ELSE IF s = REJECTED THEN Len(f) - 1 ELSE 0

Height(r) == HeightOf(flow["main"], status[r]["main"])

Contract == INSTANCE Ladder WITH
    Document <- Record,
    rungs <- flow["main"],
    height <- [r \in Record |-> Height(r)],
    endorsed <- signed,
    trusted <- [r \in Record |-> Trusted(r)]

\* The engine, with its buttons, list edits, restarts, overrides, switches and
\* edited flows, keeps the contract of a sign-off: no step of a trusted record
\* climbs more than one level, or climbs it without that level's signature.
KeepsContract == Contract!Spec

\* A write that moves r may stop before its reminder: r is off, or a record
\* that is off has r's new value in the same field, as it does after a write of
\* both in one call.
MayStop(r) == \E q \in Record : off[q] /\ status'[q][Active(r)'] = StatusOf(r)'

\* A record whose status a step changes has after it a reminder for exactly its
\* new approver, and none once it is decided, unless a record that is off was
\* written with it: the cron row never survives for an earlier level's approver.
ReminderFollowsStatus ==
    LET moved == {r \in Record : StatusOf(r)' # StatusOf(r)} IN
    \A r \in moved :
        \/ MayStop(r)
        \/ reminder'[r] = IF Decided(r)' THEN NoReminder
                          ELSE GroupOfStatus(StatusOf(r)', FlowOf(r)')

ReminderNeverStale == [][ReminderFollowsStatus]_vars

\* approval_status.py, not_allow_user_to_propose_more_than_1_level(): a user
\* may not propose a change that spans more than one approval level.  Only
\* users move a record up to another level, so it rises one level at a time.
RisesOneLevel ==
    \A r \in Record :
        LET f == FlowOf(r) IN
        /\ flow' = flow /\ secondary'[r] = secondary[r]
        /\ StatusOf(r) \in Levels(f) /\ StatusOf(r)' \in Levels(f)
        => Index(f, StatusOf(r)') <= Index(f, StatusOf(r)) + 1

ProposesOneLevelAtATime == [][RisesOneLevel]_vars
=============================================================================
