--------------------------- MODULE Approval_proofs ---------------------------
(***************************************************************************)
(* Theorems about the approval engine, for every set of records, users and *)
(* groups and every choice of flows.                                       *)
(***************************************************************************)
EXTENDS Approval, TLAPS

(* The options of a flow: each has exactly one position, and the first and *)
(* last exist unless it is empty.                                          *)
LEMMA FlowFacts ==
    ASSUME NEW k \in Kind, NEW f \in FlowChoice[k]
    PROVE  /\ Len(f) \in Nat
           /\ f = <<>> <=> Len(f) = 0
           /\ \A i \in 1..Len(f) : f[i] \in Option
           /\ f # <<>> => First(f) \in Levels(f) /\ Last(f) \in Levels(f)
           /\ Levels(f) \subseteq Option
           /\ \A o \in Levels(f) : Index(f, o) \in 1..Len(f) /\ f[Index(f, o)] = o
           /\ \A i \in 1..Len(f) : Index(f, f[i]) = i
           /\ First(f) \in Status
<1>1. f \in Seq(Option) /\ \A i, j \in 1..Len(f) : f[i] = f[j] => i = j
  BY FlowAssumption DEF IsFlow
<1>2. Len(f) \in Nat /\ (f = <<>> <=> Len(f) = 0)
  BY <1>1
<1>3. \A i \in 1..Len(f) : f[i] \in Option
  BY <1>1
<1>4. f # <<>> => First(f) \in Levels(f) /\ Last(f) \in Levels(f)
  BY <1>2 DEF First, Last, Levels
<1>5. Levels(f) \subseteq Option
  BY <1>3 DEF Levels
<1>6. \A o \in Levels(f) : Index(f, o) \in 1..Len(f) /\ f[Index(f, o)] = o
  <2> TAKE o \in Levels(f)
  <2>1. \E i \in 1..Len(f) : f[i] = o
    BY DEF Levels
  <2> QED BY <2>1 DEF Index
<1>7. \A i \in 1..Len(f) : Index(f, f[i]) = i
  BY <1>1, <1>6 DEF Levels
<1>8. First(f) \in Status
  BY <1>2, <1>3 DEF First, Status
<1> QED BY <1>2, <1>3, <1>4, <1>5, <1>6, <1>7, <1>8

(* A status of a record of a configured flow has a group.                  *)
LEMMA GroupFacts ==
    ASSUME NEW k \in Kind, NEW f \in FlowChoice[k], NEW s \in Status,
           s \in Final => f # <<>>
    PROVE  GroupOfStatus(s, f) \in Group \cup {EMPTY}
BY FlowFacts, ConstantsAssumption DEF GroupOfStatus, Status

(* The first level of each flow occurs in it once, and is no final status. *)
LEMMA FirstFacts ==
    ASSUME TypeOK, NEW k \in Kind
    PROVE  /\ First(flow[k]) \in Status /\ First(flow[k]) \notin Final
           /\ HasPlace(First(flow[k]), flow[k])
           /\ \A i \in 1..Len(flow[k]) : flow[k][i] = First(flow[k]) => i = 1
<1> DEFINE f == flow[k]
<1>1. f \in FlowChoice[k]
  BY DEF TypeOK
<1>2. /\ Len(f) \in Nat /\ (f = <<>> <=> Len(f) = 0)
      /\ f # <<>> => First(f) \in Levels(f)
      /\ Levels(f) \subseteq Option
      /\ \A i \in 1..Len(f) : Index(f, f[i]) = i
      /\ First(f) \in Status
  BY <1>1, FlowFacts
<1>3. CASE f = <<>>
  BY <1>2, <1>3, ConstantsAssumption DEF First, Final, HasPlace
<1>4. CASE f # <<>>
  <2>1. First(f) = f[1] /\ 1 \in 1..Len(f)
    BY <1>2, <1>4 DEF First
  <2>2. \A i \in 1..Len(f) : f[i] = f[1] => i = 1
    BY <1>2, <2>1
  <2>3. First(f) \notin Final
    BY <1>2, <1>4, ConstantsAssumption DEF Final
  <2> QED BY <1>2, <1>4, <2>1, <2>2, <2>3 DEF HasPlace
<1> QED BY <1>3, <1>4

(* What an accepted write of the status fields preserves of the types.     *)
LEMMA StoreStatusType ==
    ASSUME TypeOK, NEW b,
           NEW newSec \in [Record -> BOOLEAN],
           NEW newStatus \in [Record -> [Kind -> Status]],
           StoreStatus(b, newSec, newStatus)
    PROVE  /\ flow' = flow
           /\ secondary' \in [Record -> BOOLEAN]
           /\ status' \in [Record -> [Kind -> Status]]
           /\ off' \in [Record -> BOOLEAN]
           /\ permitted' \in [Record -> Group \cup {EMPTY}]
           /\ reminder' \in [Record -> Group \cup {EMPTY, NoReminder}]
<1>1. \A r \in Record : KindOf(newSec[r]) \in Kind
  BY DEF KindOf, Kind
<1>2. \A r \in Levels(b) \cap Record :
        GroupOfStatus(newStatus[r][KindOf(newSec[r])], flow[KindOf(newSec[r])])
            \in Group \cup {EMPTY}
  BY <1>1, GroupFacts DEF TypeOK, StoreStatus
<1>3. permitted' \in [Record -> Group \cup {EMPTY}]
  BY <1>2 DEF StoreStatus, TypeOK
<1>4. reminder' \in [Record -> Group \cup {EMPTY, NoReminder}]
  <2>1. Notified(b) \subseteq Levels(b)
    BY DEF Notified, Levels
  <2> QED BY <1>2, <2>1 DEF StoreStatus, TypeOK
<1> QED BY <1>3, <1>4 DEF StoreStatus, TypeOK

(* Where a record stands, in its active flow.                              *)
LEMMA ActiveFacts ==
    ASSUME TypeOK, NEW r \in Record
    PROVE  /\ Active(r) \in Kind
           /\ FlowOf(r) \in FlowChoice[Active(r)]
           /\ StatusOf(r) \in Status
<1>1. Active(r) \in Kind
  BY DEF Active, KindOf, Kind
<1> QED BY <1>1 DEF FlowOf, StatusOf, TypeOK

(* Every operation of a user on the status is one accepted write.          *)
LEMMA UserSteps ==
    ASSUME TypeOK, NEW u \in User, NEW r \in Record,
           Propose(u, r) \/ Unpropose(u, r) \/ Approve(u, r) \/ Reject(u, r)
    PROVE  \E v \in Status : WriteStatus(u, <<r>>, Active(r), v)
<1> DEFINE f == FlowOf(r)
<1>1. f \in FlowChoice[Active(r)] /\ Active(r) \in Kind /\ f = flow[Active(r)]
  BY ActiveFacts DEF FlowOf
<1>2. /\ Len(f) \in Nat
      /\ \A i \in 1..Len(f) : f[i] \in Option
      /\ \A o \in Levels(f) : Index(f, o) \in 1..Len(f) /\ f[Index(f, o)] = o
  BY <1>1, FlowFacts
<1>3. CASE Propose(u, r)
  <2>1. StatusOf(r) \in Levels(f) /\ StatusOf(r) # f[Len(f)]
    BY <1>3 DEF Propose, Last
  <2>2. Index(f, StatusOf(r)) + 1 \in 1..Len(f)
    BY <2>1, <1>2
  <2>3. f[Index(f, StatusOf(r)) + 1] \in Status
    BY <2>2, <1>2 DEF Status
  <2> QED BY <2>3, <1>3 DEF Propose, SetStatus
<1>4. CASE Unpropose(u, r)
  <2>1. CASE SetStatus(u, r, IF Len(f) >= 2 THEN f[Len(f) - 1] ELSE NoStatus)
    <3>1. Len(f) >= 2 => Len(f) - 1 \in 1..Len(f)
      BY <1>2
    <3>2. (IF Len(f) >= 2 THEN f[Len(f) - 1] ELSE NoStatus) \in Status
      BY <3>1, <1>2 DEF Status
    <3> QED BY <2>1, <3>2 DEF SetStatus
  <2>2. CASE /\ StatusOf(r) \in Levels(f)
             /\ StatusOf(r) # First(f)
             /\ SetStatus(u, r, f[Index(f, StatusOf(r)) - 1])
    <3>1. Index(f, StatusOf(r)) - 1 \in 1..Len(f)
      <4>1. Len(f) # 0
        BY <2>2, <1>2
      <4>2. f # <<>>
        BY <4>1
      <4> QED BY <2>2, <1>2, <4>2 DEF First
    <3>2. f[Index(f, StatusOf(r)) - 1] \in Status
      BY <3>1, <1>2 DEF Status
    <3> QED BY <2>2, <3>2 DEF SetStatus
  <2> QED BY <1>4, <2>1, <2>2 DEF Unpropose
<1>5. CASE Approve(u, r) \/ Reject(u, r)
  BY <1>5 DEF Approve, Reject, SetStatus, Status, Final
<1> QED BY <1>3, <1>4, <1>5

(* The two operations that decide a record with the checks bypassed.       *)
LEMMA OverrideSteps ==
    ASSUME NEW r \in Record, SudoApprove(r) \/ GetApprovalStatus(r)
    PROVE  \E v \in Final : Decide(r, v)
BY DEF SudoApprove, GetApprovalStatus, Final

(* The signatures recorded for a move are options of the flow.             *)
LEMMA SignaturesType ==
    ASSUME TypeOK, NEW u \in User, NEW r \in Record, NEW v \in Status,
           v = NoStatus \/ FlowOf(r) # <<>>
    PROVE  Signatures(u, r, v) \in SUBSET Option
<1> DEFINE f == FlowOf(r)
<1>1. f \in FlowChoice[Active(r)] /\ Active(r) \in Kind
  BY ActiveFacts
<1>2. (f # <<>> => Last(f) \in Levels(f)) /\ Levels(f) \subseteq Option
  BY <1>1, FlowFacts
<1>3. signed[r] \in SUBSET Option
  BY DEF TypeOK
<1>4. \A o \in Option : Signature(u, o) \in SUBSET Option
  BY DEF Signature
<1> QED BY <1>2, <1>3, <1>4 DEF Signatures

(* The engine starts with well-typed rows.                                 *)
LEMMA InitType ==
    ASSUME Init
    PROVE  TypeOK
<1>1. \A k \in Kind : flow[k] \in FlowChoice[k]
  BY DEF Init
<1>2. \A k \in Kind : First(flow[k]) \in Status
  BY <1>1, FlowFacts
<1>3. GroupOfStatus(First(flow["main"]), flow["main"]) \in Group \cup {EMPTY}
  <2>1. First(flow["main"]) \in Final => flow["main"] # <<>>
    BY ConstantsAssumption DEF First, Final
  <2> QED BY <1>1, <1>2, <2>1, GroupFacts DEF Kind
<1> QED BY <1>1, <1>2, <1>3 DEF Init, TypeOK

(* No operation breaks the types.                                          *)
LEMMA TypeStep ==
    ASSUME TypeOK, [Next]_vars
    PROVE  TypeOK'
<1>1. ASSUME NEW u \in User, NEW b, NEW k \in Kind, NEW v \in Status,
             WriteStatus(u, b, k, v)
      PROVE  TypeOK'
  <2> DEFINE new == [r \in Record |-> IF r \in Levels(b)
                                      THEN [status[r] EXCEPT ![k] = v]
                                      ELSE status[r]]
  <2>1. StoreStatus(b, secondary, new)
    BY <1>1 DEF WriteStatus
  <2>2. new \in [Record -> [Kind -> Status]] /\ secondary \in [Record -> BOOLEAN]
    BY DEF TypeOK
  <2>3. signed' \in [Record -> SUBSET Option]
    <3>1. ASSUME NEW r \in Levels(b) \cap Record, Active(r) = k
          PROVE  v = NoStatus \/ FlowOf(r) # <<>>
      <4>1. CASE v \in Final
        <5>1. new[r][KindOf(secondary[r])] = v
          BY <3>1 DEF Active, TypeOK
        <5> QED BY <2>1, <3>1, <4>1, <5>1 DEF StoreStatus, FlowOf, Active
      <4>2. CASE v \in Levels(flow[k])
        <5>1. Levels(<<>>) = {}
          BY DEF Levels
        <5> QED BY <3>1, <4>2, <5>1 DEF FlowOf
      <4> QED BY <1>1, <4>1, <4>2 DEF WriteStatus
    <3>2. \A r \in Record : r \in Levels(b) /\ Active(r) = k =>
              Signatures(u, r, v) \in SUBSET Option
      BY <3>1, SignaturesType
    <3> QED BY <1>1, <3>2 DEF WriteStatus, TypeOK
  <2> QED BY <1>1, <2>1, <2>2, <2>3, StoreStatusType DEF WriteStatus, TypeOK
<1>2. ASSUME NEW u \in User, NEW r \in Record, NEW b \in BOOLEAN, SetOff(u, r, b)
      PROVE  TypeOK'
  BY <1>2 DEF SetOff, TypeOK, ghosts
<1>3. ASSUME NEW r \in Record, RestartFlow(r)
      PROVE  TypeOK'
  <2> DEFINE new == [status EXCEPT ![r][Active(r)] = First(FlowOf(r))]
  <2>1. First(FlowOf(r)) \in Status /\ Active(r) \in Kind
    BY ActiveFacts, FlowFacts
  <2>2. new \in [Record -> [Kind -> Status]] /\ secondary \in [Record -> BOOLEAN]
    BY <2>1 DEF TypeOK
  <2>3. StoreStatus(<<r>>, secondary, new)
    BY <1>3 DEF RestartFlow
  <2> QED BY <1>3, <2>2, <2>3, StoreStatusType DEF RestartFlow, Forget, TypeOK
<1>4. ASSUME NEW r \in Record, NEW v \in Final, Decide(r, v)
      PROVE  TypeOK'
  <2> DEFINE new == [status EXCEPT ![r][Active(r)] = v]
  <2>1. new \in [Record -> [Kind -> Status]] /\ secondary \in [Record -> BOOLEAN]
    BY ActiveFacts DEF TypeOK, Status
  <2>2. StoreStatus(<<r>>, secondary, new)
    BY <1>4 DEF Decide
  <2> QED BY <1>4, <2>1, <2>2, StoreStatusType DEF Decide, TypeOK
<1>5. ASSUME NEW r \in Record, NEW sec \in BOOLEAN, SwitchTo(r, sec)
      PROVE  TypeOK'
  <2> DEFINE new == [status EXCEPT ![r] = [k \in Kind |-> First(flow[k])]]
  <2>1. \A k \in Kind : First(flow[k]) \in Status
    BY FlowFacts DEF TypeOK
  <2>2. new \in [Record -> [Kind -> Status]]
    BY <2>1 DEF TypeOK
  <2>3. [secondary EXCEPT ![r] = sec] \in [Record -> BOOLEAN]
    BY DEF TypeOK
  <2>4. StoreStatus(<<r>>, [secondary EXCEPT ![r] = sec], new)
    BY <1>5 DEF SwitchTo
  <2> QED BY <1>5, <2>2, <2>3, <2>4, StoreStatusType DEF SwitchTo, Forget, TypeOK
<1>6. ASSUME NEW k \in Kind, NEW f \in FlowChoice[k], EditFlow(k, f)
      PROVE  TypeOK'
  BY <1>6 DEF EditFlow, TypeOK
<1>7. CASE UNCHANGED vars
  BY <1>7 DEF vars, TypeOK
<1>8. ASSUME NEW u \in User, NEW r \in Record,
             Propose(u, r) \/ Unpropose(u, r) \/ Approve(u, r) \/ Reject(u, r)
      PROVE  TypeOK'
  BY <1>8, <1>1, UserSteps, ActiveFacts
<1>9. ASSUME NEW r \in Record, SudoApprove(r) \/ GetApprovalStatus(r)
      PROVE  TypeOK'
  BY <1>9, <1>4, OverrideSteps
<1> QED BY <1>1, <1>2, <1>3, <1>5, <1>6, <1>7, <1>8, <1>9 DEF Next

(* In every behaviour of the engine the rows keep their types: in particular *)
(* the group a record shows is always a group of its flow.                  *)
THEOREM TypeInvariance == Spec => []TypeOK
<1>1. Init => TypeOK
  BY InitType
<1>2. TypeOK /\ [Next]_vars => TypeOK'
  BY TypeStep
<1> QED BY <1>1, <1>2, PTL DEF Spec

-----------------------------------------------------------------------------
(* Every operation that stores a status stores the group that goes with it *)
(* and leaves the records it is not called on alone.                       *)
LEMMA StoreStatusPermitted ==
    ASSUME TypeOK, PermittedIsCurrent, NEW b,
           NEW newSec \in [Record -> BOOLEAN],
           NEW newStatus \in [Record -> [Kind -> Status]],
           \A r \in Record \ Levels(b) :
                /\ newStatus[r] = status[r] /\ newSec[r] = secondary[r]
                /\ reflowed'[r] = reflowed[r],
           StoreStatus(b, newSec, newStatus)
    PROVE  PermittedIsCurrent'
<1> SUFFICES ASSUME NEW r \in Record
             PROVE  \/ (Decided(r) /\ reflowed[r])'
                    \/ permitted'[r] = GroupOfStatus(StatusOf(r)', FlowOf(r)')
  BY DEF PermittedIsCurrent, GroupOfStatus
<1>1. /\ StatusOf(r)' = newStatus[r][KindOf(newSec[r])]
      /\ FlowOf(r)' = flow[KindOf(newSec[r])]
  BY DEF StoreStatus, StatusOf, FlowOf, Active, KindOf
<1>2. CASE r \in Levels(b)
  BY <1>1, <1>2 DEF StoreStatus
<1>3. CASE r \notin Levels(b)
  <2>1. StatusOf(r)' = StatusOf(r) /\ FlowOf(r)' = FlowOf(r)
    BY <1>1, <1>3 DEF StatusOf, FlowOf, Active
  <2>2. permitted'[r] = permitted[r] /\ reflowed'[r] = reflowed[r]
    BY <1>3 DEF StoreStatus
  <2> QED BY <2>1, <2>2 DEF PermittedIsCurrent, Decided
<1> QED BY <1>2, <1>3

(* Nobody but an administrator may write over a null status.               *)
LEMMA OnlyAdminOverrides ==
    ASSUME PermittedIsCurrent, NEW u \in User \ Admin, NEW r \in Record, MayAct(u, r)
    PROVE  StatusOf(r) # NoStatus
<1> SUFFICES ASSUME StatusOf(r) = NoStatus PROVE FALSE
  OBVIOUS
<1>1. permitted[r] = EMPTY
  BY ConstantsAssumption DEF PermittedIsCurrent, Decided, Final, GroupOfStatus
<1> QED BY <1>1, ConstantsAssumption DEF MayAct

(* The effect of a user's write on the one trusted record r: v is          *)
(* justified by what has been signed.                                      *)
LEMMA MainMoveIsSigned ==
    ASSUME IInv, NEW u \in User, NEW r \in Record, NEW v \in Status,
           Trusted(r), StatusOf(r) # NoStatus,
           v \in Levels(flow["main"]) \cup Final \cup {NoStatus},
           v \in Final => flow["main"] # <<>>,
           ValidMove(r, "main", v), MayAct(u, r)
    PROVE  SignedUpTo(flow["main"], v, Signatures(u, r, v))
<1> DEFINE f == flow["main"]
           n == Len(f)
           old == status[r]["main"]
           acted == IF old \in Levels(f) THEN old ELSE Last(f)
<1>0. Option \cap Final = {} /\ NoStatus \notin Option \cup Final
  BY ConstantsAssumption DEF Final
<1>1. f \in FlowChoice["main"] /\ "main" \in Kind
  BY DEF IInv, TypeOK, Kind
<1>a. /\ n \in Nat /\ (f = <<>> <=> n = 0)
      /\ \A i \in 1..n : f[i] \in Option
      /\ f # <<>> => Last(f) \in Levels(f)
      /\ Levels(f) \subseteq Option
      /\ \A o \in Levels(f) : Index(f, o) \in 1..n /\ f[Index(f, o)] = o
      /\ \A i \in 1..n : Index(f, f[i]) = i
  BY <1>1, FlowFacts
<1>b. CASE v = NoStatus
  <2>1. Signatures(u, r, v) = {}
    BY <1>b DEF Signatures
  <2> QED BY <1>b, <2>1, <1>0, <1>a DEF SignedUpTo, Final
<1>c. SUFFICES ASSUME v # NoStatus
               PROVE  SignedUpTo(f, v, Signatures(u, r, v))
  BY <1>b
<1>d. f # <<>>
  <2>1. Levels(<<>>) = {}
    BY DEF Levels
  <2> QED BY <1>c, <2>1
<1>2. /\ n \in Nat \ {0}
      /\ \A i \in 1..n : f[i] \in Option
      /\ Last(f) \in Levels(f)
      /\ Levels(f) \subseteq Option
      /\ \A o \in Levels(f) : Index(f, o) \in 1..n /\ f[Index(f, o)] = o
      /\ \A i \in 1..n : Index(f, f[i]) = i
  BY <1>a, <1>d
<1>3. FlowOf(r) = f /\ StatusOf(r) = old
  BY DEF FlowOf, StatusOf, Active, KindOf, Trusted
<1>4. old \in Levels(f) \cup Final
  BY <1>3 DEF IInv, StatusInFlow, HasPlace, Trusted
<1>5. f[n] = Last(f) /\ Last(f) \notin Below(f, n)
  BY SMTT(30), <1>2 DEF Below, Last
<1>6. permitted[r] = GroupOf[acted]
  <2>1. permitted[r] = GroupOfStatus(old, f)
    BY <1>3 DEF IInv, PermittedIsCurrent, Trusted
  <2> QED BY <2>1, <1>2, <1>4, <1>0 DEF GroupOfStatus
<1>7. Signature(u, acted) = {acted}
  BY <1>6 DEF Signature, MayAct
<1>8. SignedUpTo(f, old, signed[r])
  BY DEF IInv, SignedSoFar
<1>9. Levels(f) = Below(f, n) \cup {Last(f)}
  BY <1>2 DEF Levels, Below, Last
<1>10. /\ v \in Levels(f) /\ old \in Levels(f) =>
             Index(f, v) <= Index(f, old) + 1
       /\ v \in Final /\ old \in Levels(f) => old = Last(f)
  BY <1>2, <1>3 DEF ValidMove
<1>11. CASE v \in Levels(f)
  <2> DEFINE i == Index(f, v)
  <2>1. i \in 1..n /\ f[i] = v
    BY <1>11, <1>2
  <2>2. v # APPROVED /\ v # REJECTED
    BY <1>11, <1>2, <1>0 DEF Final
  <2>3. Below(f, i) \subseteq signed[r] \cup {acted}
    <3>1. CASE old \in Levels(f)
      <4> DEFINE m == Index(f, old)
      <4>1. m \in 1..n /\ f[m] = old /\ i <= m + 1
        BY <3>1, <1>2, <1>10, <1>11
      <4>2. Below(f, m) \subseteq signed[r]
        BY <4>1, <1>8 DEF SignedUpTo
      <4>3. Below(f, i) \subseteq Below(f, m) \cup {f[m]}
        BY <4>1, <2>1 DEF Below
      <4> QED BY <3>1, <4>1, <4>2, <4>3
    <3>2. CASE old \in Final
      <4>1. Below(f, n) \subseteq signed[r]
        BY <3>2, <1>8, <1>9 DEF SignedUpTo, Final
      <4>2. acted = Last(f)
        BY <3>2, <1>2, <1>0
      <4>3. Below(f, i) \subseteq Levels(f)
        BY <2>1, <1>2 DEF Below, Levels
      <4> QED BY <4>1, <4>2, <4>3, <1>9
    <3> QED BY <3>1, <3>2, <1>4
  <2>4. Signatures(u, r, v) = (signed[r] \cup {acted}) \cap Below(f, i)
    BY <2>2, <1>3, <1>7, <1>c DEF Signatures
  <2>5. \A j \in 1..n : v = f[j] => j = i
    BY <1>2
  <2>6. Signatures(u, r, v) = Below(f, i)
    BY <2>3, <2>4
  <2> QED BY <2>2, <2>5, <2>6, <1>c DEF SignedUpTo
<1>12. CASE v \in Final
  <2>1. \A i \in 1..n : v # f[i]
    BY <1>12, <1>2, <1>0
  <2>2. Below(f, n) \subseteq signed[r] /\ signed[r] \subseteq Levels(f)
    <3>1. CASE old \in Levels(f)
      <4>1. old = f[n] /\ n \in 1..n
        BY <3>1, <1>10, <1>12, <1>2 DEF Last
      <4> QED BY <4>1, <1>8, <1>9 DEF SignedUpTo
    <3>2. CASE old \in Final
      BY <3>2, <1>8, <1>9 DEF SignedUpTo, Final
    <3> QED BY <3>1, <3>2, <1>4
  <2>3. acted = Last(f)
    BY <1>10, <1>12, <1>4
  <2>4. CASE v = REJECTED
    <3>1. Signatures(u, r, v) = signed[r] \cap Below(f, n) /\ v # APPROVED
      BY <1>3, <1>c, <2>4, ConstantsAssumption DEF Signatures
    <3>2. Signatures(u, r, v) = Below(f, n)
      BY <2>2, <3>1
    <3> QED BY <1>c, <2>4, <3>1, <3>2, <2>1 DEF SignedUpTo
  <2>5. CASE v = APPROVED
    <3>1. v # REJECTED
      BY <2>5, ConstantsAssumption
    <3>2. Signatures(u, r, v) = signed[r] \cup {Last(f)}
      BY <1>c, <2>3, <2>5, <3>1, <1>3, <1>7 DEF Signatures
    <3>3. Signatures(u, r, v) = Levels(f)
      BY <3>2, <2>2, <1>9
    <3> QED BY <1>c, <2>5, <3>1, <3>3, <2>1 DEF SignedUpTo
  <2> QED BY <2>4, <2>5, <1>12 DEF Final
<1> QED BY <1>11, <1>12, <1>c

(* A write by a user preserves the inductive invariant.                    *)
LEMMA WriteStatusInductive ==
    ASSUME IInv, TypeOK', NEW u \in User, NEW b, NEW k \in Kind, NEW v \in Status,
           WriteStatus(u, b, k, v)
    PROVE  IInv'
<1> DEFINE new == [r \in Record |-> IF r \in Levels(b)
                                    THEN [status[r] EXCEPT ![k] = v]
                                    ELSE status[r]]
<1>1. /\ StoreStatus(b, secondary, new)
      /\ new \in [Record -> [Kind -> Status]]
      /\ secondary \in [Record -> BOOLEAN]
  BY DEF WriteStatus, IInv, TypeOK
<1>2. /\ UNCHANGED <<flow, secondary, bypassed, reflowed>>
      /\ status' = new
  BY DEF WriteStatus, StoreStatus
<1>3. PermittedIsCurrent'
  BY <1>1, <1>2, StoreStatusPermitted DEF IInv
<1>4. \A r \in Record : FlowOf(r)' = FlowOf(r) /\ Active(r)' = Active(r)
                        /\ StatusOf(r)' = new[r][Active(r)]
  BY <1>2 DEF FlowOf, StatusOf, Active
<1>5. StatusInFlow'
  <2> SUFFICES ASSUME NEW r \in Record, ~reflowed[r]
               PROVE  HasPlace(StatusOf(r)', FlowOf(r)')
    BY <1>2 DEF StatusInFlow, HasPlace, Levels
  <2>1. HasPlace(StatusOf(r), FlowOf(r))
    BY DEF IInv, StatusInFlow
  <2>2. CASE r \in Levels(b) /\ Active(r) = k
    <3>1. StatusOf(r)' = v /\ FlowOf(r)' = flow[k] /\ FlowOf(r) = flow[k]
      BY <1>4, <2>2 DEF FlowOf, IInv, TypeOK
    <3>2. v \in Levels(flow[k]) \cup Final \cup {NoStatus}
      BY DEF WriteStatus
    <3>3. v \in Final => flow[k] # <<>>
      BY <1>1, <1>2, <2>2, <3>1 DEF StoreStatus, Active, StatusOf
    <3> QED BY <3>1, <3>2, <3>3 DEF HasPlace
  <2>3. CASE ~(r \in Levels(b) /\ Active(r) = k)
    <3>1. StatusOf(r)' = StatusOf(r) /\ FlowOf(r)' = FlowOf(r)
      BY <1>4, <2>3 DEF StatusOf, IInv, TypeOK
    <3> QED BY <2>1, <3>1
  <2> QED BY <2>2, <2>3
<1>6. SignedSoFar'
  <2> SUFFICES ASSUME NEW r \in Record, Trusted(r)'
               PROVE  SignedUpTo(flow["main"], new[r]["main"], signed'[r])
    BY <1>2 DEF SignedSoFar, SignedUpTo
  <2>1. Active(r) = "main" /\ "main" \in Kind
    BY <1>2 DEF Trusted, Active, KindOf, Kind
  <2>2. signed'[r] = IF r \in Levels(b) /\ Active(r) = k
                     THEN Signatures(u, r, v) ELSE signed[r]
    BY DEF WriteStatus
  <2>3. /\ Trusted(r)
        /\ r \in Levels(b) /\ Active(r) = k => StatusOf(r) # NoStatus \/ u \notin Admin
    BY <1>2 DEF Trusted, WriteStatus
  <2>4. CASE r \in Levels(b) /\ k = "main"
    <3>1. /\ v \in Levels(flow["main"]) \cup Final \cup {NoStatus}
          /\ ValidMove(r, "main", v) /\ MayAct(u, r)
      BY <2>4 DEF WriteStatus
    <3>2. new[r]["main"] = v
      BY <2>4 DEF IInv, TypeOK
    <3>3. v \in Final => flow["main"] # <<>>
      BY <1>1, <2>1, <2>4, <3>2 DEF StoreStatus, Active
    <3>4. StatusOf(r) # NoStatus
      BY <2>1, <2>3, <2>4, <3>1, OnlyAdminOverrides DEF IInv
    <3> QED BY <2>1, <2>2, <2>3, <2>4, <3>1, <3>2, <3>3, <3>4, MainMoveIsSigned
  <2>5. CASE ~(r \in Levels(b) /\ k = "main")
    <3>1. new[r]["main"] = status[r]["main"]
      BY <2>5 DEF IInv, TypeOK
    <3>2. signed'[r] = signed[r]
      BY <2>1, <2>2, <2>5
    <3> QED BY <2>3, <3>1, <3>2 DEF IInv, SignedSoFar
  <2> QED BY <2>4, <2>5
<1> QED BY <1>3, <1>5, <1>6 DEF IInv

(* So does an operation of the program that puts the one record r at the   *)
(* bottom of its flow, or decides it with the checks bypassed.             *)
LEMMA SystemStepInductive ==
    ASSUME IInv, TypeOK', NEW r \in Record,
           \/ RestartFlow(r)
           \/ \E v \in Final : Decide(r, v)
           \/ \E sec \in BOOLEAN : SwitchTo(r, sec)
    PROVE  IInv'
<1>1. \A k \in Kind : /\ First(flow[k]) \in Status /\ First(flow[k]) \notin Final
                      /\ HasPlace(First(flow[k]), flow[k])
                      /\ \A i \in 1..Len(flow[k]) : flow[k][i] = First(flow[k]) => i = 1
  BY FirstFacts DEF IInv
<1>2. Active(r) \in Kind /\ "main" \in Kind
  BY DEF Active, KindOf, Kind
<1>3. Option \cap Final = {}
  BY ConstantsAssumption DEF Final
<1>4. \A q \in Record \ {r} :
          /\ secondary'[q] = secondary[q] /\ status'[q] = status[q]
          /\ signed'[q] = signed[q]
          /\ bypassed'[q] = bypassed[q] /\ reflowed'[q] = reflowed[q]
          /\ overridden'[q] = overridden[q]
  BY SMTT(30) DEF RestartFlow, Decide, SwitchTo, Forget, StoreStatus, IInv, TypeOK
<1>5. flow' = flow
  BY DEF RestartFlow, Decide, SwitchTo, StoreStatus
<1>6. Levels(<<r>>) = {r}
  BY DEF Levels
<1>7. PermittedIsCurrent'
  <2>1. ASSUME NEW newSec \in [Record -> BOOLEAN],
               NEW newStatus \in [Record -> [Kind -> Status]],
               StoreStatus(<<r>>, newSec, newStatus)
        PROVE  PermittedIsCurrent'
    <3>1. secondary' = newSec /\ status' = newStatus
      BY <2>1 DEF StoreStatus
    <3>2. \A q \in Record \ Levels(<<r>>) :
              /\ newStatus[q] = status[q] /\ newSec[q] = secondary[q]
              /\ reflowed'[q] = reflowed[q]
      BY <3>1, <1>4, <1>6
    <3> QED BY <2>1, <3>2, StoreStatusPermitted DEF IInv
  <2>2. secondary \in [Record -> BOOLEAN]
    BY DEF IInv, TypeOK
  <2>3. ASSUME NEW s \in Status
        PROVE  [status EXCEPT ![r][Active(r)] = s] \in [Record -> [Kind -> Status]]
    BY <1>2 DEF IInv, TypeOK
  <2>4. CASE RestartFlow(r)
    <3>1. First(FlowOf(r)) \in Status
      BY <1>1, <1>2 DEF FlowOf
    <3> QED BY <2>1, <2>2, <2>3, <2>4, <3>1 DEF RestartFlow
  <2>5. ASSUME NEW v \in Final, Decide(r, v)
        PROVE  PermittedIsCurrent'
    <3>1. v \in Status
      BY DEF Status
    <3> QED BY <2>1, <2>2, <2>3, <2>5, <3>1 DEF Decide
  <2>6. ASSUME NEW sec \in BOOLEAN, SwitchTo(r, sec)
        PROVE  PermittedIsCurrent'
    <3> DEFINE newSec == [secondary EXCEPT ![r] = sec]
               newStatus == [status EXCEPT ![r] = [k \in Kind |-> First(flow[k])]]
    <3>1. newSec \in [Record -> BOOLEAN]
      BY DEF IInv, TypeOK
    <3>2. newStatus \in [Record -> [Kind -> Status]]
      BY <1>1 DEF IInv, TypeOK
    <3>3. StoreStatus(<<r>>, newSec, newStatus)
      BY <2>6 DEF SwitchTo
    <3> QED BY <2>1, <3>1, <3>2, <3>3
  <2> QED BY <2>4, <2>5, <2>6
<1>8. FlowOf(r)' \in {flow[k] : k \in Kind}
  BY <1>5 DEF FlowOf, Active, KindOf, Kind
<1>9. StatusInFlow'
  <2> SUFFICES ASSUME NEW q \in Record, ~reflowed'[q]
               PROVE  HasPlace(StatusOf(q)', FlowOf(q)')
    BY DEF StatusInFlow, HasPlace, Levels
  <2>1. CASE q = r
    <3>1. CASE RestartFlow(r)
      <4>1. StatusOf(r)' = First(FlowOf(r)')
        BY <1>2, <1>5, <3>1 DEF RestartFlow, StoreStatus, StatusOf, FlowOf, Active,
           IInv, TypeOK
      <4> QED BY <2>1, <4>1, <1>1, <1>8
    <3>2. CASE \E sec \in BOOLEAN : SwitchTo(r, sec)
      <4>1. StatusOf(r)' = First(FlowOf(r)')
        BY SMTT(30), <1>5, <3>2 DEF SwitchTo, StoreStatus, StatusOf, FlowOf, Active, KindOf,
           Kind, IInv, TypeOK
      <4> QED BY <2>1, <4>1, <1>1, <1>8
    <3>3. ASSUME NEW v \in Final, Decide(r, v)
          PROVE  HasPlace(StatusOf(q)', FlowOf(q)')
      <4>1. StatusOf(r)' = v
        BY <1>2, <3>3 DEF Decide, StoreStatus, StatusOf, Active, IInv, TypeOK
      <4>2. FlowOf(r)' # <<>>
        BY <1>2, <1>5, <1>6, <3>3, <4>1
           DEF Decide, StoreStatus, StatusOf, FlowOf, Active
      <4> QED BY <2>1, <4>1, <4>2 DEF HasPlace
    <3> QED BY <3>1, <3>2, <3>3
  <2>2. CASE q # r
    <3>1. StatusOf(q)' = StatusOf(q) /\ FlowOf(q)' = FlowOf(q)
      BY <2>2, <1>4, <1>5 DEF StatusOf, FlowOf, Active
    <3> QED BY <2>2, <3>1, <1>4 DEF IInv, StatusInFlow
  <2> QED BY <2>1, <2>2
<1>10. SignedSoFar'
  <2> SUFFICES ASSUME NEW q \in Record, Trusted(q)'
               PROVE  SignedUpTo(flow["main"], status'[q]["main"], signed'[q])
    BY <1>5 DEF SignedSoFar, SignedUpTo, Levels, Below
  <2>1. CASE q = r
    <3>1. status'[r]["main"] = First(flow["main"])
      BY SMTT(30), <2>1, <1>2 DEF RestartFlow, Decide, SwitchTo, StoreStatus, FlowOf,
         Active, KindOf, Kind, Trusted, IInv, TypeOK
    <3>2. Below(flow["main"], 1) = {}
      BY DEF Below
    <3>3. /\ status'[r]["main"] # APPROVED /\ status'[r]["main"] # REJECTED
          /\ \A i \in 1..Len(flow["main"]) :
                status'[r]["main"] = flow["main"][i] => i = 1
      BY <3>1, <1>1, <1>2, <1>3 DEF Final
    <3>4. signed'[r] = {}
      BY <2>1 DEF RestartFlow, Decide, SwitchTo, Forget, Trusted, IInv, TypeOK
    <3> QED BY <2>1, <3>2, <3>3, <3>4 DEF SignedUpTo
  <2>2. CASE q # r
    BY <2>2, <1>4 DEF IInv, SignedSoFar, Trusted
  <2> QED BY <2>1, <2>2
<1> QED BY <1>7, <1>9, <1>10 DEF IInv

(* And so does an edit of a flow.                                          *)
LEMMA EditFlowInductive ==
    ASSUME IInv, TypeOK', NEW k \in Kind, NEW f \in FlowChoice[k], EditFlow(k, f)
    PROVE  IInv'
<1>1. \A r \in Record :
        /\ secondary'[r] = secondary[r] /\ status'[r] = status[r]
        /\ permitted'[r] = permitted[r]
        /\ Active(r)' = Active(r) /\ StatusOf(r)' = StatusOf(r)
        /\ Active(r) \in Kind
        /\ ~reflowed'[r] => ~reflowed[r] /\ Active(r) # k
        /\ Active(r) # k => FlowOf(r)' = FlowOf(r)
        /\ Active(r) = k => reflowed'[r]
  BY DEF EditFlow, Active, StatusOf, FlowOf, KindOf, Kind, IInv, TypeOK
<1>2. PermittedIsCurrent'
  <2> SUFFICES ASSUME NEW r \in Record
               PROVE  \/ (Decided(r) /\ reflowed[r])'
                      \/ permitted'[r] = GroupOfStatus(StatusOf(r)', FlowOf(r)')
    BY DEF PermittedIsCurrent, GroupOfStatus
  <2>1. \/ Decided(r) /\ reflowed[r]
        \/ permitted[r] = GroupOfStatus(StatusOf(r), FlowOf(r))
    BY DEF IInv, PermittedIsCurrent
  <2>2. reflowed[r] => reflowed'[r]
    BY <1>1 DEF IInv, TypeOK
  <2>3. Decided(r)' = Decided(r)
    BY <1>1 DEF Decided
  <2>4. CASE Active(r) = k
    BY <1>1, <2>1, <2>2, <2>3, <2>4 DEF Decided, GroupOfStatus
  <2>5. CASE Active(r) # k
    BY <1>1, <2>1, <2>2, <2>3, <2>5
  <2> QED BY <2>4, <2>5
<1>3. StatusInFlow'
  <2> SUFFICES ASSUME NEW r \in Record, ~reflowed'[r]
               PROVE  HasPlace(StatusOf(r)', FlowOf(r)')
    BY DEF StatusInFlow, HasPlace, Levels
  <2> QED BY <1>1 DEF IInv, StatusInFlow
<1>4. SignedSoFar'
  <2> SUFFICES ASSUME NEW r \in Record,
                      Trusted(r)'
               PROVE  SignedUpTo(flow'["main"], status'[r]["main"], signed'[r])
    BY DEF SignedSoFar, SignedUpTo, Levels, Below
  <2>1. k # "main" /\ Trusted(r)
    BY <1>1 DEF Active, KindOf, Trusted, EditFlow
  <2>2. flow'["main"] = flow["main"] /\ signed' = signed /\ bypassed' = bypassed
    BY <2>1 DEF EditFlow, Kind, IInv, TypeOK
  <2> QED BY <1>1, <2>1, <2>2 DEF IInv, SignedSoFar
<1> QED BY <1>2, <1>3, <1>4 DEF IInv

(* A step that touches neither statuses nor flows is harmless.             *)
LEMMA UntouchedStatus ==
    ASSUME IInv, TypeOK',
           UNCHANGED <<flow, secondary, status, permitted,
                       signed, bypassed, reflowed, overridden>>
    PROVE  IInv'
BY DEF IInv, PermittedIsCurrent, StatusInFlow, HasPlace, SignedSoFar, SignedUpTo, Decided, Trusted,
   StatusOf, FlowOf, Active, GroupOfStatus, Levels, Below

(* The inductive invariant holds throughout: a status has a place in its   *)
(* flow, the stored group is the current approver's, and a record stands   *)
(* where it does because every level below has been signed.                *)
THEOREM InductiveInvariance == Spec => []IInv
<1>1. Init => IInv
  <2> SUFFICES ASSUME Init PROVE IInv
    OBVIOUS
  <2>1. TypeOK
    BY InitType
  <2>2. \A k \in Kind : /\ First(flow[k]) \in Status /\ First(flow[k]) \notin Final
                        /\ HasPlace(First(flow[k]), flow[k])
                        /\ \A i \in 1..Len(flow[k]) : flow[k][i] = First(flow[k]) => i = 1
    BY <2>1, FirstFacts
  <2>3. \A r \in Record :
            /\ Active(r) = "main" /\ "main" \in Kind
            /\ FlowOf(r) = flow["main"]
            /\ StatusOf(r) = First(flow["main"])
            /\ status[r]["main"] = First(flow["main"])
            /\ permitted[r] = GroupOfStatus(StatusOf(r), FlowOf(r))
    BY DEF Init, Active, KindOf, FlowOf, StatusOf, Kind
  <2>4. First(flow["main"]) # APPROVED /\ First(flow["main"]) # REJECTED
    BY <2>2 DEF Kind, Final
  <2>5. PermittedIsCurrent
    BY <2>3 DEF PermittedIsCurrent
  <2>6. StatusInFlow
    BY <2>2, <2>3 DEF StatusInFlow
  <2>7. SignedSoFar
    <3>1. Below(flow["main"], 1) = {}
      BY DEF Below
    <3>2. \A r \in Record : signed[r] = {}
      BY DEF Init
    <3> QED BY <2>2, <2>3, <2>4, <3>1, <3>2 DEF SignedSoFar, SignedUpTo
  <2> QED BY <2>1, <2>5, <2>6, <2>7 DEF IInv
<1>2. IInv /\ [Next]_vars => IInv'
  <2> SUFFICES ASSUME IInv, [Next]_vars PROVE IInv'
    OBVIOUS
  <2>1. TypeOK /\ TypeOK'
    BY TypeStep DEF IInv
  <2>2. ASSUME NEW u \in User, NEW b \in Batch, NEW k \in Kind,
               NEW v \in Status,
               WriteStatus(u, b, k, v)
        PROVE  IInv'
    BY <2>1, <2>2, WriteStatusInductive
  <2>3. ASSUME NEW u \in User, NEW r \in Record,
               Propose(u, r) \/ Unpropose(u, r) \/ Approve(u, r) \/ Reject(u, r)
        PROVE  IInv'
    <3>1. PICK v \in Status : WriteStatus(u, <<r>>, Active(r), v)
      BY <2>1, <2>3, UserSteps
    <3> QED BY <2>1, <3>1, ActiveFacts, WriteStatusInductive
  <2>4. ASSUME NEW u \in User, NEW r \in Record, NEW b \in BOOLEAN, SetOff(u, r, b)
        PROVE  IInv'
    BY <2>1, <2>4, UntouchedStatus DEF SetOff, ghosts
  <2>5. ASSUME NEW r \in Record,
               RestartFlow(r) \/ SudoApprove(r) \/ GetApprovalStatus(r)
        PROVE  IInv'
    BY <2>1, <2>5, SystemStepInductive, OverrideSteps
  <2>6. ASSUME NEW r \in Record, NEW sec \in BOOLEAN, SwitchTo(r, sec)
        PROVE  IInv'
    BY <2>1, <2>6, SystemStepInductive
  <2>7. ASSUME NEW k \in Kind, NEW f \in FlowChoice[k], EditFlow(k, f)
        PROVE  IInv'
    BY <2>1, <2>7, EditFlowInductive
  <2>8. CASE UNCHANGED vars
    BY <2>1, <2>8, UntouchedStatus DEF vars, ghosts
  <2> QED BY <2>2, <2>3, <2>4, <2>5, <2>6, <2>7, <2>8 DEF Next
<1> QED BY <1>1, <1>2, PTL DEF Spec

(* The group that user checks read is always the current approver's.       *)
THEOREM PermittedInvariance == Spec => []PermittedIsCurrent
<1>1. IInv => PermittedIsCurrent
  BY DEF IInv
<1> QED BY <1>1, InductiveInvariance, PTL

(* No record of the main flow is approved without a signature of every     *)
(* level, whatever the users do, for flows of any length.                  *)
THEOREM ApprovalInvariance == Spec => []ApprovalIsFullySigned
<1>1. IInv => ApprovalIsFullySigned
  BY DEF IInv, SignedSoFar, SignedUpTo, ApprovalIsFullySigned
<1> QED BY <1>1, InductiveInvariance, PTL

(* A status that is stored takes its reminder along, for a record r of the *)
(* recordset when none of the recordset is off.                            *)
LEMMA StoreStatusReminder ==
    ASSUME NEW b \in Seq(Record), NEW newSec, NEW newStatus,
           StoreStatus(b, newSec, newStatus),
           NEW r \in Record, r \in Levels(b), \A q \in Levels(b) : ~off[q]
    PROVE  reminder'[r] = IF Decided(r)' THEN NoReminder
                          ELSE GroupOfStatus(StatusOf(r)', FlowOf(r)')
<1>1. r \in Notified(b)
  <2>1. Len(b) \in Nat /\ \A i \in 1..Len(b) : ~off[b[i]]
    BY DEF Levels
  <2> QED BY <2>1 DEF Notified, Levels
<1>2. /\ StatusOf(r)' = newStatus[r][KindOf(newSec[r])]
      /\ FlowOf(r)' = flow[KindOf(newSec[r])]
  BY DEF StoreStatus, StatusOf, FlowOf, Active, KindOf
<1> QED BY <1>1, <1>2 DEF StoreStatus, Decided

(* No operation leaves the reminder of an earlier approver behind.         *)
LEMMA ReminderStep ==
    ASSUME TypeOK, [Next]_vars
    PROVE  ReminderFollowsStatus
<1>1. ASSUME NEW u \in User, NEW b \in Seq(Record), NEW k \in Kind, NEW v \in Status,
             WriteStatus(u, b, k, v)
      PROVE  ReminderFollowsStatus
  <2> DEFINE new == [r \in Record |-> IF r \in Levels(b)
                                      THEN [status[r] EXCEPT ![k] = v]
                                      ELSE status[r]]
  <2>1. StoreStatus(b, secondary, new) /\ secondary' = secondary /\ status' = new
    BY <1>1 DEF WriteStatus, StoreStatus
  <2> SUFFICES ASSUME NEW r \in Record, StatusOf(r)' # StatusOf(r), ~MayStop(r)
               PROVE  reminder'[r] = IF Decided(r)' THEN NoReminder
                                     ELSE GroupOfStatus(StatusOf(r)', FlowOf(r)')
    BY DEF ReminderFollowsStatus
  <2>2. Active(r)' = Active(r) /\ Active(r) \in Kind
    BY <2>1, ActiveFacts DEF Active
  <2>3. r \in Levels(b) /\ Active(r) = k /\ StatusOf(r)' = v
    BY <2>1, <2>2 DEF StatusOf, TypeOK
  <2>4. Levels(b) \subseteq Record
    BY DEF Levels
  <2>5. \A q \in Levels(b) : status'[q][k] = v
    BY <2>1, <2>4 DEF TypeOK
  <2>6. \A q \in Levels(b) : ~off[q]
    BY <2>2, <2>3, <2>4, <2>5 DEF MayStop
  <2> HIDE DEF new
  <2> QED BY <2>1, <2>3, <2>6, StoreStatusReminder
<1>2. ASSUME NEW u \in User, NEW r \in Record,
             Propose(u, r) \/ Unpropose(u, r) \/ Approve(u, r) \/ Reject(u, r)
      PROVE  ReminderFollowsStatus
  <2>1. PICK v \in Status : WriteStatus(u, <<r>>, Active(r), v)
    BY <1>2, UserSteps
  <2>2. <<r>> \in Seq(Record) /\ Active(r) \in Kind
    BY ActiveFacts
  <2> QED BY <1>1, <2>1, <2>2
<1>3. ASSUME NEW r \in Record,
             NEW newSec \in [Record -> BOOLEAN],
             NEW newStatus \in [Record -> [Kind -> Status]],
             \A q \in Record \ {r} :
                newStatus[q] = status[q] /\ newSec[q] = secondary[q],
             StoreStatus(<<r>>, newSec, newStatus)
      PROVE  ReminderFollowsStatus
  <2> SUFFICES ASSUME NEW q \in Record, StatusOf(q)' # StatusOf(q), ~MayStop(q)
               PROVE  reminder'[q] = IF Decided(q)' THEN NoReminder
                                     ELSE GroupOfStatus(StatusOf(q)', FlowOf(q)')
    BY DEF ReminderFollowsStatus
  <2>1. <<r>> \in Seq(Record) /\ Levels(<<r>>) = {r}
    BY DEF Levels
  <2>2. q = r
    BY <1>3 DEF StoreStatus, StatusOf, Active
  <2>3. ~off[q]
    BY DEF MayStop, StatusOf
  <2> QED BY <1>3, <2>1, <2>2, <2>3, StoreStatusReminder
<1>4. secondary \in [Record -> BOOLEAN] /\ status \in [Record -> [Kind -> Status]]
  BY DEF TypeOK
<1>5. ASSUME NEW r \in Record, NEW s \in Status, Active(r) \in Kind,
             StoreStatus(<<r>>, secondary, [status EXCEPT ![r][Active(r)] = s])
      PROVE  ReminderFollowsStatus
  <2> DEFINE new == [status EXCEPT ![r][Active(r)] = s]
  <2>1. /\ new \in [Record -> [Kind -> Status]]
        /\ \A q \in Record \ {r} : new[q] = status[q]
    BY <1>4, <1>5
  <2> QED BY <1>3, <1>4, <1>5, <2>1
<1>6. ASSUME NEW r \in Record, RestartFlow(r)
      PROVE  ReminderFollowsStatus
  <2>1. First(FlowOf(r)) \in Status /\ Active(r) \in Kind
    BY ActiveFacts, FlowFacts
  <2> QED BY <1>5, <1>6, <2>1 DEF RestartFlow
<1>7. ASSUME NEW r \in Record, SudoApprove(r) \/ GetApprovalStatus(r)
      PROVE  ReminderFollowsStatus
  <2>1. PICK v \in Final : Decide(r, v)
    BY <1>7, OverrideSteps
  <2>2. v \in Status /\ Active(r) \in Kind
    BY ActiveFacts DEF Status
  <2> QED BY <1>5, <2>1, <2>2 DEF Decide
<1>8. ASSUME NEW r \in Record, NEW sec \in BOOLEAN, SwitchTo(r, sec)
      PROVE  ReminderFollowsStatus
  <2> DEFINE newSec == [secondary EXCEPT ![r] = sec]
             newStatus == [status EXCEPT ![r] = [k \in Kind |-> First(flow[k])]]
  <2>1. \A k \in Kind : First(flow[k]) \in Status
    BY FlowFacts DEF TypeOK
  <2>2. /\ newSec \in [Record -> BOOLEAN]
        /\ newStatus \in [Record -> [Kind -> Status]]
        /\ \A q \in Record \ {r} :
                newStatus[q] = status[q] /\ newSec[q] = secondary[q]
    BY <1>4, <2>1
  <2>3. StoreStatus(<<r>>, newSec, newStatus)
    BY <1>8 DEF SwitchTo
  <2> HIDE DEF newSec, newStatus
  <2> QED BY <1>3, <2>2, <2>3
<1>9. ASSUME UNCHANGED <<status, secondary>>
      PROVE  ReminderFollowsStatus
  BY <1>9 DEF ReminderFollowsStatus, StatusOf, Active
<1>10. \A b \in Batch : b \in Seq(Record)
  BY BatchAssumption DEF IsBatch
<1> QED BY <1>1, <1>2, <1>6, <1>7, <1>8, <1>9, <1>10 DEF Next, SetOff, EditFlow, vars

(* The reminder follows the approver in every step that no record which is  *)
(* off may stop, for recordsets of any size and flows of any length.        *)
THEOREM ReminderTheorem == Spec => ReminderNeverStale
<1>1. TypeOK /\ [Next]_vars => [ReminderFollowsStatus]_vars
  BY ReminderStep
<1> QED BY <1>1, TypeInvariance, PTL DEF Spec, ReminderNeverStale

-----------------------------------------------------------------------------
(* Refinement of the contract.                                             *)

(* What has been signed is exactly the levels below a record's height.     *)
LEMMA SignedIsPrefix ==
    ASSUME NEW f \in FlowChoice["main"], NEW s \in Status, NEW sig,
           HasPlace(s, f), SignedUpTo(f, s, sig)
    PROVE  /\ HeightOf(f, s) \in 0..Len(f)
           /\ sig = {f[i] : i \in 1..HeightOf(f, s)}
<1> DEFINE n == Len(f)
           h == HeightOf(f, s)
<1>1. "main" \in Kind
  BY DEF Kind
<1>2. /\ n \in Nat /\ (f = <<>> <=> n = 0)
      /\ Levels(f) \subseteq Option
      /\ \A o \in Levels(f) : Index(f, o) \in 1..n /\ f[Index(f, o)] = o
  BY <1>1, FlowFacts
<1>3. /\ Option \cap Final = {} /\ NoStatus \notin Option \cup Final
      /\ APPROVED # REJECTED
  BY ConstantsAssumption DEF Final
<1>4. CASE s \in Levels(f)
  <2>1. h = Index(f, s) - 1
    BY <1>4 DEF HeightOf
  <2>2. sig = Below(f, Index(f, s))
    BY <1>2, <1>4 DEF SignedUpTo
  <2>3. h \in 0..n
    BY <2>1, <1>2, <1>4
  <2> QED BY <2>1, <2>2, <2>3 DEF Below
<1>5. CASE s = APPROVED /\ s \notin Levels(f)
  BY <1>2, <1>5 DEF HeightOf, SignedUpTo, Levels
<1>6. CASE s = REJECTED /\ s \notin Levels(f)
  <2>1. h = n - 1 /\ sig = Below(f, n)
    BY <1>3, <1>6 DEF HeightOf, SignedUpTo
  <2>2. n # 0
    BY <1>2, <1>3, <1>6 DEF HasPlace, Final
  <2> QED BY <1>2, <2>1, <2>2 DEF Below
<1>7. CASE s = NoStatus
  <2>1. h = 0 /\ sig = {}
    BY <1>2, <1>3, <1>7 DEF HeightOf, SignedUpTo, Final
  <2> QED BY <1>2, <2>1
<1> QED BY <1>4, <1>5, <1>6, <1>7 DEF HasPlace, Final

(* A validated write of the main status climbs at most one level.          *)
LEMMA ValidMoveClimbsOne ==
    ASSUME IInv, NEW r \in Record, NEW v \in Status, Trusted(r),
           StatusOf(r) # NoStatus, ValidMove(r, "main", v)
    PROVE  HeightOf(flow["main"], v) <= Height(r) + 1
<1> DEFINE f == flow["main"]
           n == Len(f)
           old == status[r]["main"]
<1>1. /\ "main" \in Kind /\ f \in FlowChoice["main"] /\ old \in Status
      /\ FlowOf(r) = f /\ StatusOf(r) = old
  BY DEF IInv, TypeOK, Kind, Trusted, FlowOf, StatusOf, Active, KindOf
<1>2. /\ n \in Nat
      /\ f # <<>> => Last(f) \in Levels(f)
      /\ Levels(f) \subseteq Option
      /\ \A o \in Levels(f) : Index(f, o) \in 1..n /\ f[Index(f, o)] = o
      /\ \A i \in 1..n : Index(f, f[i]) = i
  BY <1>1, FlowFacts
<1>3. /\ Option \cap Final = {} /\ NoStatus \notin Option \cup Final
      /\ APPROVED # REJECTED
  BY ConstantsAssumption DEF Final
<1>4. HasPlace(old, f)
  BY <1>1 DEF IInv, StatusInFlow, Trusted
<1>5. HeightOf(f, v) <= n
  BY <1>2 DEF HeightOf
<1>6. CASE old \in Levels(f)
  <2>1. Height(r) = Index(f, old) - 1 /\ Index(f, old) \in 1..n
    BY <1>2, <1>6 DEF Height, HeightOf
  <2>2. CASE v \in Levels(f)
    <3>1. HeightOf(f, v) = Index(f, v) - 1 /\ Index(f, v) \in 1..n
      BY <1>2, <2>2 DEF HeightOf
    <3>2. Index(f, v) - Index(f, old) \in -1..1
      BY <1>1, <1>6, <2>2 DEF ValidMove
    <3> QED BY <2>1, <3>1, <3>2
  <2>3. CASE v \in Final
    <3>1. old = f[n]
      BY <1>1, <1>6, <2>3 DEF ValidMove, Last
    <3>2. Index(f, old) = n
      BY <2>1, <3>1, <1>2
    <3> QED BY <1>2, <1>5, <2>1, <3>2
  <2>4. CASE v \notin Levels(f) /\ v \notin Final
    BY <1>2, <2>1, <2>4 DEF HeightOf, Final
  <2> QED BY <2>2, <2>3, <2>4
<1>7. CASE old \in Final
  <2>1. Height(r) = n \/ Height(r) = n - 1
    BY <1>2, <1>3, <1>7 DEF Height, HeightOf, Final
  <2>2. HeightOf(f, v) \in Int
    BY <1>2 DEF HeightOf
  <2> QED BY <1>2, <1>5, <2>1, <2>2
<1> QED BY <1>1, <1>4, <1>6, <1>7 DEF HasPlace

(* A record that is trusted after a step has started over, or was trusted  *)
(* before it and has climbed at most one level.                            *)
LEMMA HeightStep ==
    ASSUME IInv, [Next]_vars, NEW r \in Record, Trusted(r)'
    PROVE  /\ flow'["main"] = flow["main"]
           /\ \/ Height(r)' = 0
              \/ Trusted(r) /\ Height(r)' <= Height(r) + 1
<1>1. Height(r) \in Int
  <2>1. flow["main"] \in FlowChoice["main"] /\ "main" \in Kind
    BY DEF IInv, TypeOK, Kind
  <2> QED BY <2>1, FlowFacts DEF Height, HeightOf
<1>2. ASSUME flow' = flow, status'[r]["main"] = status[r]["main"], Trusted(r)
      PROVE  /\ flow'["main"] = flow["main"]
             /\ Trusted(r) /\ Height(r)' <= Height(r) + 1
  BY <1>1, <1>2 DEF Height
<1>3. ASSUME NEW u \in User, NEW b, NEW k \in Kind, NEW v \in Status,
             WriteStatus(u, b, k, v)
      PROVE  /\ flow'["main"] = flow["main"]
             /\ Trusted(r) /\ Height(r)' <= Height(r) + 1
  <2>1. /\ UNCHANGED <<flow, secondary, bypassed, reflowed>>
        /\ status' = [q \in Record |-> IF q \in Levels(b)
                                        THEN [status[q] EXCEPT ![k] = v]
                                        ELSE status[q]]
    BY <1>3 DEF WriteStatus, StoreStatus
  <2>2. /\ Trusted(r) /\ Active(r) = "main"
        /\ r \in Levels(b) /\ Active(r) = k => StatusOf(r) # NoStatus \/ u \notin Admin
    BY <1>3, <2>1 DEF Trusted, WriteStatus, Active, KindOf
  <2>3. CASE r \in Levels(b) /\ k = "main"
    <3>1. status'[r]["main"] = v
      BY <2>1, <2>3 DEF IInv, TypeOK
    <3>2. Height(r)' = HeightOf(flow["main"], v)
      BY <2>1, <3>1 DEF Height
    <3>3. ValidMove(r, "main", v) /\ MayAct(u, r)
      BY <1>3, <2>3 DEF WriteStatus
    <3>4. StatusOf(r) # NoStatus
      BY <2>2, <2>3, <3>3, OnlyAdminOverrides DEF IInv
    <3> QED BY <2>1, <2>2, <3>2, <3>3, <3>4, ValidMoveClimbsOne
  <2>4. CASE ~(r \in Levels(b) /\ k = "main")
    <3>1. status'[r]["main"] = status[r]["main"]
      BY <2>1, <2>4 DEF IInv, TypeOK
    <3> QED BY <1>2, <2>1, <2>2, <3>1
  <2> QED BY <2>3, <2>4
<1>4. ASSUME NEW u \in User, NEW q \in Record,
             Propose(u, q) \/ Unpropose(u, q) \/ Approve(u, q) \/ Reject(u, q)
      PROVE  /\ flow'["main"] = flow["main"]
             /\ Trusted(r) /\ Height(r)' <= Height(r) + 1
  <2>1. PICK v \in Status : WriteStatus(u, <<q>>, Active(q), v)
    BY <1>4, UserSteps DEF IInv
  <2> QED BY <1>3, <2>1, ActiveFacts DEF IInv
<1>5. ASSUME NEW u \in User, NEW q \in Record, NEW b \in BOOLEAN, SetOff(u, q, b)
      PROVE  /\ flow'["main"] = flow["main"]
             /\ Trusted(r) /\ Height(r)' <= Height(r) + 1
  BY <1>2, <1>5 DEF SetOff, ghosts, Trusted
<1>6. /\ First(flow["main"]) \notin Final
      /\ \A i \in 1..Len(flow["main"]) : flow["main"][i] = First(flow["main"]) => i = 1
      /\ \A o \in Levels(flow["main"]) :
            /\ Index(flow["main"], o) \in 1..Len(flow["main"])
            /\ flow["main"][Index(flow["main"], o)] = o
  <2>1. flow["main"] \in FlowChoice["main"] /\ "main" \in Kind
    BY DEF IInv, TypeOK, Kind
  <2> QED BY <2>1, FirstFacts, FlowFacts DEF IInv
<1>7. HeightOf(flow["main"], First(flow["main"])) = 0
  BY <1>6 DEF HeightOf, Final
<1>8. ASSUME NEW q \in Record, RestartFlow(q)
      PROVE  /\ flow'["main"] = flow["main"]
             /\ \/ Height(r)' = 0
                \/ Trusted(r) /\ Height(r)' <= Height(r) + 1
  <2>1. flow' = flow /\ secondary' = secondary
    BY <1>8 DEF RestartFlow, StoreStatus
  <2>2. CASE q = r
    <3>1. status'[r]["main"] = First(flow["main"])
      BY <1>8, <2>1, <2>2 DEF RestartFlow, StoreStatus, FlowOf, Active, KindOf, Kind,
         Trusted, IInv, TypeOK
    <3> QED BY <1>7, <2>1, <3>1 DEF Height
  <2>3. CASE q # r
    <3>1. Trusted(r) /\ status'[r] = status[r]
      BY <1>8, <2>3 DEF RestartFlow, Forget, StoreStatus, Trusted, IInv, TypeOK
    <3> QED BY <1>2, <2>1, <3>1
  <2> QED BY <2>2, <2>3
<1>9. ASSUME NEW q \in Record, SudoApprove(q) \/ GetApprovalStatus(q)
      PROVE  /\ flow'["main"] = flow["main"]
             /\ Trusted(r) /\ Height(r)' <= Height(r) + 1
  <2>1. PICK v \in Final : Decide(q, v)
    BY <1>9, OverrideSteps
  <2>2. flow' = flow /\ secondary' = secondary
    BY <2>1 DEF Decide, StoreStatus
  <2>3. q # r
    BY <2>1 DEF Decide, Trusted, IInv, TypeOK
  <2>4. Trusted(r) /\ status'[r] = status[r]
    BY <2>1, <2>3 DEF Decide, StoreStatus, Trusted, IInv, TypeOK
  <2> QED BY <1>2, <2>2, <2>4
<1>10. ASSUME NEW q \in Record, NEW sec \in BOOLEAN, SwitchTo(q, sec)
       PROVE  /\ flow'["main"] = flow["main"]
              /\ \/ Height(r)' = 0
                 \/ Trusted(r) /\ Height(r)' <= Height(r) + 1
  <2>1. flow' = flow
    BY <1>10 DEF SwitchTo, StoreStatus
  <2>2. CASE q = r
    <3>1. status'[r]["main"] = First(flow["main"])
      BY <1>10, <2>2 DEF SwitchTo, StoreStatus, Kind, IInv, TypeOK
    <3> QED BY <1>7, <2>1, <3>1 DEF Height
  <2>3. CASE q # r
    <3>1. Trusted(r) /\ status'[r] = status[r]
      BY <1>10, <2>3 DEF SwitchTo, Forget, StoreStatus, Trusted, IInv, TypeOK
    <3> QED BY <1>2, <2>1, <3>1
  <2> QED BY <2>2, <2>3
<1>11. ASSUME NEW k \in Kind, NEW f \in FlowChoice[k], EditFlow(k, f)
       PROVE  /\ flow'["main"] = flow["main"]
              /\ Trusted(r) /\ Height(r)' <= Height(r) + 1
  <2>1. k # "main" /\ Trusted(r) /\ status'[r] = status[r]
    BY <1>11 DEF EditFlow, Trusted, Active, KindOf, IInv, TypeOK
  <2>2. flow'["main"] = flow["main"]
    BY <1>11, <2>1 DEF EditFlow, Kind, IInv, TypeOK
  <2> QED BY <1>1, <2>1, <2>2 DEF Height
<1>12. CASE UNCHANGED vars
  BY <1>2, <1>12 DEF vars, Trusted
<1> QED BY <1>3, <1>4, <1>5, <1>8, <1>9, <1>10, <1>11, <1>12 DEF Next

(* The engine implements the contract of a sign-off.                       *)
THEOREM ContractTheorem == Spec => KeepsContract
<1>1. Init => Contract!Init
  <2> SUFFICES ASSUME Init PROVE Contract!Init
    OBVIOUS
  <2>1. TypeOK /\ "main" \in Kind
    BY InitType DEF Kind
  <2>2. flow["main"] \in FlowChoice["main"]
    BY <2>1 DEF TypeOK
  <2>3. /\ First(flow["main"]) \notin Final
        /\ \A i \in 1..Len(flow["main"]) : flow["main"][i] = First(flow["main"]) => i = 1
    BY <2>1, FirstFacts
  <2>4. HeightOf(flow["main"], First(flow["main"])) = 0
    BY <2>1, <2>2, <2>3, FlowFacts DEF HeightOf, Final
  <2>5. \A r \in Record : Height(r) = 0 /\ Trusted(r)
    BY <2>1, <2>4 DEF Init, Height, Trusted
  <2> QED BY <2>5 DEF Init, Contract!Init
<1>2. IInv /\ IInv' /\ [Next]_vars => [Contract!Next]_(Contract!vars)
  <2> SUFFICES ASSUME IInv, IInv', [Next]_vars,
                      NEW r \in Record, Trusted(r)'
               PROVE  /\ flow'["main"] = flow["main"]
                      /\ \/ Contract!Stay(r)
                         \/ Contract!Climb(r)
                         \/ Contract!ComeDown(r)
                         \/ Contract!StartOver(r)
    BY DEF Contract!Next
  <2> DEFINE f == flow["main"]
             h == Height(r)
             g == Height(r)'
             Up(n) == {f[i] : i \in 1..n}
  <2>1. /\ flow'["main"] = f
        /\ g = 0 \/ (Trusted(r) /\ g <= h + 1)
    BY HeightStep
  <2>2. "main" \in Kind /\ f \in FlowChoice["main"]
    BY DEF IInv, TypeOK, Kind
  <2>3. Trusted(r) => h \in 0..Len(f) /\ signed[r] = Up(h)
    <3> SUFFICES ASSUME Trusted(r)
                 PROVE  h \in 0..Len(f) /\ signed[r] = Up(h)
      OBVIOUS
    <3>1. /\ status[r]["main"] \in Status
          /\ HasPlace(status[r]["main"], f)
          /\ SignedUpTo(f, status[r]["main"], signed[r])
      BY <2>2 DEF IInv, TypeOK, StatusInFlow, SignedSoFar, Trusted,
         StatusOf, FlowOf, Active, KindOf
    <3> HIDE DEF f
    <3>2. HeightOf(f, status[r]["main"]) \in 0..Len(f)
          /\ signed[r] = {f[i] : i \in 1..HeightOf(f, status[r]["main"])}
      BY <2>2, <3>1, SignedIsPrefix
    <3> QED BY <3>2 DEF Height, f
  <2>4. g \in 0..Len(f) /\ signed'[r] = Up(g)
    <3>1. /\ status'[r]["main"] \in Status
          /\ HasPlace(status'[r]["main"], f)
          /\ SignedUpTo(f, status'[r]["main"], signed'[r])
      BY <2>1, <2>2 DEF IInv, TypeOK, StatusInFlow, SignedSoFar, Trusted,
         StatusOf, FlowOf, Active, KindOf, HasPlace, SignedUpTo, Levels, Below
    <3>2. g = HeightOf(f, status'[r]["main"])
      BY <2>1 DEF Height
    <3> HIDE DEF f, g
    <3>3. HeightOf(f, status'[r]["main"]) \in 0..Len(f)
          /\ signed'[r] = {f[i] : i \in 1..HeightOf(f, status'[r]["main"])}
      BY <2>2, <3>1, SignedIsPrefix
    <3> QED BY <3>2, <3>3
  <2>5. Len(f) \in Nat
    BY <2>2, FlowFacts
  <2>6. Up(0) = {}
    OBVIOUS
  <2> HIDE DEF f, g, h
  <2>7. ASSUME Trusted(r)
        PROVE  \/ g = h /\ signed'[r] = signed[r]
               \/ h < Len(f) /\ g = h + 1 /\ signed'[r] = signed[r] \cup {f[h + 1]}
               \/ g < h /\ signed'[r] = signed[r] \cap Up(g)
               \/ g = 0 /\ signed'[r] = {}
    <3>1. CASE g = h
      BY <2>3, <2>4, <2>7, <3>1
    <3>2. CASE g = h + 1
      <4>1. Up(h + 1) = Up(h) \cup {f[h + 1]}
        BY <2>3, <2>5, <2>7
      <4> QED BY <2>3, <2>4, <2>5, <2>7, <3>2, <4>1
    <3>3. CASE g < h
      <4>1. Up(g) \subseteq Up(h)
        BY <2>3, <2>4, <2>5, <2>7, <3>3
      <4> QED BY <2>3, <2>4, <2>7, <3>3, <4>1
    <3>4. CASE g = 0
      BY <2>4, <2>6, <3>4
    <3> QED BY <2>1, <2>3, <2>4, <2>5, <2>7, <3>1, <3>2, <3>3, <3>4
  <2>8. \/ Trusted(r) /\ g = h /\ signed'[r] = signed[r]
        \/ /\ Trusted(r) /\ h < Len(f) /\ g = h + 1
           /\ signed'[r] = signed[r] \cup {f[h + 1]}
        \/ Trusted(r) /\ g < h /\ signed'[r] = signed[r] \cap Up(g)
        \/ g = 0 /\ signed'[r] = {}
    BY <2>1, <2>4, <2>6, <2>7
  <2>9. Up(g) = {f[i] : i \in 1..g}
    OBVIOUS
  <2> HIDE DEF Up
  <2> QED BY <2>1, <2>8, <2>9 DEF Contract!Stay, Contract!Climb, Contract!ComeDown,
             Contract!StartOver, Contract!Passed, f, g, h
<1> QED BY <1>1, <1>2, InductiveInvariance, PTL DEF Spec, KeepsContract, Contract!Spec
=============================================================================
