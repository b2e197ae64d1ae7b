----------------------------- MODULE MCApproval -----------------------------
(***************************************************************************)
(* Instances of Approval for TLC.  Three levels, crew, technical and crew  *)
(* a second time, so that the same group signs twice; a user in each group *)
(* and an administrator.                                                   *)
(***************************************************************************)
EXTENDS Approval

CONSTANTS crew, technical,              \* groups
          oCrew, oTechnical, oCrewAgain, \* options
          sailor, engineer, admin,      \* users
          r1, r2                        \* records

MCGroupsOf ==
    [u \in User |-> IF u = sailor THEN {crew}
                    ELSE IF u = engineer THEN {technical} ELSE {}]

MCGroupOf ==
    [o \in Option |-> IF o = oTechnical THEN technical ELSE crew]

Full == <<oCrew, oTechnical, oCrewAgain>>

\* The main flow may be edited down to one level, the secondary one removed.
EditedFlows ==
    [k \in Kind |-> IF k = "main" THEN {Full, <<oTechnical>>}
                    ELSE {<<oTechnical, oCrew>>, <<>>}]

\* Both flows are fixed and have one level.
ShortFlows ==
    [k \in Kind |-> IF k = "main" THEN {<<oCrew>>} ELSE {<<oTechnical>>}]

LongSecondary ==
    [k \in Kind |-> IF k = "main" THEN {<<oCrew>>} ELSE {Full}]

OneRecord == {<<r1>>}
PairBatch == {<<r1, r2>>, <<r2, r1>>}
=============================================================================
