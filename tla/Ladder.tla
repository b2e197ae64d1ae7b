------------------------------- MODULE Ladder -------------------------------
(***************************************************************************)
(* What a sign-off promises to the documents that use it: a document       *)
(* climbs a ladder of levels, one at a time, and each level it climbs past *)
(* is endorsed by that level.  A document may come down, which voids the   *)
(* endorsements it comes down past, and may start over.  While a document  *)
(* is not trusted, because it was overridden or the ladder was changed     *)
(* under it, nothing is promised until it starts over.                     *)
(***************************************************************************)
EXTENDS Integers, Sequences

CONSTANTS Document

VARIABLES
    rungs,      \* the levels, from the lowest
    height,     \* how many of them each document has climbed past
    endorsed,   \* the levels that endorse it
    trusted     \* whether its height means anything

vars == <<rungs, height, endorsed, trusted>>

\* The levels a document of height h has climbed past.
Passed(h) == {rungs[i] : i \in 1..h}

Init ==
    /\ height = [d \in Document |-> 0]
    /\ endorsed = [d \in Document |-> {}]
    /\ trusted = [d \in Document |-> TRUE]

Stay(d) ==
    /\ trusted[d]
    /\ height'[d] = height[d]
    /\ endorsed'[d] = endorsed[d]

Climb(d) ==
    /\ trusted[d]
    /\ height[d] < Len(rungs)
    /\ height'[d] = height[d] + 1
    /\ endorsed'[d] = endorsed[d] \cup {rungs[height[d] + 1]}

ComeDown(d) ==
    /\ trusted[d]
    /\ height'[d] < height[d]
    /\ endorsed'[d] = endorsed[d] \cap Passed(height'[d])

StartOver(d) ==
    /\ height'[d] = 0
    /\ endorsed'[d] = {}

\* Several documents may move in one step; the ladder does not change under a
\* document that is trusted after it.
Next ==
    \A d \in Document :
        trusted'[d] =>
            /\ rungs' = rungs
            /\ Stay(d) \/ Climb(d) \/ ComeDown(d) \/ StartOver(d)

Spec == Init /\ [][Next]_vars
=============================================================================
