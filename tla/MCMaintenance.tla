--------------------------- MODULE MCMaintenance ---------------------------
(***************************************************************************)
(* Instances of Maintenance for TLC.  Reports are interchangeable, and so  *)
(* are the quotes that may be moved, and the others.                       *)
(***************************************************************************)
EXTENDS Maintenance, TLC

CONSTANTS q1, q2, q3

Rows == Permutations(Report) \cup Permutations(Movable)
                             \cup Permutations(Quote \ Movable)

NoQuote == {}
TwoQuotes == {q1, q2}
ThreeQuotes == {q1, q2, q3}

\* In any state, as the form's statusbar and the columns of the kanban view
\* offer, or only in the one that is the default.
AnyState == JobState
DefaultState == {"UNAPPROVED"}
=============================================================================
