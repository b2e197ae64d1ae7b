-------------------------- MODULE MCQuotesRequest --------------------------
(***************************************************************************)
(* Instance of QuotesRequest for TLC: one request, which may get a quote   *)
(* two suppliers compete for, and one with a single supplier.              *)
(***************************************************************************)
EXTENDS QuotesRequest

CONSTANTS r1, q1, q2, s1, s2

MCSuppliersOf == [q \in Quote |-> IF q = q1 THEN {s1, s2} ELSE {s1}]
MCPricesOf == [q \in Quote |-> IF q = q1 THEN {-1, 0, 1} ELSE {0, 1}]
MCLeastPrice == -1
MCJoinsOf == [q \in Quote |-> {r1}]
=============================================================================
