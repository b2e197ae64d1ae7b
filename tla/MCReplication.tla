---------------------------- MODULE MCReplication ---------------------------
(***************************************************************************)
(* Instance of Replication for TLC: the land server and two ships.         *)
(***************************************************************************)
EXTENDS Replication

CONSTANTS land, ship1, ship2, crew

MCShipNo == [s \in Server |-> CASE s = land -> 0 [] s = ship1 -> 1 [] s = ship2 -> 2]
MCMoments == [s \in Server |-> CASE s = land -> {2} [] s = ship1 -> {2, 3} [] s = ship2 -> {3}]

\* Bounds: three of the four transactions change something, and the tool saves
\* the land's sequence before that has given an id.  Nothing is promised once a
\* row strayed
Bounded ==
    /\ Len(log[land]) + Len(log[ship1]) + Len(log[ship2]) <= 3
    /\ backup[land] = Dump
    /\ ~ strayed
=============================================================================
