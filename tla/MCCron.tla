------------------------------- MODULE MCCron -------------------------------
(* Two workers, a job that makes up for two calls at most and one that is   *)
(* due every other moment without limit.                                   *)
EXTENDS Cron

CONSTANTS once, often

MCInterval == [j \in Job |-> IF j = once THEN 1 ELSE 2]
MCNumberCall == [j \in Job |-> IF j = once THEN 2 ELSE -1]
MCDoAll == {once}
MCDelays == {0, 1}
MCNumbers == {-1, 1}
MCIntervals == {2}
=============================================================================
