------------------------------- MODULE Roster -------------------------------
(***************************************************************************)
(* What a scheduler promises to the jobs it is given: a duty that is due   *)
(* is taken up by one keeper, who has no other, is performed once, and is  *)
(* handed over, which alone makes it be performed again.  While somebody   *)
(* keeps a duty it stays due and its terms stay as the keeper found them.  *)
(* A keeper may be lost at any time; when that happens after the duty was  *)
(* over nobody knows, and it may be performed a second time.               *)
(***************************************************************************)
CONSTANTS Duty, Keeper, Nobody

VARIABLES
    keeper,   \* who keeps each duty
    stage,    \* of each duty: "idle", "kept", or "over" and not handed over
    done,     \* the duties performed since they were last handed over
    unsure,   \* those of which a keeper was lost when they were over
    due,      \* the duties that may be taken up
    terms     \* of each duty: when it is due again, and how often

vars == <<keeper, stage, done, unsure, due, terms>>

Init ==
    /\ keeper = [d \in Duty |-> Nobody]
    /\ stage = [d \in Duty |-> "idle"]
    /\ done = {} /\ unsure = {}

Same(d) == (d \in done' <=> d \in done) /\ (d \in unsure' <=> d \in unsure)
Cleared(d) == d \notin done' /\ d \notin unsure'

Stay(d) ==
    /\ stage'[d] = stage[d] /\ keeper'[d] = keeper[d]
    /\ Same(d)
    /\ terms'[d] = terms[d]

\* By somebody from outside, when nobody keeps it
Amend(d) ==
    /\ stage[d] = "idle" /\ stage'[d] = "idle" /\ keeper'[d] = Nobody
    /\ Same(d) \/ Cleared(d)

TakeUp(d) ==
    /\ stage[d] = "idle" /\ stage'[d] = "kept"
    /\ keeper'[d] \in Keeper
    /\ d \in due
    /\ Same(d)
    /\ terms'[d] = terms[d]

\* The duty may also have failed, which does not count as performed
Finish(d) ==
    /\ stage[d] = "kept" /\ stage'[d] = "over"
    /\ keeper'[d] = keeper[d]
    /\ Same(d) \/ (d \in done' /\ (d \in done => d \in unsure))
    /\ d \in unsure' <=> d \in unsure
    /\ terms'[d] = terms[d]

HandOver(d) ==
    /\ stage[d] = "over" /\ stage'[d] = "idle" /\ keeper'[d] = Nobody
    /\ Cleared(d)

Lose(d) ==
    /\ stage[d] # "idle" /\ stage'[d] = "idle" /\ keeper'[d] = Nobody
    /\ d \in done' <=> d \in done
    /\ d \in unsure' <=> d \in unsure \/ stage[d] = "over"
    /\ terms'[d] = terms[d]

Next ==
    /\ \A d \in Duty :
          /\ Stay(d) \/ Amend(d) \/ TakeUp(d) \/ Finish(d) \/ HandOver(d) \/ Lose(d)
          /\ stage'[d] # "idle" => d \in due'
    /\ \A d, e \in Duty : keeper'[d] = keeper'[e] => d = e \/ keeper'[d] = Nobody

Spec == Init /\ [][Next]_vars
=============================================================================
