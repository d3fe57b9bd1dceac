------------------------------ MODULE TurnTaking ------------------------------
(***************************************************************************)
(* What a room promises the people and the sub-agents that talk to it,     *)
(* with no queue and no lock in sight: every event submitted waits for a   *)
(* turn of the main agent, one event has the turn at a time, an event that *)
(* had its turn never has another, and the only events that may be         *)
(* discarded while they wait are the discardable ones (the machine-made    *)
(* task_done reports; never a user message or an approval decision).       *)
(***************************************************************************)
CONSTANTS Events, Discardable

VARIABLE stage

Waiting == {e \in Events : stage[e] = "waiting"}

TTInit == stage = [e \in Events |-> "new"]

\* The events of D are discarded.
Without(D, st) == [f \in Events |-> IF f \in D THEN "dropped" ELSE st[f]]

\* An event arrives and has to wait; the room may tidy up what waits.
Submit(e, D) ==
    /\ stage[e] = "new"
    /\ stage' = Without(D, [stage EXCEPT ![e] = "waiting"])

Discard(D) == stage' = Without(D, stage)

Begin(e) ==
    /\ stage[e] \in {"new", "waiting"}
    /\ \A f \in Events : stage[f] # "turn"
    /\ stage' = [stage EXCEPT ![e] = "turn"]

\* The end of a turn is the other moment at which the room tidies up.
Finish(e, D) ==
    /\ stage[e] = "turn"
    /\ stage' = Without(D, [stage EXCEPT ![e] = "served"])

TTNext ==
    \/ \E e \in Events : Begin(e)
    \/ \E e \in Events : \E D \in SUBSET ((Waiting \cup {e}) \cap Discardable) :
          Submit(e, D)
    \/ \E e \in Events : \E D \in SUBSET (Waiting \cap Discardable) : Finish(e, D)
    \/ \E D \in SUBSET (Waiting \cap Discardable) : Discard(D)

TTSpec == TTInit /\ [][TTNext]_stage
===============================================================================
