----------------------------- MODULE SingleUse -----------------------------
(***************************************************************************)
(* What the money gate promises for every intent, and nothing of how: an   *)
(* intent takes effect at most once, either straight away by rule or after *)
(* it was requested and granted; a refused, failed or consumed intent      *)
(* never changes again.  ApprovalGate implements this specification.       *)
(***************************************************************************)
EXTENDS Naturals

CONSTANT Intents

VARIABLES
    stage,      \* where an intent is
    effects     \* how many times it has taken effect

suVars == <<stage, effects>>

Stages == {"absent", "requested", "granted", "refused", "failed", "consumed"}

SUInit ==
    /\ stage = [i \in Intents |-> "absent"]
    /\ effects = [i \in Intents |-> 0]

Move(i, from, to) ==
    /\ stage[i] = from
    /\ stage' = [stage EXCEPT ![i] = to]

Request(i) == Move(i, "absent", "requested") /\ UNCHANGED effects
Grant(i)   == Move(i, "requested", "granted") /\ UNCHANGED effects
Refuse(i)  == Move(i, "requested", "refused") /\ UNCHANGED effects
Fail(i)    == Move(i, "granted", "failed") /\ UNCHANGED effects

Consume(i) ==
    /\ \/ Move(i, "granted", "consumed")
       \/ Move(i, "absent", "consumed")
    /\ effects' = [effects EXCEPT ![i] = @ + 1]

SUNext == \E i \in Intents :
    Request(i) \/ Grant(i) \/ Refuse(i) \/ Fail(i) \/ Consume(i)

SUSpec == SUInit /\ [][SUNext]_suVars
=============================================================================
