--------------------------- MODULE MCApprovalGate ---------------------------
(* Small instances of ApprovalGate for TLC. *)
EXTENDS ApprovalGate, TLC

CONSTANTS
    c1, c2,                             \* calls
    op1, op2, mid, linked, foreign,     \* intents
    v1, v2,                             \* conversations
    app, app2, loan                     \* targets

MCConvs   == {v1, v2}
MCTargets == {app, app2, loan}
TwoCalls  == {c1, c2}
TwoCallSymmetry == Permutations(TwoCalls)

\* Two conversations ask for the same application; another beneficiary or
\* another conversation is another key.
OpsIntents  == {op1, op2}
OpsConvOf   == (op1 :> v1) @@ (op2 :> v2)
OpsActionOf == [i \in OpsIntents |-> "ops_disburse"]
OpsAmountOf == [i \in OpsIntents |-> 7]
SameTargetOf  == [i \in OpsIntents |-> app]
OtherTargetOf == (op1 :> app) @@ (op2 :> app2)

\* One intent of each kind; the amount lies between the threshold and the
\* ceiling of the green tier, so the lane decides.
MixIntents  == {op1, mid, linked, foreign}
MixConvOf   == [i \in MixIntents |-> IF i = linked THEN v2 ELSE v1]
MixActionOf == [i \in MixIntents |->
                  IF i = op1 THEN "ops_disburse" ELSE "disburse"]
MixTargetOf == [i \in MixIntents |-> IF i = op1 THEN app ELSE loan]
MixAmountOf == [i \in MixIntents |-> 7]
MixLinked   == {linked}
MixForeign  == {foreign}
=============================================================================
