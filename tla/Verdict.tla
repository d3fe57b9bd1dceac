------------------------------ MODULE Verdict ------------------------------
(***************************************************************************)
(* The tiered brake: the pure part of orch/verdict.py, which decides       *)
(* whether a money action runs by rule or waits for a person, and what the *)
(* system recommends to that person.  Amounts and thresholds are natural   *)
(* numbers (VND); an amount that is missing or not a finite number is      *)
(* NoAmount, and a threshold of 0 is the fail-closed value.                *)
(***************************************************************************)
EXTENDS Naturals

CONSTANTS
    DefaultThreshold,   \* AUTO_APPROVE_THRESHOLD, 500 million VND
    AutoMax,            \* auto_approve_max: ceiling of the green tier
    NoAmount            \* float(args.get(...)) failed or was not finite

ASSUME VerdictAssumption ==
    /\ DefaultThreshold \in Nat \ {0}
    /\ AutoMax \in Nat
    /\ NoAmount \notin Nat

Actions == {"disburse", "ops_disburse"}
Lanes   == {"none", "green", "yellow", "red"}
Amounts == Nat \cup {NoAmount}

\* A disabled brake still recommends: the recommendation falls back to the
\* default policy while the decision stays human.
PolicyThreshold(threshold) ==
    IF threshold > 0 THEN threshold ELSE DefaultThreshold

\* A faulty Tier1: the lane is not looked at.
Tier1AnyLane(action, amount, lane, threshold) ==
    /\ action = "disburse"
    /\ amount # NoAmount
    /\ amount < PolicyThreshold(threshold)

Tier1(action, amount, lane, threshold) ==
    /\ action = "disburse"
    /\ amount # NoAmount
    /\ amount < PolicyThreshold(threshold)
    /\ lane # "red"

Tier2(action, amount, lane) ==
    /\ action = "disburse"
    /\ amount # NoAmount
    /\ lane = "green"
    /\ amount <= AutoMax

AutoEligible(action, amount, lane, threshold) ==
    Tier1(action, amount, lane, threshold) \/ Tier2(action, amount, lane)

\* gated_decision, first component: "auto" or "human".
Decision(action, amount, lane, threshold) ==
    IF threshold > 0 /\ AutoEligible(action, amount, lane, threshold)
    THEN "auto" ELSE "human"

\* gated_decision, system_recommendation of the snapshot.
Recommendation(action, amount, lane, threshold) ==
    CASE lane = "red" -> "reject-recommended"
      [] lane # "red" /\ AutoEligible(action, amount, lane, threshold)
           -> "auto-eligible"
      [] OTHER -> "human-review"

\* _DIRECTION and insert_review: does the person's decision agree with the
\* system's recommendation?  "incomparable" stands for match = NULL.
Match(recommendation, decision) ==
    CASE recommendation = "auto-eligible"      -> decision = "approved"
      [] recommendation = "reject-recommended" -> decision = "rejected"
      [] OTHER -> FALSE

Comparable(recommendation) ==
    recommendation \in {"auto-eligible", "reject-recommended"}
=============================================================================
