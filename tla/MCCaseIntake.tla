----------------------------- MODULE MCCaseIntake -----------------------------
(***************************************************************************)
(* Intake for TLC: two requests at once over two cases.  Two events of one *)
(* id, two of one version, a cancellation in the middle with a request     *)
(* after it, and missing fields that come, go and come again.              *)
(***************************************************************************)
EXTENDS CaseIntake, TLC

CONSTANTS c1, c2, k1, k2, e1, e2, e3, e4, v1, v2, b1, b2, income

Event(i, kind, k, v, b) ==
    [id |-> i, kind |-> kind, case |-> k, version |-> v, body |-> b]

MCMissing == (b1 :> {income}) @@ (b2 :> {})

MCPayloads == {
    Event(e1, "snapshot", k1, 1, b1),
    Event(e1, "snapshot", k2, 1, b2),
    Event(e2, "requested", k1, 2, b2),
    Event(e3, "cancelled", k1, 2, b2),
    Event(e4, "requested", k1, 3, b1)}
===============================================================================
