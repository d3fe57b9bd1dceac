----------------------------- MODULE MCEventRoom ------------------------------
(***************************************************************************)
(* A room for TLC: two messages of a person and three reports, two of them *)
(* of one role, and a queue limit that those events exceed.                *)
(***************************************************************************)
EXTENDS EventRoom

CONSTANTS m1, m2, c1, c2, l1, credit, legal

MCEvents == {m1, m2, c1, c2, l1}
MCHuman == {m1, m2}
MCRoleOf == [e \in MCEvents |-> IF e = l1 THEN legal ELSE credit]
===============================================================================
