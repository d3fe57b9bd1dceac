------------------------------ MODULE MCSubTasks ------------------------------
(***************************************************************************)
(* Sub-agents for TLC: two roles, two dispatches at once, one slot.        *)
(***************************************************************************)
EXTENDS SubTasks

CONSTANTS t1, t2, credit, legal, d1, d2
===============================================================================
