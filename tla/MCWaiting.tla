------------------------------ MODULE MCWaiting -------------------------------
(***************************************************************************)
(* Where somebody waits for a turn of theirs: a person's message and a     *)
(* report for the main agent (the room), a thread for a connection of the  *)
(* pool, a customer for the answer to a form.  A behaviour picks one scene *)
(* and plays it, while the others stay as they begin.                      *)
(***************************************************************************)
EXTENDS MCEventRoom, StoragePool, FormIntake

VARIABLE scene

waitingVars == <<scene, vars, poolVars, formVars>>

SameOwner == [c \in Cards |-> "u1"]
TakenNumbers == {{}, {98, 99}}

WaitingInit ==
    /\ scene \in {"room", "pool", "form"}
    /\ Init /\ PoolInit /\ FormInit
    /\ scene # "form" => minted = {} /\ cards = [c \in Cards |-> NoRow]

WaitingNext ==
    /\ \/ scene = "room" /\ Next /\ UNCHANGED <<poolVars, formVars>>
       \/ scene = "pool" /\ PoolNext /\ UNCHANGED <<vars, formVars>>
       \/ scene = "form" /\ FormNext /\ UNCHANGED <<vars, poolVars>>
    /\ UNCHANGED scene

WaitingSpec ==
    /\ WaitingInit /\ [][WaitingNext]_waitingVars
    /\ RoomFairness /\ PoolFairness /\ FormFairness
===============================================================================
