------------------------------- MODULE SubTasks -------------------------------
(***************************************************************************)
(* The sub-agents of one conversation: the dispatch of a role              *)
(* (orch/dispatch.py), the life of its coroutine (orch/sub_runner.py), the *)
(* row of the task in the database (orch/store.py), its cancellation by a  *)
(* user (api/interrupt.py) and a restart of the process (main.py).         *)
(*                                                                         *)
(* A step is what runs between two awaits.  A database statement runs in a *)
(* thread (asyncio.to_thread): it commits in a step of its own, and goes   *)
(* on when the coroutine that awaits it is cancelled.                      *)
(*                                                                         *)
(* The room that a task_done event wakes is EventRoom; here the event only *)
(* counts.  Left out: task.created and task.status on the event stream,    *)
(* the metrics and the cost of a task, and roles that do not exist.        *)
(***************************************************************************)
EXTENDS Naturals, FiniteSets

CONSTANTS
    Tasks,       \* ids of the rows a run may create
    Roles,       \* discovered_roles()
    NoTask,      \* no task
    Calls,       \* dispatches that may be under way at once
    Slots,       \* registry.SUB_CONCURRENCY
    Interrupts,  \* users cancel tasks
    DbFails,     \* the database may fail a statement
    MaxBoots     \* boots of this process or of another one on the same database

ASSUME SubTasksAssumption ==
    /\ IsFiniteSet(Tasks)
    /\ NoTask \notin Tasks
    /\ Slots \in Nat \ {0}
    /\ Interrupts \in BOOLEAN
    /\ DbFails \in BOOLEAN
    /\ MaxBoots \in Nat

VARIABLES
    row,         \* tasks.status, "restarted" for failed with reason server restart
    role,        \* tasks.role
    registered,  \* _running_tasks of the conversation
    cancellable, \* the keys of sub_tasks
    co,          \* where the coroutine of a task stands
    outcome,     \* what _run_sub will report
    marking,     \* the thread of mark_running: none, flying, landed
    asked,       \* t.cancel() was called, and answered {"cancelled": true}
    told,        \* told[t]: task_done events sent for t
    call,        \* call[c]: where a dispatch stands, its role and its new task
    seen,        \* the task an interrupt handler found queued or running
    boots        \* how many boots happened

vars == <<row, role, registered, cancellable, co, outcome, marking, asked, told,
          call, seen, boots>>

NotEnded == {"queued", "running"}
Ended == {"done", "failed", "timeout"}

\* The life of a coroutine: scheduled, waiting for a slot, awaiting
\* mark_running, working, done with its work, awaiting finish_task, awaiting
\* the board, over, or killed with its process.
InSlot == {"marking", "working"}
Live == {"spawned", "waiting", "marking", "working", "unwound"}
Reporting == {"finishing", "boarding"}

Holders == {t \in Tasks : co[t] \in InSlot}

\* dispatch_lock is held across the await of a statement.
InLock == {"reading", "inserting", "inserted"}
LockFree == \A c \in Calls : call[c].pc \notin InLock

NoCall == [pc |-> "idle", role |-> NoTask, task |-> NoTask]

Init ==
    /\ row = [t \in Tasks |-> "none"]
    /\ role = [t \in Tasks |-> NoTask]
    /\ registered = [r \in Roles |-> NoTask]
    /\ cancellable = {}
    /\ co = [t \in Tasks |-> "none"]
    /\ outcome = [t \in Tasks |-> "none"]
    /\ marking = [t \in Tasks |-> "none"]
    /\ asked = [t \in Tasks |-> FALSE]
    /\ told = [t \in Tasks |-> 0]
    /\ call = [c \in Calls |-> NoCall]
    /\ seen = NoTask
    /\ boots = 0

-------------------------------------------------------------------------------
(* create_task_guarded and orch_dispatch_impl *)

\* The main agent's tool, or the resume guard, dispatches role r.
Dispatch(c, r) ==
    /\ call[c].pc = "idle"
    /\ \E t \in Tasks : row[t] = "none"
    /\ call' = [call EXCEPT ![c] = [pc |-> "asking", role |-> r, task |-> NoTask]]
    /\ UNCHANGED <<row, role, registered, cancellable, co, outcome, marking, asked,
                   told, seen, boots>>

\* A faulty LookUp: checks the registry without dispatch_lock.
LookUpUnlocked(c) ==
    /\ call[c].pc = "asking"
    /\ call' = [call EXCEPT ![c].pc =
                   IF registered[call[c].role] # NoTask THEN "reading" ELSE "inserting"]
    /\ UNCHANGED <<row, role, registered, cancellable, co, outcome, marking, asked,
                   told, seen, boots>>

\* A faulty LookUp: waits for the sub-agent of the role to end.
LookUpWaiting(c) ==
    /\ call[c].pc = "asking"
    /\ LockFree
    /\ registered[call[c].role] = NoTask
    /\ call' = [call EXCEPT ![c].pc = "inserting"]
    /\ UNCHANGED <<row, role, registered, cancellable, co, outcome, marking, asked,
                   told, seen, boots>>

\* dispatch_lock is taken and the registry looked up in the same step.
LookUp(c) ==
    /\ call[c].pc = "asking"
    /\ LockFree
    /\ call' = [call EXCEPT ![c].pc =
                   IF registered[call[c].role] # NoTask THEN "reading" ELSE "inserting"]
    /\ UNCHANGED <<row, role, registered, cancellable, co, outcome, marking, asked,
                   told, seen, boots>>

\* The task that runs is read and the answer is created: false; or the
\* statement fails, and the dispatch with it.
AnswerExisting(c) ==
    /\ call[c].pc = "reading"
    /\ call' = [call EXCEPT ![c] = NoCall]
    /\ UNCHANGED <<row, role, registered, cancellable, co, outcome, marking, asked,
                   told, seen, boots>>

InsertRow(c) ==
    /\ call[c].pc = "inserting"
    /\ \E t \in Tasks :
          /\ row[t] = "none"
          /\ row' = [row EXCEPT ![t] = "queued"]
          /\ role' = [role EXCEPT ![t] = call[c].role]
          /\ call' = [call EXCEPT ![c].pc = "inserted", ![c].task = t]
    /\ UNCHANGED <<registered, cancellable, co, outcome, marking, asked, told, seen,
                   boots>>

\* The statement fails, and the dispatch with it (or Tasks has no id left).
InsertFails(c) ==
    /\ call[c].pc = "inserting"
    /\ DbFails \/ \A t \in Tasks : row[t] # "none"
    /\ call' = [call EXCEPT ![c] = NoCall]
    /\ UNCHANGED <<row, role, registered, cancellable, co, outcome, marking, asked,
                   told, seen, boots>>

\* The row is there: register_running, the lock is released, spawn_sub.
Spawn(c) ==
    /\ call[c].pc = "inserted"
    /\ LET t == call[c].task
       IN /\ registered' = [registered EXCEPT ![call[c].role] = t]
          /\ cancellable' = cancellable \cup {t}
          /\ co' = [co EXCEPT ![t] = "spawned"]
    /\ call' = [call EXCEPT ![c] = NoCall]
    /\ UNCHANGED <<row, role, outcome, marking, asked, told, seen, boots>>

-------------------------------------------------------------------------------
(* _run_sub: a cancelled coroutine takes no step but its unwinding *)

Start(t) ==
    /\ co[t] = "spawned"
    /\ ~asked[t]
    /\ co' = [co EXCEPT ![t] = "waiting"]
    /\ UNCHANGED <<row, role, registered, cancellable, outcome, marking, asked, told,
                   call, seen, boots>>

\* A slot of sub_semaphore is taken and mark_running handed to a thread.
TakeSlot(t) ==
    /\ co[t] = "waiting"
    /\ ~asked[t]
    /\ Cardinality(Holders) < Slots
    /\ co' = [co EXCEPT ![t] = "marking"]
    /\ marking' = [marking EXCEPT ![t] = "flying"]
    /\ UNCHANGED <<row, role, registered, cancellable, outcome, asked, told, call,
                   seen, boots>>

\* The thread of mark_running commits; its UPDATE has no condition.
MarkRunning(t) ==
    /\ marking[t] = "flying"
    /\ row' = [row EXCEPT ![t] = "running"]
    /\ marking' = [marking EXCEPT ![t] = "landed"]
    /\ UNCHANGED <<role, registered, cancellable, co, outcome, asked, told, call, seen,
                   boots>>

Work(t) ==
    /\ co[t] = "marking"
    /\ marking[t] = "landed"
    /\ ~asked[t]
    /\ co' = [co EXCEPT ![t] = "working"]
    /\ UNCHANGED <<row, role, registered, cancellable, outcome, marking, asked, told,
                   call, seen, boots>>

\* Leaving the body of _run_sub with an outcome: the slot is free again, and
\* _report runs shielded, in a task of its own that has yet to start.
Leave(t, o) ==
    /\ co' = [co EXCEPT ![t] = "unwound"]
    /\ outcome' = [outcome EXCEPT ![t] = o]
    /\ UNCHANGED <<row, role, registered, cancellable, asked, told, call, seen, boots>>

\* The statement of mark_running fails: an exception like any other.
MarkFails(t) ==
    /\ DbFails
    /\ marking[t] = "flying"
    /\ marking' = [marking EXCEPT ![t] = "none"]
    /\ IF co[t] = "marking" /\ ~asked[t]
       THEN Leave(t, "failed")
       ELSE UNCHANGED <<row, role, registered, cancellable, co, outcome, asked, told,
                        call, seen, boots>>

\* The runner returns, raises, or would run into IdleTimeout, which nothing in
\* the program raises.
WorkEnds(t) ==
    /\ co[t] = "working"
    /\ ~asked[t]
    /\ \E o \in {"done", "failed"} : Leave(t, o)
    /\ UNCHANGED marking

\* A faulty Cancelled: a task that waits for a slot swallows the request.
CancelledInSlot(t) ==
    /\ asked[t]
    /\ co[t] \in {"marking", "working"}
    /\ Leave(t, "failed")
    /\ \/ UNCHANGED marking
       \/ marking[t] = "flying" /\ marking' = [marking EXCEPT ![t] = "none"]

\* CancelledError at the await where the coroutine stands.  The thread it
\* awaited goes on, unless it had not been started.
Cancelled(t) ==
    /\ asked[t]
    /\ co[t] \in {"waiting", "marking", "working"}
    /\ Leave(t, "failed")
    /\ \/ UNCHANGED marking
       \/ marking[t] = "flying" /\ marking' = [marking EXCEPT ![t] = "none"]

\* CancelledError before the first step: the coroutine's body, and with it the
\* finally block, never runs.
CancelledUnstarted(t) ==
    /\ asked[t]
    /\ co[t] = "spawned"
    /\ co' = [co EXCEPT ![t] = "over"]
    /\ UNCHANGED <<row, role, registered, cancellable, outcome, marking, asked, told,
                   call, seen, boots>>

-------------------------------------------------------------------------------
(* _report *)

\* A faulty Unregister: leaves the role registered.
UnregisterTaskOnly(t) ==
    /\ co[t] = "unwound"
    /\ registered' = registered
    /\ cancellable' = cancellable \ {t}
    /\ co' = [co EXCEPT ![t] = "finishing"]
    /\ UNCHANGED <<row, role, outcome, marking, asked, told, call, seen, boots>>

\* The first step takes the task out of the registry.
Unregister(t) ==
    /\ co[t] = "unwound"
    /\ registered' = [registered EXCEPT ![role[t]] = NoTask]
    /\ cancellable' = cancellable \ {t}
    /\ co' = [co EXCEPT ![t] = "finishing"]
    /\ UNCHANGED <<row, role, outcome, marking, asked, told, call, seen, boots>>

\* A faulty Finish: an UPDATE that changes no row ends the report.
FinishGivesUp(t) ==
    /\ co[t] = "finishing"
    /\ row' = [row EXCEPT ![t] = IF @ = "running" THEN outcome[t] ELSE @]
    /\ co' = [co EXCEPT ![t] = IF row[t] = "running" THEN "boarding" ELSE "over"]
    /\ UNCHANGED <<role, registered, cancellable, outcome, marking, asked, told, call,
                   seen, boots>>

\* finish_task: the guarded UPDATE overwrites no terminal status but the one
\* a boot wrote.
Finish(t) ==
    /\ co[t] = "finishing"
    /\ row' = [row EXCEPT ![t] = IF @ \in Ended THEN @ ELSE outcome[t]]
    /\ co' = [co EXCEPT ![t] = "boarding"]
    /\ UNCHANGED <<role, registered, cancellable, outcome, marking, asked, told, call,
                   seen, boots>>

\* The board is read and the event given to the room.
Tell(t) ==
    /\ co[t] = "boarding"
    /\ told' = [told EXCEPT ![t] = @ + 1]
    /\ co' = [co EXCEPT ![t] = "over"]
    /\ UNCHANGED <<row, role, registered, cancellable, outcome, marking, asked, call,
                   seen, boots>>

\* A statement of the report fails: the exception is logged and swallowed.
ReportFails(t) ==
    /\ DbFails
    /\ co[t] \in Reporting
    /\ co' = [co EXCEPT ![t] = "over"]
    /\ UNCHANGED <<row, role, registered, cancellable, outcome, marking, asked, told,
                   call, seen, boots>>

-------------------------------------------------------------------------------
(* interrupt: the row is read, and later the registry is looked up *)

ReadTarget(t) ==
    /\ Interrupts
    /\ seen = NoTask
    /\ row[t] \in NotEnded
    /\ seen' = t
    /\ UNCHANGED <<row, role, registered, cancellable, co, outcome, marking, asked,
                   told, call, boots>>

\* sub_tasks has the task and it is not done: cancel it; otherwise 409.
Cancel ==
    /\ seen # NoTask
    /\ seen' = NoTask
    /\ asked' = IF seen \in cancellable /\ co[seen] # "over"
                THEN [asked EXCEPT ![seen] = TRUE] ELSE asked
    /\ UNCHANGED <<row, role, registered, cancellable, co, outcome, marking, told,
                   call, boots>>

-------------------------------------------------------------------------------
(* Boots *)

\* A faulty CleanUp: forgets the tasks that still waited for a slot.
CleanUpRunning ==
    row' = [t \in Tasks |-> IF row[t] = "running" THEN "restarted" ELSE row[t]]

\* cleanup_orphans: what is not ended and was queued before the boot failed.
CleanUp ==
    row' = [t \in Tasks |-> IF row[t] \in NotEnded THEN "restarted" ELSE row[t]]

\* The process dies and boots: coroutines, threads and registries are gone.
\* A failing clean-up does not keep the process from serving.
Restart ==
    /\ boots < MaxBoots
    /\ boots' = boots + 1
    /\ CleanUp \/ (DbFails /\ row' = row)
    /\ registered' = [r \in Roles |-> NoTask]
    /\ cancellable' = {}
    /\ co' = [t \in Tasks |-> IF co[t] = "over" \/ row[t] = "none"
                              THEN co[t] ELSE "dead"]
    /\ marking' = [t \in Tasks |-> "none"]
    /\ call' = [c \in Calls |-> NoCall]
    /\ seen' = NoTask
    /\ UNCHANGED <<role, outcome, asked, told>>

\* Another process boots on the same database while this one works.
PeerBoot ==
    /\ boots < MaxBoots
    /\ boots' = boots + 1
    /\ CleanUp
    /\ UNCHANGED <<role, registered, cancellable, co, outcome, marking, asked, told,
                   call, seen>>

-------------------------------------------------------------------------------
DispatchStep(c) ==
    \/ LookUp(c)
    \/ AnswerExisting(c)
    \/ InsertRow(c)
    \/ InsertFails(c)
    \/ Spawn(c)

\* The steps of a coroutine that wait for nobody outside the program.
OwnStep(t) ==
    \/ Start(t)
    \/ Work(t)
    \/ Cancelled(t)
    \/ CancelledUnstarted(t)
    \/ Unregister(t)
    \/ Finish(t)
    \/ Tell(t)
    \/ ReportFails(t)

MarkStep(t) == MarkRunning(t) \/ MarkFails(t)

Next ==
    \/ \E c \in Calls : DispatchStep(c) \/ \E r \in Roles : Dispatch(c, r)
    \/ \E t \in Tasks : OwnStep(t) \/ TakeSlot(t) \/ MarkStep(t) \/ WorkEnds(t)
    \/ \E t \in Tasks : ReadTarget(t)
    \/ Cancel
    \/ Restart
    \/ PeerBoot

Spec == Init /\ [][Next]_vars

\* The event loop and the threads run, and the semaphore is first come, first
\* served.  Nothing is assumed of the provider: WorkEnds has no fairness.
FairSpec ==
    /\ Spec
    /\ \A c \in Calls : WF_vars(DispatchStep(c)) /\ SF_vars(LookUp(c))
    /\ \A t \in Tasks : WF_vars(OwnStep(t)) /\ WF_vars(MarkStep(t)) /\ SF_vars(TakeSlot(t))

\* The provider of a sub-agent answers, well or badly.
AnsweringSpec == FairSpec /\ \A t \in Tasks : WF_vars(WorkEnds(t))

-------------------------------------------------------------------------------
(* Properties *)

\* The variables have their types.
TypeOK ==
    /\ row \in [Tasks -> {"none", "restarted"} \cup NotEnded \cup Ended]
    /\ role \in [Tasks -> Roles \cup {NoTask}]
    /\ registered \in [Roles -> Tasks \cup {NoTask}]
    /\ cancellable \subseteq Tasks
    /\ co \in [Tasks -> {"none", "over", "dead"} \cup Live \cup Reporting]
    /\ outcome \in [Tasks -> {"none", "done", "failed"}]
    /\ marking \in [Tasks -> {"none", "flying", "landed"}]
    /\ asked \in [Tasks -> BOOLEAN]
    /\ told \in [Tasks -> Nat]
    /\ call \in [Calls -> [pc : {"idle", "asking"} \cup InLock,
                           role : Roles \cup {NoTask}, task : Tasks \cup {NoTask}]]
    /\ seen \in Tasks \cup {NoTask}
    /\ boots \in Nat

\* Two sub-agents of one role never live at once (create_task_guarded): the
\* registry is checked and filled under one lock although a statement is
\* awaited in between.
OneSubPerRole ==
    \A t, u \in Tasks :
        co[t] \in Live /\ co[u] \in Live /\ role[t] = role[u] => t = u

\* No more sub-agents than slots hold a slot of the room's semaphore.
SlotsHold == Cardinality(Holders) <= Slots

\* The registry says exactly which roles run: a role is registered from the
\* spawn of its task to the report of it, and neither longer nor shorter.
RegistryIsExact ==
    \A r \in Roles : \A t \in Tasks :
        registered[r] = t <=> role[t] = r /\ co[t] \in Live

\* Every end of a sub-agent sends exactly one task_done event to the room.
EveryOutcomeIsTold == \A t \in Tasks : co[t] = "over" => told[t] = 1

\* The result is in the database before the main agent hears of it.
PersistedBeforeTold ==
    [][\A t \in Tasks : told'[t] # told[t] => row[t] = outcome[t]]_vars

\* A true terminal status is immutable; only the status a boot wrote may give
\* way to the outcome of a sub-agent that outlived the boot.
TerminalIsFinal ==
    [][\A t \in Tasks : row[t] \in Ended => row'[t] = row[t]]_vars

\* Nothing on the board waits for a process that is gone: a task that is queued
\* or running has a dispatch or a coroutine that will end it.
BoardIsTrue ==
    \A t \in Tasks : row[t] \in NotEnded =>
        \/ co[t] \in Live \cup Reporting
        \/ \E c \in Calls : call[c].task = t

\* A sub-agent whose provider answers is told of, unless its process dies.
SpawnedIsTold ==
    \A t \in Tasks : co[t] \in Live ~> told[t] = 1 \/ co[t] = "dead"

\* A dispatch never waits for a sub-agent: it returns even when the one that
\* holds the role never ends.
DispatchReturns ==
    \A c \in Calls : call[c].pc # "idle" ~> call[c].pc = "idle"

\* A cancelled task ends, wherever the request met it and whatever the
\* provider does.
CancelEnds == \A t \in Tasks : asked[t] ~> co[t] \in {"over", "dead"}
===============================================================================
