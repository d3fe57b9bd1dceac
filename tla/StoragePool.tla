----------------------------- MODULE StoragePool ------------------------------
(***************************************************************************)
(* The connection pool of the core store (storage/postgres.py) and the     *)
(* threads that borrow from it.  A thread borrows one connection, uses it  *)
(* and gives it back; a gate call (Nested) reads the verdict on a second   *)
(* connection while it holds its transaction (orch/verdict.py), and a read *)
(* that gets no connection counts as no verdict.                           *)
(*                                                                         *)
(* close() may come while connections are out: it closes them, forgets the *)
(* pool and its semaphore, and the next caller builds a new generation.    *)
(* The pool proper is psycopg2's; what the code relies on is modelled:     *)
(* getconn fails on a closed pool, on one that has PoolMax connections out *)
(* and whenever the new connection it makes is refused by the database;    *)
(* putconn on a closed pool or a connection the pool did not hand out.     *)
(***************************************************************************)
EXTENDS Integers, FiniteSets

CONSTANTS
    Threads,        \* calls that need the store
    Nested,         \* those of them that borrow twice
    PoolMax,        \* SHB_DB_POOL_MAX
    MaxGen          \* bound: pools built

ASSUME PoolAssumption ==
    /\ Nested \subseteq Threads
    /\ IsFiniteSet(Threads)
    /\ PoolMax \in Nat \ {0}
    /\ MaxGen \in Nat \ {0}

Gens  == 1 .. MaxGen
NoGen == 0

VARIABLES
    pool,       \* self._pool and self._slots, set and cleared together: a generation
    built,      \* generations built so far
    closed,     \* generations whose pool is closed
    free,       \* free[g]: the value of the semaphore of g
    pc,         \* where a thread is
    giving,     \* it gives the connection back, or borrows it
    at,         \* the lease it works on: 2 while it reads the verdict
    ref,        \* its local variables pool
    sem,        \*   and slots
    slot,       \* slot[t][i]: whose semaphore the i-th lease took from
    conn        \* conn[t][i]: which pool handed its connection out

poolVars == <<pool, built, closed, free, pc, giving, at, ref, sem, slot, conn>>

LeaseIds == Threads \X {1, 2}
Out(g)   == {l \in LeaseIds : conn[l] = g}
Held(g)  == {l \in LeaseIds : slot[l] = g}
Current(t) == <<t, at[t]>>

-------------------------------------------------------------------------------

PoolInit ==
    /\ pool = NoGen
    /\ built = 0
    /\ closed = {}
    /\ free = [g \in Gens |-> PoolMax]
    /\ pc = [t \in Threads |-> "idle"]
    /\ giving = [t \in Threads |-> FALSE]
    /\ at = [t \in Threads |-> 1]
    /\ ref = [t \in Threads |-> NoGen]
    /\ sem = [t \in Threads |-> NoGen]
    /\ slot = [l \in LeaseIds |-> NoGen]
    /\ conn = [l \in LeaseIds |-> NoGen]

\* connect_core: a lease acquires in its constructor.
Borrow(t) ==
    /\ pc[t] = "idle"
    /\ pc' = [pc EXCEPT ![t] = "get"]
    /\ UNCHANGED <<pool, built, closed, free, giving, at, ref, sem, slot, conn>>

\* _get_pool: the caller that finds none builds one under the lock.
GetPool(t) ==
    /\ pc[t] = "get"
    /\ \/ /\ pool # NoGen
          /\ ref' = [ref EXCEPT ![t] = pool]
          /\ UNCHANGED <<pool, built>>
       \/ /\ pool = NoGen
          /\ built < MaxGen
          /\ built' = built + 1
          /\ pool' = built + 1
          /\ ref' = [ref EXCEPT ![t] = built + 1]
    /\ pc' = [pc EXCEPT ![t] = "slots"]
    /\ UNCHANGED <<closed, free, giving, at, sem, slot, conn>>

\* The thread goes on after its lease has failed or been given back.
Leave(t) ==
    IF at[t] = 2
    THEN /\ pc' = [pc EXCEPT ![t] = "get"]
         /\ at' = [at EXCEPT ![t] = 1]
         /\ giving' = [giving EXCEPT ![t] = TRUE]
    ELSE /\ pc' = [pc EXCEPT ![t] = IF giving[t] THEN "done" ELSE "refused"]
         /\ at' = at
         /\ giving' = [giving EXCEPT ![t] = FALSE]

\* The end of an acquire that failed or of a release: after the second lease
\* the first one goes back, after the first one the call is over.
End(t) ==
    /\ ref' = [ref EXCEPT ![t] = NoGen]
    /\ sem' = [sem EXCEPT ![t] = NoGen]
    /\ Leave(t)

\* Not even the first connection of a new pool can be made: self._pool stays
\* None.  On the way out that is an acquire that fails before it has a slot; on
\* the way back a release that fails before its try, with slot and connection of
\* a pool that has been closed.
BuildFails(t) ==
    /\ pc[t] = "get"
    /\ pool = NoGen
    /\ slot' = [slot EXCEPT ![Current(t)] = NoGen]
    /\ conn' = [conn EXCEPT ![Current(t)] = NoGen]
    /\ End(t)
    /\ UNCHANGED <<pool, built, closed, free>>

\* slots = self._slots, a second read: the pool may have been closed, or
\* closed and built again, since the first one.
ReadSlots(t) ==
    /\ pc[t] = "slots"
    /\ \/ /\ giving[t] \/ pool # NoGen
          /\ sem' = [sem EXCEPT ![t] = pool]
          /\ pc' = [pc EXCEPT ![t] = IF giving[t] THEN "put" ELSE "wait"]
          /\ UNCHANGED <<at, giving, ref>>
       \/ ~giving[t] /\ pool = NoGen /\ End(t)
    /\ UNCHANGED <<pool, built, closed, free, slot, conn>>

TakeSlot(t) ==
    /\ pc[t] = "wait"
    /\ free[sem[t]] > 0
    /\ free' = [free EXCEPT ![sem[t]] = @ - 1]
    /\ slot' = [slot EXCEPT ![Current(t)] = sem[t]]
    /\ pc' = [pc EXCEPT ![t] = "conn"]
    /\ UNCHANGED <<pool, built, closed, giving, at, ref, sem, conn>>

\* A faulty TimeOut: the wait ends only when the pool is closed.
TimeOutWhenClosed(t) ==
    /\ pc[t] = "wait"
    /\ free[sem[t]] = 0
    /\ sem[t] \in closed
    /\ End(t)
    /\ UNCHANGED <<pool, built, closed, free, slot, conn>>

\* SHB_DB_POOL_ACQUIRE_TIMEOUT_SECONDS pass without a free slot.
TimeOut(t) ==
    /\ pc[t] = "wait"
    /\ free[sem[t]] = 0
    /\ End(t)
    /\ UNCHANGED <<pool, built, closed, free, slot, conn>>

\* The bounded semaphore raises instead of growing past PoolMax, and a pool that
\* was closed has no semaphore.
Released(g) ==
    [h \in Gens |-> IF h = g /\ free[h] < PoolMax THEN free[h] + 1 ELSE free[h]]

\* A faulty GetConn: the slot is not given back when getconn fails.
GetConnLeaking(t) ==
    /\ pc[t] = "conn"
    /\ \/ /\ ref[t] \notin closed
          /\ Cardinality(Out(ref[t])) < PoolMax
          /\ conn' = [conn EXCEPT ![Current(t)] = ref[t]]
          /\ pc' = [pc EXCEPT ![t] = "work"]
          /\ UNCHANGED <<free, slot, at, giving, ref, sem>>
       \/ /\ slot' = [slot EXCEPT ![Current(t)] = NoGen]
          /\ End(t)
          /\ UNCHANGED <<free, conn>>
    /\ UNCHANGED <<pool, built, closed>>

\* pool.getconn() and its except branch: whatever fails, a closed pool, a full
\* one or the connection that a live pool with room cannot make, gives the slot
\* back.
GetConn(t) ==
    /\ pc[t] = "conn"
    /\ \/ /\ ref[t] \notin closed
          /\ Cardinality(Out(ref[t])) < PoolMax
          /\ conn' = [conn EXCEPT ![Current(t)] = ref[t]]
          /\ pc' = [pc EXCEPT ![t] = "work"]
          /\ UNCHANGED <<free, slot, at, giving, ref, sem>>
       \/ /\ free' = Released(sem[t])
          /\ slot' = [slot EXCEPT ![Current(t)] = NoGen]
          /\ End(t)
          /\ UNCHANGED conn
    /\ UNCHANGED <<pool, built, closed>>

\* latest_verdict_for_action, inside the transaction of the gate call.
ReadVerdict(t) ==
    /\ pc[t] = "work"
    /\ t \in Nested
    /\ at[t] = 1
    /\ pc' = [pc EXCEPT ![t] = "get"]
    /\ at' = [at EXCEPT ![t] = 2]
    /\ UNCHANGED <<pool, built, closed, free, giving, ref, sem, slot, conn>>

\* ConnectionLease.close.
GiveBack(t) ==
    /\ pc[t] = "work"
    /\ t \in Nested => at[t] = 2
    /\ giving' = [giving EXCEPT ![t] = TRUE]
    /\ pc' = [pc EXCEPT ![t] = "get"]
    /\ UNCHANGED <<pool, built, closed, free, at, ref, sem, slot, conn>>

\* release: putconn, which may raise, and in any case the slot.
Put(t) ==
    /\ pc[t] = "put"
    /\ conn' = [conn EXCEPT ![Current(t)] = NoGen]
    /\ slot' = [slot EXCEPT ![Current(t)] = NoGen]
    /\ free' = Released(sem[t])
    /\ End(t)
    /\ UNCHANGED <<pool, built, closed>>

\* close(), at shutdown and when the registry is reset.
ClosePool ==
    /\ pool # NoGen
    /\ built < MaxGen
    /\ closed' = closed \cup {pool}
    /\ pool' = NoGen
    /\ UNCHANGED <<built, free, pc, giving, at, ref, sem, slot, conn>>

ThreadStep(t) ==
    \/ GetPool(t) \/ BuildFails(t) \/ ReadSlots(t) \/ TakeSlot(t) \/ TimeOut(t)
    \/ GetConn(t) \/ ReadVerdict(t) \/ GiveBack(t) \/ Put(t)

PoolNext ==
    \/ \E t \in Threads : Borrow(t) \/ ThreadStep(t)
    \/ ClosePool

PoolFairness == \A t \in Threads : WF_poolVars(ThreadStep(t))
PoolSpec == PoolInit /\ [][PoolNext]_poolVars /\ PoolFairness

-------------------------------------------------------------------------------

\* No slot is ever lost, whatever fails (a new connection of a live pool, a full
\* pool, a pool that cannot be built) or is closed while connections are out: of
\* the pool in use, the slots that are free and those that are held are together
\* at least PoolMax, and never more while no pool has been closed (acquire,
\* release).
SlotsBalance ==
    pool # NoGen =>
        /\ free[pool] <= PoolMax
        /\ free[pool] + Cardinality(Held(pool)) >= PoolMax
        /\ closed = {} => free[pool] + Cardinality(Held(pool)) = PoolMax

\* Everyone who asks for a connection gets an answer, also when every slot is
\* held by calls that each wait for a second one: the wait is bounded
\* (acquire, latest_verdict_for_action).
BorrowerReturns ==
    \A t \in Threads : pc[t] # "idle" ~> pc[t] \in {"done", "refused"}
=============================================================================
