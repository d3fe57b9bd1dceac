---------------------------- MODULE WaitingProofs -----------------------------
(***************************************************************************)
(* Theorems about what callers wait for.                                   *)
(*   StoragePool: any number of threads, nested or not, any size of the    *)
(*   pool and any number of times it is closed and built.                  *)
(*   FormIntake: any cards, accounts and submissions, any numbers that are *)
(*   taken at the start and any number of deployments.                     *)
(***************************************************************************)
EXTENDS StoragePool, FormIntake, FiniteSetTheorems, TLAPS

-------------------------------------------------------------------------------
(* StoragePool                                                               *)

Somewhere == Gens \cup {NoGen}

PoolTypeOK ==
    /\ pool \in Somewhere
    /\ built \in 0 .. MaxGen
    /\ closed \subseteq Gens
    /\ free \in [Gens -> 0 .. PoolMax]
    /\ pc \in [Threads -> {"idle", "get", "slots", "wait", "conn", "work", "put", "done", "refused"}]
    /\ giving \in [Threads -> BOOLEAN]
    /\ at \in [Threads -> {1, 2}]
    /\ ref \in [Threads -> Somewhere]
    /\ sem \in [Threads -> Somewhere]
    /\ slot \in [LeaseIds -> Somewhere]
    /\ conn \in [LeaseIds -> Somewhere]

\* The pool in use is the last one built, and all before it are closed.
PoolsInOrder ==
    /\ pool # NoGen => pool = built
    /\ closed = {g \in Gens : g <= built /\ g # pool}

\* A thread has a slot from the semaphore to the release, the first one while
\* it works on the second.
SlotsInHand ==
    \A t \in Threads :
        /\ at[t] = 1 => slot[<<t, 2>>] = NoGen
        /\ at[t] = 2 => slot[<<t, 1>>] # NoGen
        /\ slot[Current(t)] # NoGen <=> (giving[t] \/ pc[t] \in {"conn", "work"})
        /\ pc[t] \in {"idle", "wait", "conn", "work", "done", "refused"} => ~giving[t]
        /\ pc[t] = "put" => giving[t]

\* The semaphore it waits for is one that was built, the one it got its slot
\* from; and it returns the slot there, unless that pool has been closed.
SlotsGoHome ==
    \A t \in Threads :
        /\ pc[t] \in {"wait", "conn"} => sem[t] \in 1 .. built
        /\ pc[t] = "conn" => slot[Current(t)] = sem[t]
        /\ pc[t] = "put" => sem[t] = slot[Current(t)] \/ slot[Current(t)] \in closed

HeldFromBuilt == \A l \in LeaseIds : slot[l] <= built

Balanced(g) ==
    /\ g \notin closed => free[g] + Cardinality(Held(g)) >= PoolMax
    /\ closed = {} => free[g] + Cardinality(Held(g)) = PoolMax

AllBalanced == \A g \in Gens : Balanced(g)

PoolInv ==
    /\ PoolTypeOK
    /\ PoolsInOrder
    /\ SlotsInHand
    /\ SlotsGoHome
    /\ HeldFromBuilt
    /\ AllBalanced

-------------------------------------------------------------------------------

LEMMA Ranges == /\ Somewhere \in SUBSET Nat
                /\ NoGen \notin Gens /\ NoGen = 0 /\ Gens \subseteq Nat
                /\ \A t \in Threads : <<t, 1>> \in LeaseIds /\ <<t, 2>> \in LeaseIds
BY PoolAssumption DEF Somewhere, Gens, NoGen, LeaseIds

\* The leases of a generation can be counted.
LEMMA HeldFinite ==
  ASSUME NEW g PROVE IsFiniteSet(Held(g)) /\ Cardinality(Held(g)) \in Nat
<1>1. IsFiniteSet({1, 2})
  <2>1. IsFiniteSet({1})
    BY FS_Singleton
  <2>2. IsFiniteSet({1} \cup {2})
    BY <2>1, FS_AddElement
  <2> QED BY <2>2
<1>2. IsFiniteSet(LeaseIds)
  BY <1>1, PoolAssumption, FS_Product DEF LeaseIds
<1>3. Held(g) \in SUBSET LeaseIds
  BY DEF Held
<1> QED BY <1>2, <1>3, FS_Subset, FS_CardinalityType

\* Taking a slot adds one lease to those of its generation and to no other.
LEMMA HeldGrows ==
  ASSUME NEW l \in LeaseIds, NEW g \in Gens, slot \in [LeaseIds -> Somewhere],
         slot[l] = NoGen, slot' = [slot EXCEPT ![l] = g]
  PROVE  /\ Cardinality(Held(g)') = Cardinality(Held(g)) + 1
         /\ \A h \in Gens \ {g} : Cardinality(Held(h)') = Cardinality(Held(h))
<1>1. Held(g)' = Held(g) \cup {l} /\ l \notin Held(g)
  BY Ranges DEF Held
<1>2. \A h \in Gens \ {g} : Held(h)' = Held(h)
  BY Ranges DEF Held
<1>3. Cardinality(Held(g)') = Cardinality(Held(g)) + 1
  BY <1>1, HeldFinite, FS_AddElement
<1> QED BY <1>2, <1>3

\* Clearing a slot takes one lease from those of its generation only.
LEMMA HeldShrinks ==
  ASSUME NEW l \in LeaseIds, NEW g \in Gens, slot \in [LeaseIds -> Somewhere],
         slot[l] = g, slot' = [slot EXCEPT ![l] = NoGen]
  PROVE  /\ Cardinality(Held(g)') = Cardinality(Held(g)) - 1
         /\ \A h \in Gens \ {g} : Cardinality(Held(h)') = Cardinality(Held(h))
<1>1. Held(g)' = Held(g) \ {l} /\ l \in Held(g)
  BY Ranges DEF Held
<1>2. \A h \in Gens \ {g} : Held(h)' = Held(h)
  BY Ranges DEF Held
<1>3. Cardinality(Held(g) \ {l}) = Cardinality(Held(g)) - 1
  BY <1>1, HeldFinite, FS_RemoveElement
<1> QED BY <1>1, <1>2, <1>3

\* A step that moves no slot and closes no pool keeps the balance.
LEMMA BalanceStays ==
  ASSUME PoolInv, UNCHANGED <<closed, free, slot>>
  PROVE  AllBalanced'
BY DEF PoolInv, AllBalanced, Balanced, Held

LEMMA PoolStarts == PoolInit => PoolInv
<1> SUFFICES ASSUME PoolInit PROVE PoolInv
  OBVIOUS
<1>1. PoolTypeOK
  BY PoolAssumption, Ranges DEF PoolInit, PoolTypeOK, Somewhere
<1>2. PoolsInOrder /\ HeldFromBuilt
  BY Ranges DEF PoolInit, PoolsInOrder, HeldFromBuilt, Gens
<1>4. SlotsInHand /\ SlotsGoHome
  BY Ranges DEF PoolInit, SlotsInHand, SlotsGoHome, Current
<1>3. ASSUME NEW g \in Gens PROVE Balanced(g)
  <2>1. Held(g) = {}
    BY Ranges DEF PoolInit, Held
  <2>2. Cardinality(Held(g)) = 0
    BY <2>1, FS_EmptySet
  <2> QED BY <2>2, PoolAssumption DEF PoolInit, Balanced
<1> QED BY <1>1, <1>2, <1>3, <1>4 DEF PoolInv, AllBalanced

-------------------------------------------------------------------------------
(* The steps *)

LEMMA BorrowKeeps ==
  ASSUME PoolInv, NEW t \in Threads, Borrow(t)
  PROVE  PoolInv'
<1>1. PoolTypeOK'
  BY DEF Borrow, PoolInv, PoolTypeOK
<1>2. PoolsInOrder' /\ HeldFromBuilt'
  BY DEF Borrow, PoolInv, PoolsInOrder, HeldFromBuilt
<1>3. SlotsInHand' /\ SlotsGoHome'
  BY DEF Borrow, PoolInv, PoolTypeOK, SlotsInHand, SlotsGoHome, Current
<1> QED BY <1>1, <1>2, <1>3, BalanceStays DEF Borrow, PoolInv

LEMMA GetPoolKeeps ==
  ASSUME PoolInv, NEW t \in Threads, GetPool(t)
  PROVE  PoolInv'
<1>1. PoolTypeOK'
  <2>1. pool' \in Somewhere /\ built' \in 0 .. MaxGen /\ ref' \in [Threads -> Somewhere]
    <3>1. CASE pool # NoGen /\ ref' = [ref EXCEPT ![t] = pool] /\ UNCHANGED <<pool, built>>
      BY <3>1 DEF PoolInv, PoolTypeOK
    <3>2. CASE /\ built < MaxGen /\ built' = built + 1 /\ pool' = built + 1
               /\ ref' = [ref EXCEPT ![t] = built + 1]
      <4>1. built + 1 \in Somewhere /\ built + 1 \in 0 .. MaxGen
        BY <3>2, PoolAssumption DEF PoolInv, PoolTypeOK, Somewhere, Gens
      <4> QED BY <3>2, <4>1 DEF PoolInv, PoolTypeOK
    <3> QED BY <3>1, <3>2 DEF GetPool
  <2>2. pc' \in [Threads -> {"idle", "get", "slots", "wait", "conn", "work", "put", "done", "refused"}]
    BY DEF GetPool, PoolInv, PoolTypeOK
  <2> QED BY <2>1, <2>2 DEF GetPool, PoolInv, PoolTypeOK
<1>2. PoolsInOrder'
  <2>1. CASE UNCHANGED <<pool, built>>
    BY <2>1 DEF GetPool, PoolInv, PoolsInOrder
  <2>2. CASE pool = NoGen /\ built' = built + 1 /\ pool' = built + 1
    <3>1. closed = {g \in Gens : g <= built}
      BY <2>2, Ranges DEF PoolInv, PoolsInOrder
    <3>2. closed' = {g \in Gens : g <= built' /\ g # pool'}
      BY <2>2, <3>1, Ranges DEF GetPool, PoolInv, PoolTypeOK, Gens
    <3> QED BY <2>2, <3>2 DEF PoolsInOrder
  <2> QED BY <2>1, <2>2 DEF GetPool
<1>5. HeldFromBuilt'
  <2>1. built <= built' /\ built \in Nat /\ built' \in Nat
    <3>1. built' = built \/ built' = built + 1
      BY DEF GetPool
    <3>2. built \in Nat
      BY PoolAssumption DEF PoolInv, PoolTypeOK
    <3> QED BY <3>1, <3>2
  <2>2. \A l \in LeaseIds : slot[l] \in Somewhere
    BY DEF PoolInv, PoolTypeOK
  <2>3. \A l \in LeaseIds : slot[l] \in Nat
    BY <2>2, Ranges
  <2>4. slot' = slot /\ \A l \in LeaseIds : slot[l] <= built
    BY DEF GetPool, PoolInv, HeldFromBuilt
  <2>5. ASSUME NEW l \in LeaseIds PROVE slot'[l] <= built'
    <3>1. slot[l] \in Nat /\ slot[l] <= built
      BY <2>3, <2>4
    <3> QED BY <2>1, <2>4, <3>1
  <2> QED BY <2>5 DEF HeldFromBuilt
<1>3. SlotsInHand'
  BY DEF GetPool, PoolInv, PoolTypeOK, SlotsInHand, Current
<1>4. SlotsGoHome'
  BY DEF GetPool, PoolInv, PoolTypeOK, SlotsGoHome, Current
<1> QED BY <1>1, <1>2, <1>3, <1>4, <1>5, BalanceStays DEF GetPool, PoolInv

\* How a call leaves: after the second lease to give back the first, after the
\* first for good.
LEMMA LeaveCases ==
  ASSUME PoolTypeOK, NEW t \in Threads, End(t)
  PROVE  /\ \/ /\ at[t] = 2 /\ at' = [at EXCEPT ![t] = 1]
               /\ pc' = [pc EXCEPT ![t] = "get"] /\ giving' = [giving EXCEPT ![t] = TRUE]
            \/ /\ at[t] = 1 /\ at' = at
               /\ pc' \in {[pc EXCEPT ![t] = "done"], [pc EXCEPT ![t] = "refused"]}
               /\ giving' = [giving EXCEPT ![t] = FALSE]
         /\ ref' = [ref EXCEPT ![t] = NoGen]
         /\ sem' = [sem EXCEPT ![t] = NoGen]
BY DEF PoolTypeOK, End, Leave

\* A lease that ends without a slot keeps what holds of slots: the other lease
\* of its thread, and those of other threads, are as they were.
LEMMA EndKeeps ==
  ASSUME PoolInv, NEW t \in Threads, End(t),
         slot \in [LeaseIds -> Somewhere], slot' = [slot EXCEPT ![Current(t)] = NoGen],
         UNCHANGED <<pool, built, closed>>
  PROVE  SlotsInHand' /\ SlotsGoHome' /\ HeldFromBuilt'
<1>1. \A u \in Threads, i \in {1, 2} :
         slot'[<<u, i>>] = IF u = t /\ i = at[t] THEN NoGen ELSE slot[<<u, i>>]
  BY DEF PoolInv, PoolTypeOK, Current, LeaseIds
<1>2. SlotsInHand'
  <2> SUFFICES ASSUME NEW u \in Threads
               PROVE  /\ at'[u] = 1 => slot'[<<u, 2>>] = NoGen
                      /\ at'[u] = 2 => slot'[<<u, 1>>] # NoGen
                      /\ slot'[<<u, at'[u]>>] # NoGen
                            <=> (giving'[u] \/ pc'[u] \in {"conn", "work"})
                      /\ pc'[u] \in {"idle", "wait", "conn", "work", "done", "refused"} => ~giving'[u]
                      /\ pc'[u] = "put" => giving'[u]
    BY DEF SlotsInHand, Current
  <2>1. CASE u = t
    BY <1>1, <2>1, LeaveCases DEF PoolInv, PoolTypeOK, SlotsInHand, Current
  <2>2. CASE u # t
    <3>1. at'[u] = at[u] /\ giving'[u] = giving[u] /\ pc'[u] = pc[u]
      BY <2>2, LeaveCases DEF PoolInv, PoolTypeOK
    <3> QED BY <1>1, <2>2, <3>1 DEF PoolInv, PoolTypeOK, SlotsInHand, Current
  <2> QED BY <2>1, <2>2
<1>3. SlotsGoHome'
  <2> SUFFICES ASSUME NEW u \in Threads
               PROVE  /\ pc'[u] \in {"wait", "conn"} => sem'[u] \in 1 .. built
                      /\ pc'[u] = "conn" => slot'[<<u, at'[u]>>] = sem'[u]
                      /\ pc'[u] = "put" => \/ sem'[u] = slot'[<<u, at'[u]>>]
                                           \/ slot'[<<u, at'[u]>>] \in closed
    BY DEF SlotsGoHome, Current
  <2>1. CASE u = t
    BY <2>1, LeaveCases DEF PoolInv, PoolTypeOK
  <2>2. CASE u # t
    <3>1. at'[u] = at[u] /\ sem'[u] = sem[u] /\ pc'[u] = pc[u]
      BY <2>2, LeaveCases DEF PoolInv, PoolTypeOK
    <3> QED BY <1>1, <2>2, <3>1 DEF PoolInv, PoolTypeOK, SlotsGoHome, Current
  <2> QED BY <2>1, <2>2
<1>4. HeldFromBuilt'
  BY Ranges DEF PoolInv, PoolTypeOK, HeldFromBuilt
<1> QED BY <1>2, <1>3, <1>4

\* A slot that is given up goes to the semaphore it came from, or to one that
\* matters no less: its own pool is closed then.
LEMMA ReleaseBalances ==
  ASSUME PoolInv, NEW l \in LeaseIds, NEW h \in Gens, slot[l] = h, NEW m \in Somewhere,
         m = h \/ h \in closed,
         slot' = [slot EXCEPT ![l] = NoGen], free' = Released(m), UNCHANGED closed
  PROVE  free' \in [Gens -> 0 .. PoolMax] /\ AllBalanced'
<1>1. free' \in [Gens -> 0 .. PoolMax]
  BY PoolAssumption DEF PoolInv, PoolTypeOK, Released
<1>2. ASSUME NEW g \in Gens PROVE Balanced(g)'
  <2>1. /\ free[g] \in 0 .. PoolMax /\ free'[g] \in 0 .. PoolMax
        /\ free'[g] = IF g = m /\ free[g] < PoolMax THEN free[g] + 1 ELSE free[g]
    BY <1>1 DEF PoolInv, PoolTypeOK, Released
  <2>2. Cardinality(Held(g)) \in Nat /\ Cardinality(Held(g)') \in Nat
    <3>1. Held(g)' \in SUBSET (Held(g) \cup {l})
      BY Ranges DEF PoolInv, PoolTypeOK, Held
    <3>2. IsFiniteSet(Held(g)')
      BY <3>1, HeldFinite, FS_AddElement, FS_Subset
    <3> QED BY <3>2, HeldFinite, FS_CardinalityType
  <2>3. CASE g = h
    <3>1. Cardinality(Held(g)') = Cardinality(Held(g)) - 1
      BY <2>3, HeldShrinks DEF PoolInv, PoolTypeOK
    <3> QED BY <2>1, <2>2, <2>3, <3>1, PoolAssumption DEF PoolInv, AllBalanced, Balanced
  <2>4. CASE g # h
    <3>1. Cardinality(Held(g)') = Cardinality(Held(g))
      BY <2>4, HeldShrinks DEF PoolInv, PoolTypeOK
    <3>2. closed = {} => g # m
      BY <2>4
    <3> QED BY <2>1, <2>2, <3>1, <3>2, PoolAssumption DEF PoolInv, AllBalanced, Balanced
  <2> QED BY <2>3, <2>4
<1> QED BY <1>1, <1>2 DEF AllBalanced

LEMMA EndTypes ==
  ASSUME PoolTypeOK, NEW t \in Threads, End(t)
  PROVE  /\ pc' \in [Threads -> {"idle", "get", "slots", "wait", "conn", "work", "put", "done", "refused"}]
         /\ giving' \in [Threads -> BOOLEAN]
         /\ at' \in [Threads -> {1, 2}]
         /\ ref' \in [Threads -> Somewhere]
         /\ sem' \in [Threads -> Somewhere]
BY LeaveCases DEF PoolTypeOK, Somewhere

\* An acquire that ends without a slot.
LEMMA EmptyEndKeeps ==
  ASSUME PoolInv, NEW t \in Threads, End(t), slot[Current(t)] = NoGen,
         UNCHANGED <<pool, built, closed, free, slot, conn>>
  PROVE  PoolInv'
<1>1. slot' = [slot EXCEPT ![Current(t)] = NoGen]
  BY DEF PoolInv, PoolTypeOK
<1>2. SlotsInHand' /\ SlotsGoHome' /\ HeldFromBuilt'
  BY <1>1, EndKeeps DEF PoolInv, PoolTypeOK
<1>3. PoolTypeOK'
  BY EndTypes DEF PoolInv, PoolTypeOK
<1> QED BY <1>2, <1>3, BalanceStays DEF PoolInv, PoolsInOrder

LEMMA ReadSlotsKeeps ==
  ASSUME PoolInv, NEW t \in Threads, ReadSlots(t)
  PROVE  PoolInv'
<1>1. CASE /\ giving[t] \/ pool # NoGen
           /\ sem' = [sem EXCEPT ![t] = pool]
           /\ pc' = [pc EXCEPT ![t] = IF giving[t] THEN "put" ELSE "wait"]
           /\ UNCHANGED <<at, giving, ref>>
  <2>1. PoolTypeOK'
    BY <1>1 DEF ReadSlots, PoolInv, PoolTypeOK
  <2>2. PoolsInOrder' /\ HeldFromBuilt'
    BY DEF ReadSlots, PoolInv, PoolsInOrder, HeldFromBuilt
  <2>3. SlotsInHand'
    BY <1>1 DEF ReadSlots, PoolInv, PoolTypeOK, SlotsInHand, Current
  <2>4. SlotsGoHome'
    <3>1. pool # NoGen => pool \in 1 .. built
      BY Ranges, PoolAssumption DEF PoolInv, PoolTypeOK, PoolsInOrder, NoGen
    <3>2. slot[Current(t)] # NoGen => slot[Current(t)] = pool \/ slot[Current(t)] \in closed
      BY DEF PoolInv, PoolTypeOK, PoolsInOrder, HeldFromBuilt, Current, LeaseIds, Somewhere
    <3>3. giving[t] => slot[Current(t)] # NoGen
      BY DEF PoolInv, SlotsInHand
    <3> QED BY <1>1, <3>1, <3>2, <3>3 DEF ReadSlots, PoolInv, PoolTypeOK, SlotsGoHome, Current
  <2> QED BY <2>1, <2>2, <2>3, <2>4, BalanceStays DEF ReadSlots, PoolInv
<1>2. CASE ~giving[t] /\ pool = NoGen /\ End(t)
  <2>1. slot[Current(t)] = NoGen
    BY <1>2 DEF ReadSlots, PoolInv, SlotsInHand
  <2> QED BY <1>2, <2>1, EmptyEndKeeps DEF ReadSlots
<1> QED BY <1>1, <1>2 DEF ReadSlots

LEMMA TimeOutKeeps ==
  ASSUME PoolInv, NEW t \in Threads, TimeOut(t)
  PROVE  PoolInv'
<1>1. slot[Current(t)] = NoGen
  BY DEF TimeOut, PoolInv, SlotsInHand
<1> QED BY <1>1, EmptyEndKeeps DEF TimeOut

LEMMA TakeSlotKeeps ==
  ASSUME PoolInv, NEW t \in Threads, TakeSlot(t)
  PROVE  PoolInv'
<1> DEFINE g == sem[t]
<1>1. g \in 1 .. built /\ g \in Gens /\ free[g] \in 1 .. PoolMax /\ slot[Current(t)] = NoGen
  <2>1. g \in 1 .. built /\ slot[Current(t)] = NoGen
    BY DEF TakeSlot, PoolInv, SlotsGoHome, SlotsInHand
  <2>2. g \in Gens
    BY <2>1, PoolAssumption DEF PoolInv, PoolTypeOK, Gens
  <2> QED BY <2>1, <2>2, PoolAssumption DEF TakeSlot, PoolInv, PoolTypeOK
<1>2. Current(t) \in LeaseIds
  BY DEF PoolInv, PoolTypeOK, Current, LeaseIds
<1>3. free' = [free EXCEPT ![g] = free[g] - 1] /\ slot' = [slot EXCEPT ![Current(t)] = g]
  BY DEF TakeSlot
<1>4. PoolTypeOK'
  <2>1. free' \in [Gens -> 0 .. PoolMax]
    <3>1. free[g] - 1 \in 0 .. PoolMax
      BY <1>1, PoolAssumption
    <3> QED BY <1>1, <1>3, <3>1 DEF PoolInv, PoolTypeOK
  <2>2. slot' \in [LeaseIds -> Somewhere]
    BY <1>1, <1>3 DEF PoolInv, PoolTypeOK, Somewhere
  <2>3. pc' \in [Threads -> {"idle", "get", "slots", "wait", "conn", "work", "put", "done", "refused"}]
    BY DEF TakeSlot, PoolInv, PoolTypeOK
  <2> QED BY <2>1, <2>2, <2>3 DEF TakeSlot, PoolInv, PoolTypeOK
<1>5. \A u \in Threads, i \in {1, 2} :
         slot'[<<u, i>>] = IF u = t /\ i = at[t] THEN g ELSE slot[<<u, i>>]
  BY <1>3 DEF PoolInv, PoolTypeOK, Current, LeaseIds
<1>6. SlotsInHand'
  <2> SUFFICES ASSUME NEW u \in Threads
               PROVE  /\ at[u] = 1 => slot'[<<u, 2>>] = NoGen
                      /\ at[u] = 2 => slot'[<<u, 1>>] # NoGen
                      /\ slot'[<<u, at[u]>>] # NoGen <=> (giving[u] \/ pc'[u] \in {"conn", "work"})
                      /\ pc'[u] \in {"idle", "wait", "conn", "work", "done", "refused"} => ~giving[u]
                      /\ pc'[u] = "put" => giving[u]
    BY DEF TakeSlot, SlotsInHand, Current
  <2>1. g # NoGen
    BY <1>1, Ranges
  <2>2. pc[t] = "wait" /\ pc'[u] = IF u = t THEN "conn" ELSE pc[u]
    BY DEF TakeSlot, PoolInv, PoolTypeOK
  <2> HIDE DEF g
  <2> QED BY <1>5, <2>1, <2>2 DEF PoolInv, PoolTypeOK, SlotsInHand, Current
<1>7. SlotsGoHome'
  <2> SUFFICES ASSUME NEW u \in Threads
               PROVE  /\ pc'[u] \in {"wait", "conn"} => sem[u] \in 1 .. built
                      /\ pc'[u] = "conn" => slot'[<<u, at[u]>>] = sem[u]
                      /\ pc'[u] = "put" => \/ sem[u] = slot'[<<u, at[u]>>]
                                           \/ slot'[<<u, at[u]>>] \in closed
    BY DEF TakeSlot, SlotsGoHome, Current
  <2>2. pc[t] = "wait" /\ pc'[u] = IF u = t THEN "conn" ELSE pc[u]
    BY DEF TakeSlot, PoolInv, PoolTypeOK
  <2> QED BY <1>5, <2>2 DEF PoolInv, PoolTypeOK, SlotsGoHome, Current
<1>8. HeldFromBuilt' /\ PoolsInOrder'
  <2>1. PoolsInOrder'
    BY DEF TakeSlot, PoolInv, PoolsInOrder
  <2>2. g <= built
    BY <1>1
  <2>3. HeldFromBuilt'
    BY <1>3, <2>2 DEF TakeSlot, PoolInv, PoolTypeOK, HeldFromBuilt
  <2> QED BY <2>1, <2>3
<1>9. ASSUME NEW h \in Gens PROVE Balanced(h)'
  <2>1. Cardinality(Held(h)') = IF h = g THEN Cardinality(Held(h)) + 1 ELSE Cardinality(Held(h))
    BY <1>1, <1>2, <1>3, HeldGrows DEF PoolInv, PoolTypeOK
  <2>2. free'[h] = IF h = g THEN free[h] - 1 ELSE free[h]
    BY <1>3 DEF PoolInv, PoolTypeOK
  <2>3. free[h] \in Nat /\ Cardinality(Held(h)) \in Nat /\ closed' = closed
    BY HeldFinite, PoolAssumption DEF TakeSlot, PoolInv, PoolTypeOK
  <2> QED BY <2>1, <2>2, <2>3, PoolAssumption DEF PoolInv, AllBalanced, Balanced
<1> QED BY <1>4, <1>6, <1>7, <1>8, <1>9 DEF PoolInv, AllBalanced

\* A slot comes back, at the end of a lease or when getconn fails.
LEMMA FullEndKeeps ==
  ASSUME PoolInv, NEW t \in Threads, End(t), slot[Current(t)] # NoGen,
         sem[t] = slot[Current(t)] \/ slot[Current(t)] \in closed,
         slot' = [slot EXCEPT ![Current(t)] = NoGen], free' = Released(sem[t]),
         conn' \in [LeaseIds -> Somewhere], UNCHANGED <<pool, built, closed>>
  PROVE  PoolInv'
<1>1. Current(t) \in LeaseIds /\ slot[Current(t)] \in Gens /\ sem[t] \in Somewhere
  BY DEF PoolInv, PoolTypeOK, Current, LeaseIds, Somewhere
<1>2. SlotsInHand' /\ SlotsGoHome' /\ HeldFromBuilt'
  BY EndKeeps DEF PoolInv, PoolTypeOK
<1>3. free' \in [Gens -> 0 .. PoolMax] /\ AllBalanced'
  <2> DEFINE h == slot[Current(t)]
  <2>1. closed' = closed
    OBVIOUS
  <2> QED BY <1>1, <2>1, ReleaseBalances
<1>4. slot' \in [LeaseIds -> Somewhere]
  BY DEF PoolInv, PoolTypeOK, Somewhere
<1>5. PoolTypeOK'
  BY <1>3, <1>4, EndTypes DEF PoolInv, PoolTypeOK
<1> QED BY <1>2, <1>3, <1>5 DEF PoolInv, PoolsInOrder

\* A pool that cannot be built: a lease without a slot ends, or one whose slot and
\* connection are of a pool that has been closed.
LEMMA BuildFailsKeeps ==
  ASSUME PoolInv, NEW t \in Threads, BuildFails(t)
  PROVE  PoolInv'
<1> DEFINE l == Current(t)
           h == slot[l]
<1>1. l \in LeaseIds /\ h \in Somewhere
  BY DEF PoolInv, PoolTypeOK, Current, LeaseIds
<1>2. SlotsInHand' /\ SlotsGoHome' /\ HeldFromBuilt'
  BY EndKeeps DEF BuildFails, PoolInv, PoolTypeOK
<1>3. AllBalanced'
  <2>1. CASE h = NoGen
    <3>1. slot' = slot
      BY <1>1, <2>1 DEF BuildFails, PoolInv, PoolTypeOK
    <3> QED BY <3>1, BalanceStays DEF BuildFails
  <2>2. CASE h # NoGen
    <3>1. h \in Gens /\ h \in closed
      BY <1>1, <2>2 DEF BuildFails, PoolInv, PoolTypeOK, PoolsInOrder, HeldFromBuilt, Somewhere
    <3>2. Released(NoGen) = [g \in Gens |-> free[g]]
      BY Ranges DEF Released
    <3>3. free' = Released(NoGen)
      BY <3>2 DEF BuildFails, PoolInv, PoolTypeOK
    <3>4. NoGen \in Somewhere /\ UNCHANGED closed
      BY DEF BuildFails, Somewhere
    <3>5. slot' = [slot EXCEPT ![l] = NoGen]
      BY DEF BuildFails
    <3> HIDE DEF l
    <3> QED BY <1>1, <3>1, <3>3, <3>4, <3>5, ReleaseBalances
  <2> QED BY <2>1, <2>2
<1>4. PoolTypeOK'
  <2>1. slot' \in [LeaseIds -> Somewhere] /\ conn' \in [LeaseIds -> Somewhere]
    BY DEF BuildFails, PoolInv, PoolTypeOK, Somewhere
  <2> QED BY <2>1, EndTypes DEF BuildFails, PoolInv, PoolTypeOK
<1> QED BY <1>2, <1>3, <1>4 DEF BuildFails, PoolInv, PoolsInOrder

LEMMA GetConnKeeps ==
  ASSUME PoolInv, NEW t \in Threads, GetConn(t)
  PROVE  PoolInv'
<1>1. slot[Current(t)] # NoGen /\ sem[t] = slot[Current(t)]
  BY DEF GetConn, PoolInv, SlotsInHand, SlotsGoHome
<1>2. CASE /\ conn' = [conn EXCEPT ![Current(t)] = ref[t]]
           /\ pc' = [pc EXCEPT ![t] = "work"]
           /\ UNCHANGED <<free, slot, at, giving, ref, sem>>
  <2>1. PoolTypeOK'
    BY <1>2 DEF GetConn, PoolInv, PoolTypeOK
  <2>2. PoolsInOrder' /\ HeldFromBuilt'
    BY <1>2 DEF GetConn, PoolInv, PoolsInOrder, HeldFromBuilt
  <2>3. SlotsInHand' /\ SlotsGoHome'
    BY <1>1, <1>2 DEF GetConn, PoolInv, PoolTypeOK, SlotsInHand, SlotsGoHome, Current
  <2> QED BY <1>2, <2>1, <2>2, <2>3, BalanceStays DEF GetConn, PoolInv
<1>3. CASE /\ free' = Released(sem[t])
           /\ slot' = [slot EXCEPT ![Current(t)] = NoGen]
           /\ End(t)
           /\ UNCHANGED conn
  <2>1. conn' \in [LeaseIds -> Somewhere]
    BY <1>3 DEF PoolInv, PoolTypeOK
  <2> QED BY <1>1, <1>3, <2>1, FullEndKeeps DEF GetConn
<1> QED BY <1>2, <1>3 DEF GetConn

LEMMA PutKeeps ==
  ASSUME PoolInv, NEW t \in Threads, Put(t)
  PROVE  PoolInv'
<1>1. slot[Current(t)] # NoGen /\ (sem[t] = slot[Current(t)] \/ slot[Current(t)] \in closed)
  BY DEF Put, PoolInv, SlotsInHand, SlotsGoHome
<1>2. conn' \in [LeaseIds -> Somewhere]
  BY DEF Put, PoolInv, PoolTypeOK, Somewhere
<1> QED BY <1>1, <1>2, FullEndKeeps DEF Put

LEMMA WorkKeeps ==
  ASSUME PoolInv, NEW t \in Threads, ReadVerdict(t) \/ GiveBack(t)
  PROVE  PoolInv'
<1>1. PoolTypeOK'
  BY DEF ReadVerdict, GiveBack, PoolInv, PoolTypeOK
<1>2. PoolsInOrder' /\ HeldFromBuilt'
  BY DEF ReadVerdict, GiveBack, PoolInv, PoolsInOrder, HeldFromBuilt
<1>3. SlotsInHand'
  <2>1. CASE ReadVerdict(t)
    BY <2>1 DEF ReadVerdict, PoolInv, PoolTypeOK, SlotsInHand, Current
  <2>2. CASE GiveBack(t)
    BY <2>2 DEF GiveBack, PoolInv, PoolTypeOK, SlotsInHand, Current
  <2> QED BY <2>1, <2>2
<1>4. SlotsGoHome'
  BY DEF ReadVerdict, GiveBack, PoolInv, PoolTypeOK, SlotsGoHome, Current
<1> QED BY <1>1, <1>2, <1>3, <1>4, BalanceStays DEF ReadVerdict, GiveBack, PoolInv

LEMMA ClosePoolKeeps ==
  ASSUME PoolInv, ClosePool
  PROVE  PoolInv'
<1>1. PoolTypeOK'
  BY DEF ClosePool, PoolInv, PoolTypeOK, Somewhere
<1>2. PoolsInOrder'
  BY Ranges DEF ClosePool, PoolInv, PoolTypeOK, PoolsInOrder, Somewhere
<1>3. SlotsInHand' /\ SlotsGoHome' /\ HeldFromBuilt'
  BY DEF ClosePool, PoolInv, SlotsInHand, SlotsGoHome, HeldFromBuilt, Current
<1>4. AllBalanced'
  BY DEF ClosePool, PoolInv, AllBalanced, Balanced, Held
<1> QED BY <1>1, <1>2, <1>3, <1>4 DEF PoolInv

LEMMA PoolSteps == PoolInv /\ [PoolNext]_poolVars => PoolInv'
<1> SUFFICES ASSUME PoolInv, [PoolNext]_poolVars PROVE PoolInv'
  OBVIOUS
<1>1. CASE UNCHANGED poolVars
  BY <1>1 DEF poolVars, PoolInv, PoolTypeOK, PoolsInOrder, SlotsInHand, SlotsGoHome, HeldFromBuilt,
              AllBalanced, Balanced, Held, Current
<1>2. CASE ClosePool
  BY <1>2, ClosePoolKeeps
<1>3. ASSUME NEW t \in Threads, Borrow(t) \/ ThreadStep(t) PROVE PoolInv'
  BY <1>3, BorrowKeeps, GetPoolKeeps, BuildFailsKeeps, ReadSlotsKeeps, TakeSlotKeeps, TimeOutKeeps,
     GetConnKeeps, WorkKeeps, PutKeeps DEF ThreadStep
<1> QED BY <1>1, <1>2, <1>3 DEF PoolNext

-------------------------------------------------------------------------------

\* The pools, their free slots, the threads and the two leases of each keep their
\* types, for any size of the pool and any callers (storage/postgres.py).
THEOREM PoolTypesHold == PoolSpec => []PoolTypeOK
<1>1. PoolInv => PoolTypeOK
  BY DEF PoolInv
<1> QED BY PoolStarts, PoolSteps, <1>1, PTL DEF PoolSpec

\* No slot is ever lost, for any number of callers and any size of the pool,
\* whatever getconn fails of, however often the pool is closed under them and
\* built again or cannot be built (acquire, release, close).
THEOREM SlotsAreNeverLost == PoolSpec => []SlotsBalance
<1>1. PoolInv => SlotsBalance
  <2> SUFFICES ASSUME PoolInv, pool # NoGen PROVE SlotsBalance
    BY DEF SlotsBalance
  <2>1. pool \in Gens /\ pool \notin closed
    <3>1. pool \in Gens
      BY DEF PoolInv, PoolTypeOK, Somewhere
    <3> QED BY <3>1 DEF PoolInv, PoolsInOrder
  <2>3. free[pool] \in 0 .. PoolMax
    BY <2>1 DEF PoolInv, PoolTypeOK
  <2>2. Balanced(pool)
    BY <2>1 DEF PoolInv, AllBalanced
  <2> QED BY <2>1, <2>2, <2>3, PoolAssumption DEF SlotsBalance, Balanced
<1> QED BY PoolStarts, PoolSteps, <1>1, PTL DEF PoolSpec

-------------------------------------------------------------------------------
(* FormIntake                                                                *)

Wordings   == Nat \cup {NoSnapshot}
CardRow    == [status : {"none", "pending", "submitted"}, wording : Wordings]
Before     == {"lock", "check", "mint", "insert"}
Answers    == {"none", "bad_request", "card_not_found", "already_submitted", "error",
               "consent_wording_unavailable", "consent_wording_invalid", "created"}
RequestRow == [pc : {"idle", "wake", "answered", "gone"} \cup Before,
               card : Cards \cup {"none"}, wording : Wordings, answer : Answers]

\* The types of what a submission relies on.
FormTypeOK ==
    /\ wording \in Nat
    /\ cards \in [Cards -> CardRow]
    /\ request \in [Requests -> RequestRow]

\* What a submission knows: it has a card and a wording of the server; once it
\* has checked the card, that one is open and shows this wording; and one that
\* committed has its customer.
Committed(c) == \E x \in customers : x.card = c
RequestFacts ==
    \A r \in Requests :
        /\ request[r].pc \in Before => request[r].card \in Cards /\ request[r].wording \in Nat
        /\ request[r].pc \in {"mint", "insert"} =>
              /\ cards[request[r].card].status # "submitted"
              /\ cards[request[r].card].wording = request[r].wording
        /\ request[r].pc = "wake" \/ request[r].answer = "created" => Committed(request[r].card)

\* The row lock of a card.
OneHolder ==
    \A r, q \in Requests, c \in Cards : HoldsCard(r, c) /\ HoldsCard(q, c) => r = q

\* A card is submitted exactly when there is a customer for it, one only.
OneCustomer ==
    /\ \A c \in Cards : cards[c].status = "submitted" <=> Committed(c)
    /\ \A x, y \in customers : x.card = y.card => x = y
    /\ \A x \in customers : x.card \in Cards

ConsentFor(x) == [card |-> x.card, wording |-> cards[x.card].wording]
ConsentsFollow == consents = {ConsentFor(x) : x \in customers}

NumbersDiffer ==
    /\ \A x \in customers : x.number \in minted
    /\ \A x, y \in customers : x.number = y.number => x = y

FormInv ==
    /\ FormTypeOK
    /\ RequestFacts
    /\ OneHolder
    /\ OneCustomer
    /\ ConsentsFollow
    /\ NumbersDiffer

-------------------------------------------------------------------------------

LEMMA RowFacts == /\ NoRow \in CardRow /\ NoRow.status = "none" /\ NoRow.wording = NoSnapshot
                  /\ NoSnapshot \notin Nat
                  /\ Request0 \in RequestRow /\ Request0.pc = "idle" /\ Request0.answer = "none"
<1>1. NoSnapshot \notin Nat
  BY DEF NoSnapshot
<1>2. NoRow \in CardRow /\ NoRow.status = "none" /\ NoRow.wording = NoSnapshot
  BY DEF NoRow, CardRow, Wordings
<1>3. Request0 \in RequestRow /\ Request0.pc = "idle" /\ Request0.answer = "none"
  BY DEF Request0, RequestRow, Wordings, Answers
<1> QED BY <1>1, <1>2, <1>3

LEMMA FormStarts == FormInit => FormInv
<1> SUFFICES ASSUME FormInit PROVE FormInv
  OBVIOUS
<1>1. [status |-> "pending", wording |-> NoSnapshot] \in CardRow
  BY DEF CardRow, Wordings
<1>2. FormTypeOK
  BY <1>1, RowFacts DEF FormInit, FormTypeOK
<1>3. \A c \in Cards : cards[c].status # "submitted"
  BY RowFacts DEF FormInit
<1>4. OneCustomer /\ ConsentsFollow /\ NumbersDiffer
  BY <1>3 DEF FormInit, OneCustomer, ConsentsFollow, NumbersDiffer, Committed
<1>5. RequestFacts /\ OneHolder
  BY RowFacts DEF FormInit, RequestFacts, OneHolder, HoldsCard, Before
<1> QED BY <1>2, <1>4, <1>5 DEF FormInv

\* A submission moves on, or is answered; the rest of its record stays.
LEMMA Moved ==
  ASSUME NEW r \in Requests, request \in [Requests -> RequestRow],
         NEW p \in {"idle", "wake", "answered", "gone"} \cup Before, Goto(r, p)
  PROVE  /\ request' \in [Requests -> RequestRow]
         /\ request'[r].pc = p
         /\ request'[r].card = request[r].card
         /\ request'[r].wording = request[r].wording
         /\ request'[r].answer = request[r].answer
         /\ \A q \in Requests \ {r} : request'[q] = request[q]
BY DEF Goto, RequestRow

LEMMA Answered ==
  ASSUME NEW r \in Requests, request \in [Requests -> RequestRow], NEW a \in Answers, Reply(r, a)
  PROVE  /\ request' \in [Requests -> RequestRow]
         /\ request'[r].pc = "answered"
         /\ request'[r].card = request[r].card
         /\ request'[r].answer = a
         /\ \A q \in Requests \ {r} : request'[q] = request[q]
BY DEF Reply, RequestRow

\* A submission that is answered with anything but "created" disturbs nothing.
LEMMA RefusalKeeps ==
  ASSUME FormInv, NEW r \in Requests, NEW a \in Answers \ {"created"}, Reply(r, a),
         UNCHANGED <<wording, cards, minted, customers, linked, consents, woken>>
  PROVE  FormInv'
<1>1. FormTypeOK'
  BY Answered DEF FormInv, FormTypeOK
<1>2. RequestFacts'
  BY Answered DEF FormInv, FormTypeOK, RequestFacts, Committed, Before
<1>3. OneHolder'
  BY Answered DEF FormInv, FormTypeOK, OneHolder, HoldsCard
<1>4. OneCustomer' /\ NumbersDiffer' /\ ConsentsFollow'
  BY DEF FormInv, OneCustomer, NumbersDiffer, ConsentsFollow, ConsentFor, Committed
<1> QED BY <1>1, <1>2, <1>3, <1>4 DEF FormInv

LEMMA RedeployKeeps == ASSUME FormInv, Redeploy PROVE FormInv'
<1>1. FormTypeOK'
  BY DEF Redeploy, FormInv, FormTypeOK
<1>2. RequestFacts' /\ OneHolder'
  BY DEF Redeploy, FormInv, RequestFacts, OneHolder, HoldsCard, Committed
<1>3. OneCustomer' /\ NumbersDiffer' /\ ConsentsFollow'
  BY DEF Redeploy, FormInv, OneCustomer, NumbersDiffer, ConsentsFollow, ConsentFor, Committed
<1> QED BY <1>1, <1>2, <1>3 DEF FormInv

LEMMA PresentFormKeeps == ASSUME FormInv, NEW c \in Cards, PresentForm(c) PROVE FormInv'
<1> DEFINE shown == [status |-> "pending", wording |-> wording]
<1>1. shown \in CardRow /\ shown.status = "pending" /\ cards' = [cards EXCEPT ![c] = shown]
  BY DEF PresentForm, FormInv, FormTypeOK, CardRow, Wordings
<1> HIDE DEF shown
<1>2. cards[c].status = "none" /\ cards[c].wording \notin Nat
  BY RowFacts DEF PresentForm
<1>3. FormTypeOK'
  BY <1>1 DEF PresentForm, FormInv, FormTypeOK
<1>4. RequestFacts'
  BY <1>1, <1>2 DEF PresentForm, FormInv, FormTypeOK, RequestFacts, Committed, Before
<1>5. OneHolder' /\ NumbersDiffer'
  BY DEF PresentForm, FormInv, OneHolder, HoldsCard, NumbersDiffer
<1>6. OneCustomer'
  BY <1>1, <1>2 DEF PresentForm, FormInv, FormTypeOK, OneCustomer, Committed
<1>7. ConsentsFollow'
  <2>1. \A x \in customers : cards'[x.card] = cards[x.card]
    BY <1>1, <1>2 DEF FormInv, FormTypeOK, OneCustomer, Committed
  <2> QED BY <2>1 DEF PresentForm, FormInv, ConsentsFollow, ConsentFor
<1> QED BY <1>3, <1>4, <1>5, <1>6, <1>7 DEF FormInv

\* A step of a submission that writes no row and keeps to the row lock.
LEMMA MoveKeeps ==
  ASSUME FormInv, NEW r \in Requests, NEW p \in {"check", "mint", "insert"}, Goto(r, p),
         request[r].pc \in Before,
         \A q \in Requests \ {r} : ~HoldsCard(q, request[r].card),
         p \in {"mint", "insert"} => /\ cards[request[r].card].status # "submitted"
                                     /\ cards[request[r].card].wording = request[r].wording,
         UNCHANGED <<wording, cards, minted, customers, linked, consents, woken>>
  PROVE  FormInv'
<1>1. FormTypeOK'
  BY Moved DEF FormInv, FormTypeOK, Before
<1>2. RequestFacts'
  BY Moved DEF FormInv, FormTypeOK, RequestFacts, Committed, Before
<1>3. OneHolder'
  BY Moved DEF FormInv, FormTypeOK, OneHolder, HoldsCard, Before
<1>4. OneCustomer' /\ NumbersDiffer' /\ ConsentsFollow'
  BY DEF FormInv, OneCustomer, NumbersDiffer, ConsentsFollow, ConsentFor, Committed
<1> QED BY <1>1, <1>2, <1>3, <1>4 DEF FormInv

LEMMA SubmitKeeps == ASSUME FormInv, NEW r \in Requests, NEW c \in Cards, Submit(r, c) PROVE FormInv'
<1> DEFINE new == [pc |-> "lock", card |-> c, wording |-> wording, answer |-> "none"]
<1>1. /\ new \in RequestRow /\ new.pc = "lock" /\ new.card = c /\ new.wording \in Nat
      /\ new.answer = "none" /\ request' = [request EXCEPT ![r] = new]
  BY DEF Submit, FormInv, FormTypeOK, RequestRow, Wordings, Before, Answers
<1> HIDE DEF new
<1>2. FormTypeOK'
  BY <1>1 DEF Submit, FormInv, FormTypeOK
<1>3. RequestFacts'
  <2>1. /\ request'[r] = new
        /\ \A q \in Requests \ {r} : request'[q] = request[q]
    BY <1>1 DEF FormInv, FormTypeOK
  <2>2. /\ new.pc \in Before /\ new.card \in Cards
        /\ new.pc \notin {"mint", "insert", "wake"} /\ new.answer # "created"
    BY <1>1 DEF Before
  <2> QED BY <1>1, <2>1, <2>2 DEF Submit, FormInv, RequestFacts, Committed
<1>4. OneHolder'
  BY <1>1 DEF Submit, FormInv, FormTypeOK, OneHolder, HoldsCard
<1>5. OneCustomer' /\ NumbersDiffer' /\ ConsentsFollow'
  BY DEF Submit, FormInv, OneCustomer, NumbersDiffer, ConsentsFollow, ConsentFor, Committed
<1> QED BY <1>2, <1>3, <1>4, <1>5 DEF FormInv

LEMMA LockCardKeeps == ASSUME FormInv, NEW r \in Requests, LockCard(r) PROVE FormInv'
<1>1. CASE Reply(r, "card_not_found")
  BY <1>1, RefusalKeeps DEF LockCard, Answers
<1>2. CASE Goto(r, "check")
  BY <1>2, MoveKeeps DEF LockCard, Before
<1> QED BY <1>1, <1>2 DEF LockCard

LEMMA CheckCardKeeps == ASSUME FormInv, NEW r \in Requests, CheckCard(r) PROVE FormInv'
<1> DEFINE card == cards[request[r].card]
<1>1. CASE Reply(r, "already_submitted")
  BY <1>1, RefusalKeeps DEF CheckCard, Answers
<1>2. CASE Reply(r, "consent_wording_unavailable")
  BY <1>2, RefusalKeeps DEF CheckCard, Answers
<1>3. CASE Reply(r, "consent_wording_invalid")
  BY <1>3, RefusalKeeps DEF CheckCard, Answers
<1>4. CASE Goto(r, "mint") /\ card.status # "submitted" /\ card.wording = request[r].wording
  <2>1. request[r].pc = "check" /\ request[r].card \in Cards
    BY DEF CheckCard, FormInv, RequestFacts, Before
  <2>2. \A q \in Requests \ {r} : ~HoldsCard(q, request[r].card)
    BY <2>1 DEF FormInv, OneHolder, HoldsCard
  <2> QED BY <1>4, <2>1, <2>2, MoveKeeps DEF CheckCard, Before
<1> QED BY <1>1, <1>2, <1>3, <1>4 DEF CheckCard

LEMMA LockMintKeeps == ASSUME FormInv, NEW r \in Requests, LockMint(r) PROVE FormInv'
<1>1. request[r].pc = "mint" /\ request[r].card \in Cards
  BY DEF LockMint, FormInv, RequestFacts, Before
<1>2. \A q \in Requests \ {r} : ~HoldsCard(q, request[r].card)
  BY <1>1 DEF FormInv, OneHolder, HoldsCard
<1>3. /\ cards[request[r].card].status # "submitted"
      /\ cards[request[r].card].wording = request[r].wording
  BY <1>1 DEF FormInv, RequestFacts
<1> QED BY <1>1, <1>2, <1>3, MoveKeeps DEF LockMint, Before

\* The transaction: the customer, the card and the consent come together.
LEMMA InsertKeeps == ASSUME FormInv, NEW r \in Requests, Insert(r) PROVE FormInv'
<1> DEFINE c == request[r].card
           n == NextNumber
           new == [card |-> c, number |-> n]
<1>1. /\ request[r].pc = "insert" /\ c \in Cards
      /\ cards[c].status # "submitted" /\ cards[c].wording = request[r].wording
  BY DEF Insert, FormInv, RequestFacts, Before
<1>2. /\ n \notin minted /\ minted' = minted \cup {n}
      /\ customers' = customers \cup {new}
      /\ cards' = [cards EXCEPT ![c].status = "submitted"]
      /\ consents' = consents \cup {[card |-> c, wording |-> request[r].wording]}
      /\ Goto(r, "wake") /\ wording' = wording
  BY DEF Insert
<1>3. new.card = c /\ new.number = n
  OBVIOUS
<1> HIDE DEF n, new
<1>4. ~Committed(c)
  BY <1>1 DEF FormInv, OneCustomer
<1>5. /\ cards'[c].status = "submitted" /\ cards'[c].wording = cards[c].wording
      /\ \A d \in Cards \ {c} : cards'[d] = cards[d]
      /\ cards' \in [Cards -> CardRow]
  BY <1>1, <1>2 DEF FormInv, FormTypeOK, CardRow
<1>6. FormTypeOK'
  BY <1>2, <1>5, Moved DEF FormInv, FormTypeOK
<1>7. /\ request'[r].pc = "wake" /\ request'[r].card = c
      /\ \A q \in Requests \ {r} : request'[q] = request[q]
  BY <1>2, Moved DEF FormInv, FormTypeOK
<1>8. \A d : Committed(d)' <=> Committed(d) \/ d = c
  BY <1>2, <1>3 DEF Committed
<1>9. RequestFacts'
  <2> SUFFICES ASSUME NEW q \in Requests
               PROVE  /\ request'[q].pc \in Before => request'[q].card \in Cards /\ request'[q].wording \in Nat
                      /\ request'[q].pc \in {"mint", "insert"} =>
                            /\ cards'[request'[q].card].status # "submitted"
                            /\ cards'[request'[q].card].wording = request'[q].wording
                      /\ request'[q].pc = "wake" \/ request'[q].answer = "created"
                            => \E x \in customers' : x.card = request'[q].card
    BY DEF RequestFacts, Committed
  <2>1. CASE q = r
    BY <1>2, <1>3, <1>7, <2>1 DEF Before
  <2>2. CASE q # r
    <3>1. request[q].pc \in {"mint", "insert"} => request[q].card # c
      BY <1>1, <2>2 DEF FormInv, OneHolder, HoldsCard
    <3>2. request[q].pc \in {"mint", "insert"} => request[q].card \in Cards
      BY DEF FormInv, RequestFacts, Before
    <3>3. request'[q] = request[q]
      BY <1>7, <2>2
    <3>4. Committed(request[q].card) => \E x \in customers' : x.card = request[q].card
      BY <1>2 DEF Committed
    <3> QED BY <1>5, <3>1, <3>2, <3>3, <3>4 DEF FormInv, RequestFacts
  <2> QED BY <2>1, <2>2
<1>10. OneHolder'
  BY <1>7 DEF FormInv, OneHolder, HoldsCard
<1>11. OneCustomer'
  <2>1. \A d \in Cards : cards'[d].status = "submitted" <=> Committed(d)'
    BY <1>5, <1>8 DEF FormInv, OneCustomer
  <2>2. \A x, y \in customers' : x.card = y.card => x = y
    BY <1>2, <1>3, <1>4 DEF FormInv, OneCustomer, Committed
  <2>3. \A x \in customers' : x.card \in Cards
    BY <1>1, <1>2, <1>3 DEF FormInv, OneCustomer
  <2> QED BY <2>1, <2>2, <2>3 DEF OneCustomer, Committed
<1>12. NumbersDiffer'
  BY <1>2, <1>3 DEF FormInv, NumbersDiffer
<1>13. ConsentsFollow'
  <2>1. \A x \in customers : ConsentFor(x)' = ConsentFor(x)
    BY <1>1, <1>4, <1>5 DEF FormInv, OneCustomer, ConsentFor, Committed
  <2>2. [card |-> new.card, wording |-> cards'[new.card].wording]
           = [card |-> c, wording |-> request[r].wording]
    BY <1>1, <1>3, <1>5
  <2>3. {[card |-> x.card, wording |-> cards'[x.card].wording] : x \in customers'}
           = {[card |-> x.card, wording |-> cards'[x.card].wording] : x \in customers}
             \cup {[card |-> c, wording |-> request[r].wording]}
    BY <1>2, <2>2
  <2>4. {[card |-> x.card, wording |-> cards'[x.card].wording] : x \in customers} = consents
    BY <2>1 DEF FormInv, ConsentsFollow, ConsentFor
  <2> QED BY <1>2, <2>3, <2>4 DEF ConsentsFollow, ConsentFor
<1> QED BY <1>6, <1>9, <1>10, <1>11, <1>12, <1>13 DEF FormInv

LEMMA WakeKeeps == ASSUME FormInv, NEW r \in Requests, Wake(r) PROVE FormInv'
<1>1. Committed(request[r].card) /\ Reply(r, "created")
  BY DEF Wake, FormInv, RequestFacts
<1>6. /\ request' \in [Requests -> RequestRow]
      /\ request'[r].pc = "answered"
      /\ request'[r].card = request[r].card
      /\ \A q \in Requests \ {r} : request'[q] = request[q]
  BY <1>1, Answered DEF FormInv, FormTypeOK, Answers
<1>2. FormTypeOK'
  BY <1>6 DEF Wake, FormInv, FormTypeOK
<1>3. RequestFacts'
  BY <1>1, <1>6 DEF Wake, FormInv, FormTypeOK, RequestFacts, Committed, Before
<1>4. OneHolder'
  BY <1>1, <1>6 DEF FormInv, FormTypeOK, OneHolder, HoldsCard
<1>5. OneCustomer' /\ NumbersDiffer' /\ ConsentsFollow'
  BY DEF Wake, FormInv, OneCustomer, NumbersDiffer, ConsentsFollow, ConsentFor, Committed
<1> QED BY <1>2, <1>3, <1>4, <1>5 DEF FormInv

\* A crash undoes what has not been committed, and changes no row.
LEMMA CrashKeeps == ASSUME FormInv, Crash PROVE FormInv'
<1>1. \A r \in Requests :
         /\ request'[r] \in RequestRow
         /\ request'[r].pc \in {"idle", "answered", "gone"}
         /\ request'[r].card = request[r].card
         /\ request'[r].answer = request[r].answer
  BY DEF Crash, FormInv, FormTypeOK, RequestRow
<1>2. FormTypeOK'
  <2>1. request' \in [Requests -> RequestRow]
    BY <1>1 DEF Crash
  <2> QED BY <2>1 DEF Crash, FormInv, FormTypeOK
<1>3. RequestFacts'
  BY <1>1 DEF Crash, FormInv, RequestFacts, Committed, Before
<1>4. OneHolder'
  BY <1>1 DEF FormInv, OneHolder, HoldsCard
<1>5. OneCustomer' /\ NumbersDiffer' /\ ConsentsFollow'
  BY DEF Crash, FormInv, OneCustomer, NumbersDiffer, ConsentsFollow, ConsentFor, Committed
<1> QED BY <1>2, <1>3, <1>4, <1>5 DEF FormInv

LEMMA FormSteps == FormInv /\ [FormNext]_formVars => FormInv'
<1> SUFFICES ASSUME FormInv, [FormNext]_formVars PROVE FormInv'
  OBVIOUS
<1>1. CASE UNCHANGED formVars
  BY <1>1 DEF formVars, FormInv, FormTypeOK, RequestFacts, OneHolder, HoldsCard, OneCustomer,
              NumbersDiffer, ConsentsFollow, ConsentFor, Committed
<1>2. CASE Redeploy \/ Crash \/ \E c \in Cards : PresentForm(c)
  BY <1>2, RedeployKeeps, CrashKeeps, PresentFormKeeps
<1>3. ASSUME NEW r \in Requests, RefuseSubmit(r) \/ FailSubmit(r) \/ RefuseInsert(r) PROVE FormInv'
  <2>1. /\ Reply(r, "bad_request") \/ Reply(r, "error")
        /\ UNCHANGED <<wording, cards, minted, customers, linked, consents, woken>>
    BY <1>3 DEF RefuseSubmit, FailSubmit, RefuseInsert
  <2> QED BY <2>1, RefusalKeeps DEF Answers
<1>4. ASSUME NEW r \in Requests, NEW c \in Cards, Submit(r, c) PROVE FormInv'
  BY <1>4, SubmitKeeps
<1>5. ASSUME NEW r \in Requests, LockCard(r) \/ CheckCard(r) \/ LockMint(r) \/ Insert(r) \/ Wake(r)
      PROVE  FormInv'
  BY <1>5, LockCardKeeps, CheckCardKeeps, LockMintKeeps, InsertKeeps, WakeKeeps
<1> QED BY <1>1, <1>2, <1>3, <1>4, <1>5 DEF FormNext, SubmitStep

-------------------------------------------------------------------------------

\* Card, customer and consent come and go together for any number of forms and
\* submissions: whatever fails, crashes, is sent twice or deployed meanwhile, a
\* form has one customer with a number of its own and a consent to the wording
\* it showed, or none of it (_submit_txn, snapshot_matches).
THEOREM FormsAreWhole == FormSpec => []FormIsWhole
<1>1. FormInv => FormIsWhole
  <2> SUFFICES ASSUME FormInv PROVE FormIsWhole
    OBVIOUS
  <2>1. ASSUME NEW c \in Cards
        PROVE  LET mine == {x \in customers : x.card = c}
               IN /\ Cardinality(mine) = (IF cards[c].status = "submitted" THEN 1 ELSE 0)
                  /\ {x \in consents : x.card = c} =
                        {[card |-> x.card, wording |-> cards[c].wording] : x \in mine}
    <3> DEFINE mine == {x \in customers : x.card = c}
    <3>1. Cardinality(mine) = (IF cards[c].status = "submitted" THEN 1 ELSE 0)
      <4>1. CASE cards[c].status = "submitted"
        <5>1. PICK x \in customers : x.card = c
          BY <4>1 DEF FormInv, OneCustomer, Committed
        <5>2. mine = {x}
          BY <5>1 DEF FormInv, OneCustomer
        <5>3. Cardinality(mine) = 1
          BY <5>2, FS_Singleton
        <5> QED BY <4>1, <5>3
      <4>2. CASE cards[c].status # "submitted"
        <5>1. mine = {}
          BY <4>2 DEF FormInv, OneCustomer, Committed
        <5>2. Cardinality(mine) = 0
          BY <5>1, FS_EmptySet
        <5> QED BY <4>2, <5>2
      <4> QED BY <4>1, <4>2
    <3>3. {x \in consents : x.card = c} = {[card |-> x.card, wording |-> cards[c].wording] : x \in mine}
      BY DEF FormInv, ConsentsFollow, ConsentFor
    <3> QED BY <3>1, <3>3
  <2>2. \A x, y \in customers : x.number = y.number => x = y
    BY DEF FormInv, NumbersDiffer
  <2>3. \A r \in Requests : request[r].answer = "created" => request[r].card \in {x.card : x \in customers}
    BY DEF FormInv, RequestFacts, Committed
  <2> QED BY <2>1, <2>2, <2>3 DEF FormIsWhole
<1> QED BY FormStarts, FormSteps, <1>1, PTL DEF FormSpec
===============================================================================
