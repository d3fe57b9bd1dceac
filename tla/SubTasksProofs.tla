---------------------------- MODULE SubTasksProofs ----------------------------
(***************************************************************************)
(* Theorems about SubTasks for every set of tasks, roles and dispatches,   *)
(* every number of slots, and with or without cancellations and failures   *)
(* of the database.                                                        *)
(***************************************************************************)
EXTENDS SubTasks, FiniteSetTheorems, TLAPS

\* dispatch_lock is a lock.
OneInLock ==
    \A c, d \in Calls : call[c].pc \in InLock /\ call[d].pc \in InLock => c = d

\* What a dispatch knows while it holds the lock: its role stays free, and the
\* row it inserted has no coroutine yet.
LockedFacts ==
    \A c \in Calls :
        /\ call[c].pc # "idle" => call[c].role \in Roles
        /\ call[c].pc \in {"inserting", "inserted"} => registered[call[c].role] = NoTask
        /\ call[c].pc = "inserted" =>
              /\ call[c].task \in Tasks
              /\ role[call[c].task] = call[c].role
              /\ row[call[c].task] # "none"
              /\ co[call[c].task] = "none"

\* An id that was never inserted has no coroutine and no thread.
UnusedIds == \A t \in Tasks : row[t] = "none" => co[t] = "none" /\ marking[t] = "none"

\* What a report writes is decided when the coroutine leaves its body.
Unwound == {"unwound"} \cup Reporting
OutcomeIsSet == \A t \in Tasks : co[t] \in Unwound => outcome[t] # "none"

\* A live sub-agent holds the registration of its role.
LiveIsRegistered ==
    \A t \in Tasks : co[t] \in Live => role[t] \in Roles /\ registered[role[t]] = t

SubInv ==
    /\ TypeOK
    /\ OneInLock
    /\ LockedFacts
    /\ UnusedIds
    /\ LiveIsRegistered
    /\ OutcomeIsSet
    /\ SlotsHold

CallRecord == [pc : {"idle", "asking"} \cup InLock,
               role : Roles \cup {NoTask}, task : Tasks \cup {NoTask}]

-------------------------------------------------------------------------------
\* Updating a dispatch changes the named fields and nothing else.
LEMMA CallPc ==
  ASSUME NEW k \in CallRecord, NEW p \in {"idle", "asking"} \cup InLock
  PROVE  /\ [k EXCEPT !.pc = p] \in CallRecord
         /\ [k EXCEPT !.pc = p].pc = p
         /\ [k EXCEPT !.pc = p].role = k.role
         /\ [k EXCEPT !.pc = p].task = k.task
BY DEF CallRecord

LEMMA CallPcTask ==
  ASSUME NEW k \in CallRecord, NEW p \in {"idle", "asking"} \cup InLock, NEW t \in Tasks
  PROVE  /\ [k EXCEPT !.pc = p, !.task = t] \in CallRecord
         /\ [k EXCEPT !.pc = p, !.task = t].pc = p
         /\ [k EXCEPT !.pc = p, !.task = t].role = k.role
         /\ [k EXCEPT !.pc = p, !.task = t].task = t
BY DEF CallRecord

LEMMA IdleCall == NoCall \in CallRecord /\ NoCall.pc = "idle" /\ NoCall.task = NoTask
BY DEF NoCall, CallRecord

\* The holders of slots are a finite set, so that they can be counted.
LEMMA HoldersFinite == IsFiniteSet(Holders) /\ Cardinality(Holders) \in Nat
<1>1. Holders \in SUBSET Tasks
  BY DEF Holders
<1>2. IsFiniteSet(Holders)
  BY <1>1, SubTasksAssumption, FS_Subset
<1> QED BY <1>2, FS_CardinalityType

\* A step that gives nobody a slot keeps the limit.
LEMMA FewerHolders ==
  ASSUME SlotsHold, Holders' \subseteq Holders
  PROVE  SlotsHold'
<1>1. Holders' \in SUBSET Holders
  OBVIOUS
<1>2. Cardinality(Holders') <= Cardinality(Holders) /\ IsFiniteSet(Holders')
  BY <1>1, HoldersFinite, FS_Subset
<1>3. Cardinality(Holders') \in Nat
  BY <1>2, FS_CardinalityType
<1>4. Cardinality(Holders) <= Slots
  BY DEF SlotsHold
<1>5. Cardinality(Holders') <= Slots
  BY <1>2, <1>3, <1>4, HoldersFinite, SubTasksAssumption
<1> QED BY <1>5 DEF SlotsHold

LEMMA SubInit == Init => SubInv
<1> SUFFICES ASSUME Init PROVE SubInv
  OBVIOUS
<1>1. TypeOK
  <2>1. call \in [Calls -> CallRecord]
    BY IdleCall DEF Init
  <2>2. /\ row \in [Tasks -> {"none", "restarted"} \cup NotEnded \cup Ended]
        /\ role \in [Tasks -> Roles \cup {NoTask}]
        /\ registered \in [Roles -> Tasks \cup {NoTask}]
        /\ cancellable \subseteq Tasks
    BY DEF Init
  <2>3. /\ co \in [Tasks -> {"none", "over", "dead"} \cup Live \cup Reporting]
        /\ outcome \in [Tasks -> {"none", "done", "failed"}]
        /\ marking \in [Tasks -> {"none", "flying", "landed"}]
    BY DEF Init
  <2>4. /\ asked \in [Tasks -> BOOLEAN]
        /\ told \in [Tasks -> Nat]
        /\ seen \in Tasks \cup {NoTask}
        /\ boots \in Nat
    BY DEF Init
  <2> QED BY <2>1, <2>2, <2>3, <2>4 DEF TypeOK, CallRecord
<1>2. OneInLock /\ LockedFacts
  BY IdleCall DEF Init, OneInLock, LockedFacts, InLock
<1>3. UnusedIds /\ LiveIsRegistered /\ OutcomeIsSet
  BY DEF Init, UnusedIds, LiveIsRegistered, OutcomeIsSet, Live, Unwound, Reporting
<1>4. SlotsHold
  <2>1. Holders = {}
    BY DEF Init, Holders, InSlot
  <2> QED BY <2>1, FS_EmptySet, SubTasksAssumption DEF SlotsHold
<1> QED BY <1>1, <1>2, <1>3, <1>4 DEF SubInv

-------------------------------------------------------------------------------
(* The dispatch *)

LEMMA DispatchKeeps ==
  ASSUME SubInv, NEW c \in Calls, NEW r \in Roles, Dispatch(c, r)
  PROVE  SubInv'
<1>1. call \in [Calls -> CallRecord]
  BY DEF SubInv, TypeOK, CallRecord
<1> DEFINE k == [pc |-> "asking", role |-> r, task |-> NoTask]
<1>2. k \in CallRecord /\ k.pc = "asking" /\ k.role = r /\ "asking" \notin InLock
  BY DEF CallRecord, InLock
<1>3. call' = [call EXCEPT ![c] = k] /\ call' \in [Calls -> CallRecord]
  BY <1>1, <1>2 DEF Dispatch
<1> HIDE DEF k
<1>4. TypeOK'
  BY <1>3 DEF Dispatch, SubInv, TypeOK, CallRecord
<1>5. OneInLock' /\ LockedFacts'
  BY <1>1, <1>2, <1>3 DEF Dispatch, SubInv, OneInLock, LockedFacts, InLock
<1>6. UnusedIds' /\ LiveIsRegistered' /\ OutcomeIsSet' /\ Holders' = Holders
  BY DEF Dispatch, SubInv, UnusedIds, LiveIsRegistered, OutcomeIsSet, Holders
<1> QED BY <1>4, <1>5, <1>6, FewerHolders DEF SubInv

LEMMA LookUpKeeps ==
  ASSUME SubInv, NEW c \in Calls, LookUp(c)
  PROVE  SubInv'
<1>1. call \in [Calls -> CallRecord]
  BY DEF SubInv, TypeOK, CallRecord
<1> DEFINE p == IF registered[call[c].role] # NoTask THEN "reading" ELSE "inserting"
           k == [call[c] EXCEPT !.pc = p]
<1>2. p \in InLock
  BY DEF InLock
<1>3. k \in CallRecord /\ k.pc = p /\ k.role = call[c].role /\ k.task = call[c].task
  BY <1>1, <1>2, CallPc
<1>4. call' = [call EXCEPT ![c] = k] /\ call' \in [Calls -> CallRecord]
  BY <1>1, <1>3 DEF LookUp
<1>5. p = "inserting" => registered[call[c].role] = NoTask
  OBVIOUS
<1>6. p # "inserted" /\ call[c].pc = "asking"
  BY DEF LookUp
<1> HIDE DEF k, p
<1>7. TypeOK'
  BY <1>4 DEF LookUp, SubInv, TypeOK, CallRecord
<1>8. OneInLock'
  BY <1>1, <1>3, <1>4 DEF LookUp, LockFree, OneInLock
<1>9. LockedFacts'
  BY <1>1, <1>3, <1>4, <1>5, <1>6 DEF LookUp, SubInv, LockedFacts
<1>10. UnusedIds' /\ LiveIsRegistered' /\ OutcomeIsSet' /\ Holders' = Holders
  BY DEF LookUp, SubInv, UnusedIds, LiveIsRegistered, OutcomeIsSet, Holders
<1> QED BY <1>7, <1>8, <1>9, <1>10, FewerHolders DEF SubInv

\* A dispatch that answers without a new task.
LEMMA IdleKeeps ==
  ASSUME SubInv, NEW c \in Calls, call' = [call EXCEPT ![c] = NoCall],
         UNCHANGED <<row, role, registered, cancellable, co, outcome, marking, asked,
                     told, seen, boots>>
  PROVE  SubInv'
<1>1. call \in [Calls -> CallRecord] /\ call' \in [Calls -> CallRecord]
  BY IdleCall DEF SubInv, TypeOK, CallRecord
<1>2. TypeOK'
  BY <1>1 DEF SubInv, TypeOK, CallRecord
<1>3. OneInLock' /\ LockedFacts'
  BY <1>1, IdleCall DEF SubInv, OneInLock, LockedFacts, InLock
<1>4. UnusedIds' /\ LiveIsRegistered' /\ OutcomeIsSet' /\ Holders' = Holders
  BY DEF SubInv, UnusedIds, LiveIsRegistered, OutcomeIsSet, Holders
<1> QED BY <1>2, <1>3, <1>4, FewerHolders DEF SubInv

LEMMA InsertKeeps ==
  ASSUME SubInv, NEW c \in Calls, InsertRow(c)
  PROVE  SubInv'
<1>1. call \in [Calls -> CallRecord]
  BY DEF SubInv, TypeOK, CallRecord
<1>2. PICK t \in Tasks :
         /\ row[t] = "none"
         /\ row' = [row EXCEPT ![t] = "queued"]
         /\ role' = [role EXCEPT ![t] = call[c].role]
         /\ call' = [call EXCEPT ![c].pc = "inserted", ![c].task = t]
  BY DEF InsertRow
<1> DEFINE k == [call[c] EXCEPT !.pc = "inserted", !.task = t]
<1>3. k \in CallRecord /\ k.pc = "inserted" /\ k.role = call[c].role /\ k.task = t
  <2>1. "inserted" \in {"idle", "asking"} \cup InLock
    BY DEF InLock
  <2>2. call[c] \in CallRecord
    BY <1>1
  <2>3. PICK h \in CallRecord : h = call[c]
    BY <2>2
  <2>4. k = [h EXCEPT !.pc = "inserted", !.task = t]
    BY <2>3
  <2> QED BY <2>3, <2>4 DEF CallRecord, InLock
<1>4. call' = [call EXCEPT ![c] = k] /\ call' \in [Calls -> CallRecord]
  BY <1>1, <1>2, <1>3
<1>5. call[c].pc = "inserting" /\ call[c].role \in Roles
      /\ registered[call[c].role] = NoTask /\ co[t] = "none"
  BY <1>2 DEF InsertRow, SubInv, LockedFacts, UnusedIds
<1>6. UNCHANGED <<registered, cancellable, co, outcome, marking, asked, told, seen, boots>>
  BY DEF InsertRow
<1> HIDE DEF k
<1>7. TypeOK'
  <2>1. row' \in [Tasks -> {"none", "restarted"} \cup NotEnded \cup Ended]
    BY <1>2 DEF SubInv, TypeOK, NotEnded
  <2>2. role' \in [Tasks -> Roles \cup {NoTask}]
    BY <1>2, <1>5 DEF SubInv, TypeOK
  <2> QED BY <1>4, <1>6, <2>1, <2>2 DEF SubInv, TypeOK, CallRecord
<1>8. OneInLock'
  BY <1>1, <1>3, <1>4, <1>5 DEF SubInv, OneInLock, InLock
<1>9. LockedFacts'
  <2>1. row \in [Tasks -> {"none", "restarted"} \cup NotEnded \cup Ended]
        /\ role \in [Tasks -> Roles \cup {NoTask}]
    BY DEF SubInv, TypeOK
  <2>2. \A d \in Calls : d # c => call[d].pc \notin InLock
    BY <1>5 DEF SubInv, OneInLock, InLock
  <2>3. \A d \in Calls : d # c => call'[d] = call[d]
    BY <1>1, <1>4
  <2>4. call'[c] = k
    BY <1>1, <1>4
  <2>5. ASSUME NEW d \in Calls, d # c
        PROVE  /\ call'[d].pc # "idle" => call'[d].role \in Roles
               /\ call'[d].pc \notin InLock
    BY <2>2, <2>3, <2>5 DEF SubInv, LockedFacts
  <2>6. role'[t] = call[c].role /\ row'[t] # "none"
    BY <1>2, <2>1
  <2> QED BY <1>3, <1>5, <1>6, <2>4, <2>5, <2>6 DEF LockedFacts, InLock
<1>10. UnusedIds' /\ LiveIsRegistered'
  <2>1. row \in [Tasks -> {"none", "restarted"} \cup NotEnded \cup Ended]
        /\ role \in [Tasks -> Roles \cup {NoTask}]
    BY DEF SubInv, TypeOK
  <2>2. "none" \notin Live
    BY DEF Live
  <2> QED BY <1>2, <1>5, <1>6, <2>1, <2>2 DEF SubInv, UnusedIds, LiveIsRegistered
<1>11. Holders' = Holders /\ OutcomeIsSet'
  BY <1>6 DEF SubInv, Holders, OutcomeIsSet
<1> QED BY <1>7, <1>8, <1>9, <1>10, <1>11, FewerHolders DEF SubInv

LEMMA SpawnKeeps ==
  ASSUME SubInv, NEW c \in Calls, Spawn(c)
  PROVE  SubInv'
<1> DEFINE t == call[c].task
           r == call[c].role
<1>1. call \in [Calls -> CallRecord] /\ call' \in [Calls -> CallRecord]
  BY IdleCall DEF SubInv, TypeOK, CallRecord, Spawn
<1>2. /\ t \in Tasks /\ r \in Roles /\ role[t] = r /\ row[t] # "none"
      /\ co[t] = "none" /\ registered[r] = NoTask
      /\ call[c].pc = "inserted"
  BY DEF Spawn, SubInv, LockedFacts
<1>3. /\ registered' = [registered EXCEPT ![r] = t]
      /\ cancellable' = cancellable \cup {t}
      /\ co' = [co EXCEPT ![t] = "spawned"]
      /\ call' = [call EXCEPT ![c] = NoCall]
      /\ UNCHANGED <<row, role, outcome, marking, asked, told, seen, boots>>
  BY DEF Spawn
<1> HIDE DEF t, r
<1>4. TypeOK'
  <2>1. co' \in [Tasks -> {"none", "over", "dead"} \cup Live \cup Reporting]
    BY <1>3 DEF SubInv, TypeOK, Live
  <2>2. registered' \in [Roles -> Tasks \cup {NoTask}] /\ cancellable' \subseteq Tasks
    BY <1>2, <1>3 DEF SubInv, TypeOK
  <2> QED BY <1>1, <1>3, <2>1, <2>2 DEF SubInv, TypeOK, CallRecord
<1>5. \A d \in Calls : d # c => call'[d] = call[d] /\ call[d].pc \notin InLock
  BY <1>1, <1>2, <1>3 DEF SubInv, OneInLock, InLock
<1>6. call'[c] = NoCall
  BY <1>1, <1>3
<1>7. OneInLock' /\ LockedFacts'
  BY <1>3, <1>5, <1>6, IdleCall DEF SubInv, OneInLock, LockedFacts, InLock
<1>8. UnusedIds' /\ LiveIsRegistered'
  <2>1. co \in [Tasks -> {"none", "over", "dead"} \cup Live \cup Reporting]
        /\ registered \in [Roles -> Tasks \cup {NoTask}]
    BY DEF SubInv, TypeOK
  <2>2. \A u \in Tasks : u # t => co'[u] = co[u]
    BY <1>3, <2>1
  <2>3. registered'[r] = t /\ \A q \in Roles : q # r => registered'[q] = registered[q]
    BY <1>2, <1>3, <2>1
  <2>4. \A u \in Tasks : co[u] \in Live => role[u] # r
    BY <1>2, SubTasksAssumption DEF SubInv, LiveIsRegistered
  <2>5. LiveIsRegistered'
    BY <1>2, <1>3, <2>2, <2>3, <2>4 DEF SubInv, LiveIsRegistered
  <2>6. UnusedIds'
    BY <1>2, <1>3, <2>2 DEF SubInv, UnusedIds
  <2> QED BY <2>5, <2>6
<1>9. Holders' \subseteq Holders
  BY <1>2, <1>3 DEF SubInv, TypeOK, Holders, InSlot
<1>10. OutcomeIsSet'
  BY <1>2, <1>3 DEF SubInv, TypeOK, OutcomeIsSet, Unwound, Reporting
<1> QED BY <1>4, <1>7, <1>8, <1>9, <1>10, FewerHolders DEF SubInv

-------------------------------------------------------------------------------
(* A coroutine *)

\* A step of the coroutine of t that goes on to s and, when it leaves Live,
\* may take t out of the registry.
LEMMA CoroutineKeeps ==
  ASSUME SubInv, TypeOK', SlotsHold', NEW t \in Tasks, NEW s,
         co' = [co EXCEPT ![t] = s], co[t] # "none",
         UNCHANGED <<role, call>>,
         \A u \in Tasks : row'[u] = "none" <=> row[u] = "none",
         \A u \in Tasks : row[u] = "none" => marking'[u] = "none",
         \A u \in Tasks : u # t => outcome'[u] = outcome[u],
         s \in Unwound => outcome'[t] # "none",
         s \in Live => co[t] \in Live,
         \/ UNCHANGED registered
         \/ /\ registered' = [registered EXCEPT ![role[t]] = NoTask]
            /\ co[t] \in Live
            /\ s \notin Live
  PROVE  SubInv'
<1>1. co'[t] = s /\ \A u \in Tasks : u # t => co'[u] = co[u]
  BY DEF SubInv, TypeOK
<1>2. UnusedIds'
  BY <1>1 DEF SubInv, UnusedIds
<1>3. OutcomeIsSet'
  BY <1>1 DEF SubInv, OutcomeIsSet
<1>4. OneInLock'
  BY DEF SubInv, OneInLock
<1>5. \A r \in Roles :
         \/ registered'[r] = registered[r]
         \/ registered'[r] = NoTask /\ r = role[t] /\ co[t] \in Live /\ s \notin Live
  BY DEF SubInv, TypeOK
<1>6. LockedFacts'
  <2> SUFFICES ASSUME NEW c \in Calls
               PROVE  /\ call[c].pc # "idle" => call[c].role \in Roles
                      /\ call[c].pc \in {"inserting", "inserted"} =>
                            registered'[call[c].role] = NoTask
                      /\ call[c].pc = "inserted" =>
                            /\ call[c].task \in Tasks
                            /\ role[call[c].task] = call[c].role
                            /\ row'[call[c].task] # "none"
                            /\ co'[call[c].task] = "none"
    BY DEF LockedFacts
  <2>1. call[c].pc # "idle" => call[c].role \in Roles
    BY DEF SubInv, LockedFacts
  <2>2. call[c].pc \in {"inserting", "inserted"} => registered'[call[c].role] = NoTask
    BY <1>5, <2>1 DEF SubInv, LockedFacts
  <2>3. call[c].pc = "inserted" =>
            /\ call[c].task \in Tasks
            /\ role[call[c].task] = call[c].role
            /\ row'[call[c].task] # "none"
            /\ co'[call[c].task] = "none"
    BY <1>1 DEF SubInv, LockedFacts
  <2> QED BY <2>1, <2>2, <2>3
<1>7. LiveIsRegistered'
  <2> SUFFICES ASSUME NEW u \in Tasks, co'[u] \in Live
               PROVE  role[u] \in Roles /\ registered'[role[u]] = u
    BY DEF LiveIsRegistered
  <2>1. co[u] \in Live
    BY <1>1
  <2>2. role[u] \in Roles /\ registered[role[u]] = u
    BY <2>1 DEF SubInv, LiveIsRegistered
  <2>3. CASE u = t
    BY <1>1, <1>5, <2>2, <2>3
  <2>4. CASE u # t
    BY <1>5, <2>2, <2>4 DEF SubInv, LiveIsRegistered
  <2> QED BY <2>3, <2>4
<1> QED BY <1>2, <1>3, <1>4, <1>6, <1>7 DEF SubInv

\* The coroutine of t moves to a place where it holds no new slot.
LEMMA MoveHolds ==
  ASSUME SubInv, NEW t \in Tasks, NEW s, co' = [co EXCEPT ![t] = s],
         s \in InSlot => co[t] \in InSlot
  PROVE  SlotsHold'
<1>1. Holders' \subseteq Holders
  BY DEF SubInv, TypeOK, Holders
<1> QED BY <1>1, FewerHolders DEF SubInv

\* A task with a thread or with a coroutine has a row.
LEMMA BusyHasRow ==
  ASSUME SubInv, NEW t \in Tasks, co[t] # "none" \/ marking[t] # "none"
  PROVE  row[t] # "none"
BY DEF SubInv, UnusedIds

LEMMA StartKeeps ==
  ASSUME SubInv, NEW t \in Tasks, Start(t)
  PROVE  SubInv'
<1>1. co[t] = "spawned" /\ co' = [co EXCEPT ![t] = "waiting"]
  BY DEF Start
<1>2. TypeOK'
  BY <1>1 DEF Start, SubInv, TypeOK, Live
<1>3. SlotsHold'
  BY <1>1, MoveHolds DEF InSlot
<1> QED
  BY <1>1, <1>2, <1>3, CoroutineKeeps
     DEF Start, SubInv, UnusedIds, Live, Unwound, Reporting

LEMMA TakeSlotKeeps ==
  ASSUME SubInv, NEW t \in Tasks, TakeSlot(t)
  PROVE  SubInv'
<1>1. /\ co[t] = "waiting" /\ co' = [co EXCEPT ![t] = "marking"]
      /\ marking' = [marking EXCEPT ![t] = "flying"]
  BY DEF TakeSlot
<1>2. TypeOK'
  <2>1. co' \in [Tasks -> {"none", "over", "dead"} \cup Live \cup Reporting]
    BY <1>1 DEF SubInv, TypeOK, Live
  <2>2. marking' \in [Tasks -> {"none", "flying", "landed"}]
    BY <1>1 DEF SubInv, TypeOK
  <2> QED BY <2>1, <2>2 DEF TakeSlot, SubInv, TypeOK
<1>3. SlotsHold'
  <2>1. Holders' = Holders \cup {t} /\ t \notin Holders
    BY <1>1 DEF SubInv, TypeOK, Holders, InSlot
  <2>2. Cardinality(Holders') = Cardinality(Holders) + 1
    BY <2>1, HoldersFinite, FS_AddElement
  <2>3. Cardinality(Holders) < Slots
    BY DEF TakeSlot
  <2> QED BY <2>2, <2>3, HoldersFinite, SubTasksAssumption DEF SlotsHold
<1>4. row[t] # "none"
  BY <1>1, BusyHasRow
<1>5. \A u \in Tasks : row[u] = "none" => marking'[u] = "none"
  BY <1>1, <1>4 DEF SubInv, TypeOK, UnusedIds
<1> QED
  BY <1>1, <1>2, <1>3, <1>5, CoroutineKeeps
     DEF TakeSlot, Live, Unwound, Reporting

LEMMA MarkRunningKeeps ==
  ASSUME SubInv, NEW t \in Tasks, MarkRunning(t)
  PROVE  SubInv'
<1>1. /\ marking[t] = "flying"
      /\ row' = [row EXCEPT ![t] = "running"]
      /\ marking' = [marking EXCEPT ![t] = "landed"]
      /\ UNCHANGED <<role, registered, cancellable, co, outcome, asked, told, call,
                     seen, boots>>
  BY DEF MarkRunning
<1>2. row[t] # "none"
  BY <1>1, BusyHasRow
<1>3. TypeOK'
  <2>1. row' \in [Tasks -> {"none", "restarted"} \cup NotEnded \cup Ended]
    BY <1>1 DEF SubInv, TypeOK, NotEnded
  <2>2. marking' \in [Tasks -> {"none", "flying", "landed"}]
    BY <1>1 DEF SubInv, TypeOK
  <2> QED BY <1>1, <2>1, <2>2 DEF SubInv, TypeOK
<1>4. \A u \in Tasks : row'[u] = "none" <=> row[u] = "none"
  BY <1>1, <1>2 DEF SubInv, TypeOK
<1>5. UnusedIds'
  BY <1>1, <1>2, <1>4 DEF SubInv, TypeOK, UnusedIds
<1>6. OneInLock' /\ LockedFacts'
  BY <1>1, <1>4 DEF SubInv, OneInLock, LockedFacts
<1>7. LiveIsRegistered' /\ OutcomeIsSet' /\ Holders' = Holders
  BY <1>1 DEF SubInv, LiveIsRegistered, OutcomeIsSet, Holders
<1> QED BY <1>3, <1>5, <1>6, <1>7, FewerHolders DEF SubInv

LEMMA WorkKeeps ==
  ASSUME SubInv, NEW t \in Tasks, Work(t)
  PROVE  SubInv'
<1>1. co[t] = "marking" /\ co' = [co EXCEPT ![t] = "working"]
  BY DEF Work
<1>2. TypeOK'
  BY <1>1 DEF Work, SubInv, TypeOK, Live
<1>3. SlotsHold'
  BY <1>1, MoveHolds DEF InSlot
<1> QED
  BY <1>1, <1>2, <1>3, CoroutineKeeps
     DEF Work, SubInv, UnusedIds, Live, Unwound, Reporting

\* Leaving the body, whatever becomes of the thread of mark_running.
LEMMA LeaveKeeps ==
  ASSUME SubInv, NEW t \in Tasks, NEW o \in {"done", "failed"}, Leave(t, o),
         co[t] \in {"waiting", "marking", "working"},
         \/ UNCHANGED marking
         \/ marking' = [marking EXCEPT ![t] = "none"]
  PROVE  SubInv'
<1>1. /\ co' = [co EXCEPT ![t] = "unwound"]
      /\ outcome' = [outcome EXCEPT ![t] = o]
      /\ UNCHANGED <<row, role, registered, cancellable, asked, told, call, seen, boots>>
  BY DEF Leave
<1>2. TypeOK'
  <2>1. co' \in [Tasks -> {"none", "over", "dead"} \cup Live \cup Reporting]
    BY <1>1 DEF SubInv, TypeOK, Live
  <2>2. outcome' \in [Tasks -> {"none", "done", "failed"}]
    BY <1>1 DEF SubInv, TypeOK
  <2>3. marking' \in [Tasks -> {"none", "flying", "landed"}]
    BY DEF SubInv, TypeOK
  <2> QED BY <1>1, <2>1, <2>2, <2>3 DEF SubInv, TypeOK
<1>3. SlotsHold'
  BY <1>1, MoveHolds DEF InSlot
<1>4. \A u \in Tasks : row[u] = "none" => marking'[u] = "none"
  BY DEF SubInv, TypeOK, UnusedIds
<1>5. /\ \A u \in Tasks : u # t => outcome'[u] = outcome[u]
      /\ outcome'[t] # "none"
  BY <1>1 DEF SubInv, TypeOK
<1> QED BY <1>1, <1>2, <1>3, <1>4, <1>5, CoroutineKeeps DEF Live

LEMMA MarkFailsKeeps ==
  ASSUME SubInv, NEW t \in Tasks, MarkFails(t)
  PROVE  SubInv'
<1>1. CASE co[t] = "marking" /\ ~asked[t]
  <2>1. Leave(t, "failed") /\ marking' = [marking EXCEPT ![t] = "none"]
    BY <1>1 DEF MarkFails
  <2> QED BY <1>1, <2>1, LeaveKeeps
<1>2. CASE ~(co[t] = "marking" /\ ~asked[t])
  <2>1. /\ marking' = [marking EXCEPT ![t] = "none"]
        /\ UNCHANGED <<row, role, registered, cancellable, co, outcome, asked, told,
                       call, seen, boots>>
    BY <1>2 DEF MarkFails
  <2>2. TypeOK'
    BY <2>1 DEF SubInv, TypeOK
  <2>3. OneInLock' /\ LockedFacts'
    BY <2>1 DEF SubInv, OneInLock, LockedFacts
  <2>4. UnusedIds' /\ LiveIsRegistered' /\ OutcomeIsSet' /\ Holders' = Holders
    BY <2>1 DEF SubInv, TypeOK, UnusedIds, LiveIsRegistered, OutcomeIsSet, Holders
  <2> QED BY <2>2, <2>3, <2>4, FewerHolders DEF SubInv
<1> QED BY <1>1, <1>2

LEMMA UnstartedKeeps ==
  ASSUME SubInv, NEW t \in Tasks, CancelledUnstarted(t)
  PROVE  SubInv'
<1>1. co[t] = "spawned" /\ co' = [co EXCEPT ![t] = "over"]
  BY DEF CancelledUnstarted
<1>2. TypeOK'
  BY <1>1 DEF CancelledUnstarted, SubInv, TypeOK
<1>3. SlotsHold'
  BY <1>1, MoveHolds DEF InSlot
<1> QED
  BY <1>1, <1>2, <1>3, CoroutineKeeps
     DEF CancelledUnstarted, SubInv, UnusedIds, Live, Unwound, Reporting

-------------------------------------------------------------------------------
(* The report *)

LEMMA UnregisterKeeps ==
  ASSUME SubInv, NEW t \in Tasks, Unregister(t)
  PROVE  SubInv'
<1>1. /\ co[t] = "unwound" /\ co' = [co EXCEPT ![t] = "finishing"]
      /\ registered' = [registered EXCEPT ![role[t]] = NoTask]
      /\ cancellable' = cancellable \ {t}
      /\ UNCHANGED <<row, role, outcome, marking, asked, told, call, seen, boots>>
  BY DEF Unregister
<1>2. TypeOK'
  <2>1. co' \in [Tasks -> {"none", "over", "dead"} \cup Live \cup Reporting]
    BY <1>1 DEF SubInv, TypeOK, Reporting
  <2>2. registered' \in [Roles -> Tasks \cup {NoTask}] /\ cancellable' \subseteq Tasks
    BY <1>1 DEF SubInv, TypeOK
  <2> QED BY <1>1, <2>1, <2>2 DEF SubInv, TypeOK
<1>3. SlotsHold'
  BY <1>1, MoveHolds DEF InSlot
<1>4. outcome[t] # "none"
  BY <1>1 DEF SubInv, OutcomeIsSet, Unwound
<1> QED
  BY <1>1, <1>2, <1>3, <1>4, CoroutineKeeps DEF SubInv, UnusedIds, Live

LEMMA FinishKeeps ==
  ASSUME SubInv, NEW t \in Tasks, Finish(t)
  PROVE  SubInv'
<1>1. /\ co[t] = "finishing" /\ co' = [co EXCEPT ![t] = "boarding"]
      /\ row' = [row EXCEPT ![t] = IF row[t] \in Ended THEN row[t] ELSE outcome[t]]
      /\ UNCHANGED <<role, registered, cancellable, outcome, marking, asked, told, call,
                     seen, boots>>
  BY DEF Finish
<1>2. row[t] # "none"
  BY <1>1, BusyHasRow
<1>3. outcome[t] \in {"done", "failed"}
  BY <1>1 DEF SubInv, TypeOK, OutcomeIsSet, Unwound, Reporting
<1>4. TypeOK'
  <2>1. co' \in [Tasks -> {"none", "over", "dead"} \cup Live \cup Reporting]
    BY <1>1 DEF SubInv, TypeOK, Reporting
  <2>2. row' \in [Tasks -> {"none", "restarted"} \cup NotEnded \cup Ended]
    BY <1>1, <1>3 DEF SubInv, TypeOK, Ended
  <2> QED BY <1>1, <2>1, <2>2 DEF SubInv, TypeOK
<1>5. SlotsHold'
  BY <1>1, MoveHolds DEF InSlot
<1>6. \A u \in Tasks : row'[u] = "none" <=> row[u] = "none"
  BY <1>1, <1>2, <1>3 DEF SubInv, TypeOK
<1> QED
  BY <1>1, <1>3, <1>4, <1>5, <1>6, CoroutineKeeps DEF SubInv, UnusedIds, Live

LEMMA TellKeeps ==
  ASSUME SubInv, NEW t \in Tasks, Tell(t)
  PROVE  SubInv'
<1>1. co[t] = "boarding" /\ co' = [co EXCEPT ![t] = "over"]
  BY DEF Tell
<1>2. TypeOK'
  BY <1>1 DEF Tell, SubInv, TypeOK
<1>3. SlotsHold'
  BY <1>1, MoveHolds DEF InSlot
<1> QED
  BY <1>1, <1>2, <1>3, CoroutineKeeps
     DEF Tell, SubInv, UnusedIds, Live, Unwound, Reporting

LEMMA ReportFailsKeeps ==
  ASSUME SubInv, NEW t \in Tasks, ReportFails(t)
  PROVE  SubInv'
<1>1. co[t] \in Reporting /\ co' = [co EXCEPT ![t] = "over"]
  BY DEF ReportFails
<1>2. TypeOK'
  BY <1>1 DEF ReportFails, SubInv, TypeOK
<1>3. SlotsHold'
  BY <1>1, MoveHolds DEF InSlot
<1> QED
  BY <1>1, <1>2, <1>3, CoroutineKeeps
     DEF ReportFails, SubInv, UnusedIds, Live, Unwound, Reporting

-------------------------------------------------------------------------------
(* Interrupts and boots *)

LEMMA InterruptKeeps ==
  ASSUME SubInv, Cancel \/ \E t \in Tasks : ReadTarget(t)
  PROVE  SubInv'
<1>1. TypeOK'
  BY DEF SubInv, TypeOK, Cancel, ReadTarget
<1>2. UNCHANGED <<row, role, registered, co, outcome, marking, call>>
  BY DEF Cancel, ReadTarget
<1>3. OneInLock' /\ LockedFacts'
  BY <1>2 DEF SubInv, OneInLock, LockedFacts
<1>4. UnusedIds' /\ LiveIsRegistered' /\ OutcomeIsSet' /\ Holders' = Holders
  BY <1>2 DEF SubInv, UnusedIds, LiveIsRegistered, OutcomeIsSet, Holders
<1> QED BY <1>1, <1>3, <1>4, FewerHolders DEF SubInv

\* The clean-up of a boot ends rows and makes none.
LEMMA CleanUpRows ==
  ASSUME TypeOK, CleanUp \/ row' = row
  PROVE  /\ row' \in [Tasks -> {"none", "restarted"} \cup NotEnded \cup Ended]
         /\ \A t \in Tasks : row'[t] = "none" <=> row[t] = "none"
         /\ \A t \in Tasks : row[t] \notin NotEnded => row'[t] = row[t]
         /\ \A t \in Tasks : row'[t] \in Ended => row[t] = row'[t]
BY DEF TypeOK, CleanUp, NotEnded, Ended

LEMMA RestartKeeps ==
  ASSUME SubInv, Restart
  PROVE  SubInv'
<1>1. /\ CleanUp \/ row' = row
      /\ registered' = [r \in Roles |-> NoTask]
      /\ cancellable' = {}
      /\ co' = [t \in Tasks |-> IF co[t] = "over" \/ row[t] = "none"
                                THEN co[t] ELSE "dead"]
      /\ marking' = [t \in Tasks |-> "none"]
      /\ call' = [c \in Calls |-> NoCall]
      /\ boots' = boots + 1 /\ seen' = NoTask
      /\ UNCHANGED <<role, outcome, asked, told>>
  BY DEF Restart
<1>2. \A t \in Tasks : co'[t] \in {"none", "over", "dead"}
  BY <1>1 DEF SubInv, UnusedIds
<1>3. call' \in [Calls -> CallRecord] /\ \A c \in Calls : call'[c] = NoCall
  BY <1>1, IdleCall
<1>4. TypeOK'
  <2>1. co' \in [Tasks -> {"none", "over", "dead"} \cup Live \cup Reporting]
    BY <1>1, <1>2
  <2>2. row' \in [Tasks -> {"none", "restarted"} \cup NotEnded \cup Ended]
    BY <1>1, CleanUpRows DEF SubInv
  <2>3. /\ registered' \in [Roles -> Tasks \cup {NoTask}]
        /\ marking' \in [Tasks -> {"none", "flying", "landed"}]
        /\ boots' \in Nat
    BY <1>1 DEF SubInv, TypeOK
  <2> QED BY <1>1, <1>3, <2>1, <2>2, <2>3 DEF SubInv, TypeOK, CallRecord
<1>5. OneInLock' /\ LockedFacts'
  BY <1>3, IdleCall DEF OneInLock, LockedFacts, InLock
<1>6. UnusedIds'
  BY <1>1, CleanUpRows DEF SubInv, UnusedIds
<1>7. LiveIsRegistered' /\ OutcomeIsSet'
  BY <1>2 DEF LiveIsRegistered, OutcomeIsSet, Live, Unwound, Reporting
<1>8. Holders' \subseteq Holders
  BY <1>2 DEF Holders, InSlot
<1> QED BY <1>4, <1>5, <1>6, <1>7, <1>8, FewerHolders DEF SubInv

LEMMA PeerBootKeeps ==
  ASSUME SubInv, PeerBoot
  PROVE  SubInv'
<1>1. /\ CleanUp
      /\ boots' = boots + 1
      /\ UNCHANGED <<role, registered, cancellable, co, outcome, marking, asked, told,
                     call, seen>>
  BY DEF PeerBoot
<1>2. /\ row' \in [Tasks -> {"none", "restarted"} \cup NotEnded \cup Ended]
      /\ \A t \in Tasks : row'[t] = "none" <=> row[t] = "none"
  BY <1>1, CleanUpRows DEF SubInv
<1>3. TypeOK'
  BY <1>1, <1>2 DEF SubInv, TypeOK
<1>4. OneInLock' /\ LockedFacts'
  BY <1>1, <1>2 DEF SubInv, OneInLock, LockedFacts
<1>5. UnusedIds' /\ LiveIsRegistered' /\ OutcomeIsSet' /\ Holders' = Holders
  BY <1>1, <1>2 DEF SubInv, UnusedIds, LiveIsRegistered, OutcomeIsSet, Holders
<1> QED BY <1>3, <1>4, <1>5, FewerHolders DEF SubInv

-------------------------------------------------------------------------------
LEMMA SubStep == SubInv /\ [Next]_vars => SubInv'
<1> SUFFICES ASSUME SubInv, [Next]_vars PROVE SubInv'
  OBVIOUS
<1>1. ASSUME NEW c \in Calls, DispatchStep(c) PROVE SubInv'
  <2>1. CASE LookUp(c)
    BY <2>1, LookUpKeeps
  <2>2. CASE AnswerExisting(c)
    BY <2>2, IdleKeeps DEF AnswerExisting
  <2>3. CASE InsertRow(c)
    BY <2>3, InsertKeeps
  <2>4. CASE InsertFails(c)
    BY <2>4, IdleKeeps DEF InsertFails
  <2>5. CASE Spawn(c)
    BY <2>5, SpawnKeeps
  <2> QED BY <1>1, <2>1, <2>2, <2>3, <2>4, <2>5 DEF DispatchStep
<1>2. ASSUME NEW c \in Calls, NEW r \in Roles, Dispatch(c, r) PROVE SubInv'
  BY <1>2, DispatchKeeps
<1>3. ASSUME NEW t \in Tasks, OwnStep(t) PROVE SubInv'
  <2>1. CASE Start(t)
    BY <2>1, StartKeeps
  <2>2. CASE Work(t)
    BY <2>2, WorkKeeps
  <2>3. CASE Cancelled(t)
    BY <2>3, LeaveKeeps DEF Cancelled
  <2>4. CASE CancelledUnstarted(t)
    BY <2>4, UnstartedKeeps
  <2>5. CASE Unregister(t)
    BY <2>5, UnregisterKeeps
  <2>6. CASE Finish(t)
    BY <2>6, FinishKeeps
  <2>7. CASE Tell(t)
    BY <2>7, TellKeeps
  <2>8. CASE ReportFails(t)
    BY <2>8, ReportFailsKeeps
  <2> QED BY <1>3, <2>1, <2>2, <2>3, <2>4, <2>5, <2>6, <2>7, <2>8 DEF OwnStep
<1>4. ASSUME NEW t \in Tasks, TakeSlot(t) \/ MarkStep(t) \/ WorkEnds(t) PROVE SubInv'
  <2>1. CASE TakeSlot(t)
    BY <2>1, TakeSlotKeeps
  <2>2. CASE MarkStep(t)
    BY <2>2, MarkRunningKeeps, MarkFailsKeeps DEF MarkStep
  <2>3. CASE WorkEnds(t)
    BY <2>3, LeaveKeeps DEF WorkEnds
  <2> QED BY <1>4, <2>1, <2>2, <2>3
<1>5. CASE Restart \/ PeerBoot
  BY <1>5, RestartKeeps, PeerBootKeeps
<1>6. CASE Cancel \/ \E t \in Tasks : ReadTarget(t)
  BY <1>6, InterruptKeeps
<1>7. CASE UNCHANGED vars
  <2>1. TypeOK' /\ Holders' = Holders
    BY <1>7 DEF vars, SubInv, TypeOK, Holders
  <2>2. OneInLock' /\ LockedFacts' /\ UnusedIds' /\ LiveIsRegistered' /\ OutcomeIsSet'
    BY <1>7 DEF vars, SubInv, OneInLock, LockedFacts, UnusedIds, LiveIsRegistered,
                OutcomeIsSet
  <2> QED BY <2>1, <2>2, FewerHolders DEF SubInv
<1> QED BY <1>1, <1>2, <1>3, <1>4, <1>5, <1>6, <1>7 DEF Next

\* The inductive invariant holds for every set of tasks, roles and dispatches.
THEOREM SubSafe == Spec => []SubInv
<1> QED BY SubInit, SubStep, PTL DEF Spec

\* Type correctness of tasks, registry and dispatches (orch/registry.py).
THEOREM TypesHold == Spec => []TypeOK
<1>1. SubInv => TypeOK
  BY DEF SubInv
<1> QED BY <1>1, SubSafe, PTL

\* A role never runs twice at once, however dispatches, cancellations, failures
\* and boots fall (create_task_guarded).
THEOREM RolesRunOnce == Spec => []OneSubPerRole
<1>1. SubInv => OneSubPerRole
  BY DEF SubInv, LiveIsRegistered, OneSubPerRole
<1> QED BY <1>1, SubSafe, PTL

\* The room's semaphore is never overdrawn (sub_semaphore).
THEOREM SlotsAreKept == Spec => []SlotsHold
<1>1. SubInv => SlotsHold
  BY DEF SubInv
<1> QED BY <1>1, SubSafe, PTL

-------------------------------------------------------------------------------
(* Without cancellations *)

\* When no user cancels: nobody is asked to stop, the thread of mark_running is
\* awaited, and a row keeps a status that is not final until its report.
QuietInv ==
    /\ seen = NoTask
    /\ \A t \in Tasks :
          /\ ~asked[t]
          /\ marking[t] = "flying" => co[t] = "marking"
          /\ co[t] \in {"none", "finishing"} \cup Live => row[t] \notin Ended
          /\ co[t] = "boarding" => row[t] = outcome[t]

LEMMA QuietInit == Init => QuietInv
BY DEF Init, QuietInv, Live, Ended

\* A step of t alone keeps the facts of the other tasks.
LEMMA QuietStep ==
  ASSUME ~Interrupts, SubInv, QuietInv, [Next]_vars
  PROVE  QuietInv'
<1> USE DEF QuietInv
<1>1. ASSUME NEW c \in Calls, DispatchStep(c) PROVE QuietInv'
  <2>1. CASE InsertRow(c)
    <3>1. PICK t \in Tasks : row[t] = "none" /\ row' = [row EXCEPT ![t] = "queued"]
      BY <2>1 DEF InsertRow
    <3>2. \A u \in Tasks : row'[u] \in Ended => row[u] = row'[u]
      BY <3>1 DEF SubInv, TypeOK, Ended
    <3>3. \A u \in Tasks : co[u] = "boarding" => u # t
      BY <3>1 DEF SubInv, UnusedIds
    <3> QED BY <2>1, <3>1, <3>2, <3>3 DEF InsertRow, SubInv, TypeOK
  <2>2. CASE Spawn(c)
    <3>1. /\ call[c].task \in Tasks /\ co[call[c].task] = "none"
          /\ co' = [co EXCEPT ![call[c].task] = "spawned"]
          /\ UNCHANGED <<row, outcome, marking, asked, seen>>
      BY <2>2 DEF Spawn, SubInv, LockedFacts
    <3> QED BY <3>1 DEF SubInv, TypeOK, Live
  <2>3. CASE LookUp(c) \/ AnswerExisting(c) \/ InsertFails(c)
    BY <2>3 DEF LookUp, AnswerExisting, InsertFails
  <2> QED BY <1>1, <2>1, <2>2, <2>3 DEF DispatchStep
<1>2. ASSUME NEW c \in Calls, NEW r \in Roles, Dispatch(c, r) PROVE QuietInv'
  BY <1>2 DEF Dispatch
<1>3. ASSUME NEW t \in Tasks, OwnStep(t) PROVE QuietInv'
  <2>1. CASE Start(t)
    BY <2>1 DEF Start, SubInv, TypeOK, Live
  <2>2. CASE Work(t)
    BY <2>2 DEF Work, SubInv, TypeOK, Live
  <2>3. CASE Cancelled(t) \/ CancelledUnstarted(t)
    BY <2>3 DEF Cancelled, CancelledUnstarted
  <2>4. CASE Unregister(t)
    BY <2>4 DEF Unregister, SubInv, TypeOK, Live
  <2>5. CASE Finish(t)
    <3>1. /\ co[t] = "finishing" /\ row[t] \notin Ended
          /\ row' = [row EXCEPT ![t] = outcome[t]]
          /\ co' = [co EXCEPT ![t] = "boarding"]
          /\ UNCHANGED <<outcome, marking, asked, seen>>
      BY <2>5 DEF Finish
    <3> QED BY <3>1 DEF SubInv, TypeOK, Live
  <2>6. CASE Tell(t) \/ ReportFails(t)
    BY <2>6 DEF Tell, ReportFails, SubInv, TypeOK, Live, Reporting
  <2> QED BY <1>3, <2>1, <2>2, <2>3, <2>4, <2>5, <2>6 DEF OwnStep
<1>4. ASSUME NEW t \in Tasks, TakeSlot(t) \/ MarkStep(t) \/ WorkEnds(t) PROVE QuietInv'
  <2>1. CASE TakeSlot(t)
    BY <2>1 DEF TakeSlot, SubInv, TypeOK, Live
  <2>2. CASE MarkRunning(t)
    <3>1. /\ marking[t] = "flying"
          /\ row' = [row EXCEPT ![t] = "running"]
          /\ marking' = [marking EXCEPT ![t] = "landed"]
          /\ UNCHANGED <<co, outcome, asked, seen>>
      BY <2>2 DEF MarkRunning
    <3> QED BY <3>1 DEF SubInv, TypeOK, Ended
  <2>3. CASE MarkFails(t)
    <3>1. marking[t] = "flying" /\ co[t] = "marking" /\ ~asked[t]
      BY <2>3 DEF MarkFails
    <3>2. /\ marking' = [marking EXCEPT ![t] = "none"]
          /\ co' = [co EXCEPT ![t] = "unwound"]
          /\ \A u \in Tasks : u # t => outcome'[u] = outcome[u]
          /\ UNCHANGED <<row, asked, seen>>
      BY <2>3, <3>1 DEF MarkFails, Leave, SubInv, TypeOK
    <3> QED BY <3>1, <3>2 DEF SubInv, TypeOK, Live
  <2>4. CASE WorkEnds(t)
    <3>1. /\ co[t] = "working" /\ co' = [co EXCEPT ![t] = "unwound"]
          /\ \A u \in Tasks : u # t => outcome'[u] = outcome[u]
          /\ UNCHANGED <<row, asked, seen, marking>>
      BY <2>4 DEF WorkEnds, Leave, SubInv, TypeOK
    <3> QED BY <3>1 DEF SubInv, TypeOK, Live
  <2> QED BY <1>4, <2>1, <2>2, <2>3, <2>4 DEF MarkStep
<1>5. CASE Restart
  <2>1. /\ CleanUp \/ row' = row
        /\ co' = [t \in Tasks |-> IF co[t] = "over" \/ row[t] = "none"
                                  THEN co[t] ELSE "dead"]
        /\ marking' = [t \in Tasks |-> "none"]
        /\ seen' = NoTask
        /\ UNCHANGED asked
    BY <1>5 DEF Restart
  <2>2. \A t \in Tasks : /\ co'[t] \in {"none", "over", "dead"}
                         /\ co'[t] = "none" => row[t] = "none"
    BY <2>1 DEF SubInv, UnusedIds
  <2>3. \A t \in Tasks : row[t] = "none" => row'[t] \notin Ended
    BY <2>1, CleanUpRows DEF SubInv, Ended
  <2> QED BY <2>1, <2>2, <2>3 DEF Live
<1>6. CASE PeerBoot
  <2>1. CleanUp /\ UNCHANGED <<co, outcome, marking, asked, seen>>
    BY <1>6 DEF PeerBoot
  <2>2. \A t \in Tasks : row'[t] \in Ended => row[t] = row'[t]
    BY <2>1, CleanUpRows DEF SubInv
  <2>3. \A t \in Tasks : co[t] = "boarding" => row'[t] = row[t]
    <3>1. \A t \in Tasks : co[t] = "boarding" => row[t] \notin NotEnded
      BY DEF SubInv, OutcomeIsSet, TypeOK, NotEnded, Unwound, Reporting
    <3> QED BY <2>1, <3>1, CleanUpRows DEF SubInv
  <2> QED BY <2>1, <2>2, <2>3
<1>7. CASE Cancel \/ \E t \in Tasks : ReadTarget(t)
  BY <1>7 DEF Cancel, ReadTarget
<1>8. CASE UNCHANGED vars
  BY <1>8 DEF vars
<1> QED BY <1>1, <1>2, <1>3, <1>4, <1>5, <1>6, <1>7, <1>8 DEF Next

LEMMA QuietSafe == ASSUME ~Interrupts PROVE Spec => [](SubInv /\ QuietInv)
<1>1. Init => SubInv /\ QuietInv
  BY SubInit, QuietInit
<1>2. SubInv /\ QuietInv /\ [Next]_vars => SubInv' /\ QuietInv'
  BY SubStep, QuietStep
<1> QED BY <1>1, <1>2, PTL DEF Spec

\* While nobody cancels, the status done, failed or timeout of a task is never
\* overwritten, not by a thread, a report nor a boot of any process
\* (_update_status_sync, _cleanup_orphans_sync).
THEOREM TerminalStays == ASSUME ~Interrupts PROVE Spec => TerminalIsFinal
<1>1. ASSUME SubInv, QuietInv, [Next]_vars, NEW t \in Tasks, row[t] \in Ended
      PROVE  row'[t] = row[t]
  <2>1. ASSUME NEW c \in Calls, DispatchStep(c) PROVE row'[t] = row[t]
    <3>1. CASE InsertRow(c)
      BY <1>1, <3>1 DEF InsertRow, SubInv, TypeOK, Ended
    <3> QED BY <2>1, <3>1 DEF DispatchStep, LookUp, AnswerExisting, InsertFails, Spawn
  <2>2. ASSUME NEW u \in Tasks, OwnStep(u) PROVE row'[t] = row[t]
    <3>1. CASE Finish(u)
      BY <1>1, <3>1 DEF Finish, SubInv, TypeOK
    <3> QED
      BY <2>2, <3>1 DEF OwnStep, Start, Work, Cancelled, CancelledUnstarted, Leave,
                        Unregister, Tell, ReportFails
  <2>3. ASSUME NEW u \in Tasks, TakeSlot(u) \/ MarkStep(u) \/ WorkEnds(u)
        PROVE  row'[t] = row[t]
    <3>1. CASE MarkRunning(u)
      <4>1. u # t
        BY <1>1, <3>1 DEF MarkRunning, QuietInv, Live
      <4> QED BY <3>1, <4>1 DEF MarkRunning, SubInv, TypeOK
    <3> QED BY <2>3, <3>1 DEF TakeSlot, MarkStep, MarkFails, WorkEnds, Leave
  <2>4. CASE Restart \/ PeerBoot
    BY <1>1, <2>4, CleanUpRows DEF Restart, PeerBoot, SubInv, Ended, NotEnded
  <2> QED
    BY <1>1, <2>1, <2>2, <2>3, <2>4 DEF Next, Dispatch, Cancel, ReadTarget, vars
<1>2. SubInv /\ QuietInv /\ [Next]_vars =>
        [\A t \in Tasks : row[t] \in Ended => row'[t] = row[t]]_vars
  BY <1>1
<1> QED BY <1>2, QuietSafe, PTL DEF Spec, TerminalIsFinal

\* While nobody cancels, the event of a task goes to the room when its row has
\* the outcome the event carries (_report: finish_task, then on_task_done).
THEOREM ToldAfterSaved == ASSUME ~Interrupts PROVE Spec => PersistedBeforeTold
<1>1. ASSUME SubInv, QuietInv, [Next]_vars, NEW t \in Tasks, told'[t] # told[t]
      PROVE  row[t] = outcome[t]
  <2>1. PICK u \in Tasks : Tell(u)
    BY <1>1 DEF Next, vars, DispatchStep, Dispatch, LookUp, AnswerExisting, InsertRow,
       InsertFails, Spawn, OwnStep, Start, Work, Cancelled, CancelledUnstarted, Leave,
       Unregister, Finish, ReportFails, TakeSlot, MarkStep, MarkRunning, MarkFails,
       WorkEnds, ReadTarget, Cancel, Restart, PeerBoot
  <2>2. u = t
    BY <1>1, <2>1 DEF Tell, SubInv, TypeOK
  <2> QED BY <1>1, <2>1, <2>2 DEF Tell, QuietInv
<1>2. SubInv /\ QuietInv /\ [Next]_vars =>
        [\A t \in Tasks : told'[t] # told[t] => row[t] = outcome[t]]_vars
  BY <1>1
<1> QED BY <1>2, QuietSafe, PTL DEF Spec, PersistedBeforeTold

\* While nobody cancels, a registration belongs to a live sub-agent of the role.
RegisteredIsLive ==
    \A r \in Roles : \A t \in Tasks :
        registered[r] = t => role[t] = r /\ co[t] \in Live

\* A coroutine that stays live, or was not, keeps the registry right.
LEMMA RegisteredStays ==
  ASSUME RegisteredIsLive, UNCHANGED <<registered, role>>,
         \A t \in Tasks : co[t] \in Live => co'[t] \in Live
  PROVE  RegisteredIsLive'
BY DEF RegisteredIsLive

LEMMA RegisteredStep ==
  ASSUME SubInv, QuietInv, RegisteredIsLive, [Next]_vars
  PROVE  RegisteredIsLive'
<1>1. ASSUME NEW c \in Calls, DispatchStep(c) PROVE RegisteredIsLive'
  <2>1. CASE InsertRow(c)
    <3>1. PICK t \in Tasks : row[t] = "none"
                             /\ role' = [role EXCEPT ![t] = call[c].role]
      BY <2>1 DEF InsertRow
    <3>2. co[t] \notin Live
      BY <3>1 DEF SubInv, UnusedIds, Live
    <3> QED BY <2>1, <3>1, <3>2 DEF InsertRow, RegisteredIsLive, SubInv, TypeOK
  <2>2. CASE Spawn(c)
    <3>1. PICK t \in Tasks, r \in Roles : t = call[c].task /\ r = call[c].role
      BY <2>2 DEF Spawn, SubInv, LockedFacts
    <3>2. /\ registered' = [registered EXCEPT ![r] = t]
          /\ co' = [co EXCEPT ![t] = "spawned"]
          /\ role' = role /\ role[t] = r
      BY <2>2, <3>1 DEF Spawn, SubInv, LockedFacts
    <3> QED BY <3>2 DEF RegisteredIsLive, SubInv, TypeOK, Live
  <2>3. CASE LookUp(c) \/ AnswerExisting(c) \/ InsertFails(c)
    BY <2>3, RegisteredStays DEF LookUp, AnswerExisting, InsertFails
  <2> QED BY <1>1, <2>1, <2>2, <2>3 DEF DispatchStep
<1>2. ASSUME NEW c \in Calls, NEW r \in Roles, Dispatch(c, r)
      PROVE  RegisteredIsLive'
  BY <1>2, RegisteredStays DEF Dispatch
<1>3. ASSUME NEW t \in Tasks, OwnStep(t) PROVE RegisteredIsLive'
  <2>1. CASE Start(t) \/ Work(t)
    BY <2>1, RegisteredStays DEF Start, Work, SubInv, TypeOK, Live
  <2>2. ~Cancelled(t) /\ ~CancelledUnstarted(t)
    BY DEF QuietInv, Cancelled, CancelledUnstarted
  <2>3. CASE Unregister(t)
    <3>1. PICK r \in Roles : r = role[t] /\ registered[r] = t
      BY <2>3 DEF Unregister, SubInv, LiveIsRegistered, Live
    <3>2. /\ registered' = [registered EXCEPT ![r] = NoTask]
          /\ co' = [co EXCEPT ![t] = "finishing"] /\ role' = role
      BY <2>3, <3>1 DEF Unregister
    <3> QED BY <3>1, <3>2, SubTasksAssumption
            DEF RegisteredIsLive, SubInv, TypeOK
  <2>4. CASE Finish(t) \/ Tell(t) \/ ReportFails(t)
    BY <2>4, RegisteredStays
       DEF Finish, Tell, ReportFails, SubInv, TypeOK, Live, Reporting
  <2> QED BY <1>3, <2>1, <2>2, <2>3, <2>4 DEF OwnStep
<1>4. ASSUME NEW t \in Tasks, TakeSlot(t) \/ MarkStep(t) \/ WorkEnds(t)
      PROVE  RegisteredIsLive'
  <2>1. UNCHANGED <<registered, role>>
    BY <1>4 DEF TakeSlot, MarkStep, MarkRunning, MarkFails, WorkEnds, Leave
  <2>2. \/ co' = co
        \/ \E p \in {"marking", "unwound"} : co' = [co EXCEPT ![t] = p]
    BY <1>4 DEF TakeSlot, MarkStep, MarkRunning, MarkFails, WorkEnds, Leave
  <2> QED BY <2>1, <2>2, RegisteredStays DEF SubInv, TypeOK, Live
<1>5. CASE Restart
  BY <1>5, SubTasksAssumption DEF Restart, RegisteredIsLive
<1>6. CASE PeerBoot \/ Cancel \/ \E t \in Tasks : ReadTarget(t)
  BY <1>6, RegisteredStays DEF PeerBoot, Cancel, ReadTarget
<1>7. CASE UNCHANGED vars
  BY <1>7, RegisteredStays DEF vars
<1> QED BY <1>1, <1>2, <1>3, <1>4, <1>5, <1>6, <1>7 DEF Next

\* While nobody cancels, a role is registered exactly from the spawn of its
\* sub-agent to its report, whatever fails or boots (spawn_sub, _report).  A
\* task cancelled before its first step stays registered.
THEOREM RegistryStaysExact == ASSUME ~Interrupts PROVE Spec => []RegistryIsExact
<1>1. Init => RegisteredIsLive
  BY SubTasksAssumption DEF Init, RegisteredIsLive
<1>2. SubInv /\ QuietInv /\ RegisteredIsLive /\ [Next]_vars => RegisteredIsLive'
  BY RegisteredStep
<1>3. SubInv /\ RegisteredIsLive => RegistryIsExact
  BY DEF SubInv, LiveIsRegistered, RegisteredIsLive, RegistryIsExact
<1> QED BY <1>1, <1>2, <1>3, QuietSafe, PTL DEF Spec

-------------------------------------------------------------------------------
(* Without cancellations and failures of the database *)

\* One event for a coroutine that is over, none before; and what is queued or
\* running has somebody who will end it.
CalmInv ==
    /\ \A t \in Tasks : told[t] = IF co[t] = "over" THEN 1 ELSE 0
    /\ \A t \in Tasks : co[t] = "boarding" => row[t] \notin NotEnded
    /\ \A c \in Calls : call[c].pc # "inserted" => call[c].task = NoTask
    /\ BoardIsTrue

LEMMA CalmInit == Init => CalmInv
BY DEF Init, CalmInv, BoardIsTrue, NoCall, NotEnded

LEMMA CalmDispatch ==
  ASSUME SubInv, CalmInv, NEW c \in Calls,
         DispatchStep(c) \/ \E r \in Roles : Dispatch(c, r)
  PROVE  CalmInv'
<1> USE DEF CalmInv
<1>1. call \in [Calls -> CallRecord]
  BY DEF SubInv, TypeOK, CallRecord
<1>2. \A d \in Calls, t \in Tasks : call[d].task = t => call[d].pc = "inserted"
  BY SubTasksAssumption
<1>3. CASE LookUp(c)
  <2> DEFINE p == IF registered[call[c].role] # NoTask THEN "reading" ELSE "inserting"
             k == [call[c] EXCEPT !.pc = p]
  <2>1. k.task = call[c].task /\ call' = [call EXCEPT ![c] = k]
    BY <1>1, <1>3, CallPc DEF LookUp, InLock
  <2>2. \A d \in Calls : call'[d].task = call[d].task
    BY <1>1, <2>1
  <2>3. \A d \in Calls : call'[d].pc # "inserted" => call'[d].task = NoTask
    BY <1>1, <1>3, <2>1, <2>2 DEF LookUp
  <2> QED BY <1>3, <2>2, <2>3 DEF LookUp, BoardIsTrue
<1>4. CASE AnswerExisting(c) \/ InsertFails(c) \/ \E r \in Roles : Dispatch(c, r)
  <2>1. /\ \A d \in Calls : d # c => call'[d] = call[d]
        /\ call'[c].task = NoTask
        /\ UNCHANGED <<row, co, told>>
    BY <1>1, <1>4, IdleCall DEF AnswerExisting, InsertFails, Dispatch
  <2>2. call[c].pc # "inserted"
    BY <1>4 DEF AnswerExisting, InsertFails, Dispatch
  <2>3. BoardIsTrue'
    BY <1>2, <2>1, <2>2 DEF BoardIsTrue
  <2> QED BY <2>1, <2>3
<1>5. CASE InsertRow(c)
  <2>1. PICK t \in Tasks :
           /\ row[t] = "none"
           /\ row' = [row EXCEPT ![t] = "queued"]
           /\ call' = [call EXCEPT ![c].pc = "inserted", ![c].task = t]
    BY <1>5 DEF InsertRow
  <2>2. call'[c].pc = "inserted" /\ call'[c].task = t
    <3>1. PICK h \in CallRecord : h = call[c]
      BY <1>1
    <3>2. call'[c] = [h EXCEPT !.pc = "inserted", !.task = t]
      BY <1>1, <2>1, <3>1
    <3> QED BY <3>1, <3>2 DEF CallRecord
  <2>3. \A d \in Calls : d # c => call'[d] = call[d]
    BY <1>1, <2>1
  <2>4. call[c].pc = "inserting" /\ UNCHANGED <<co, told>>
    BY <1>5 DEF InsertRow
  <2>5. BoardIsTrue'
    BY <1>2, <2>1, <2>2, <2>3, <2>4 DEF BoardIsTrue, SubInv, TypeOK
  <2>6. \A u \in Tasks : co[u] = "boarding" => u # t
    BY <2>1 DEF SubInv, UnusedIds
  <2> QED BY <2>1, <2>2, <2>3, <2>4, <2>5, <2>6 DEF SubInv, TypeOK
<1>6. CASE Spawn(c)
  <2> DEFINE t == call[c].task
  <2>1. /\ t \in Tasks /\ co[t] = "none" /\ co' = [co EXCEPT ![t] = "spawned"]
        /\ call' = [call EXCEPT ![c] = NoCall]
        /\ UNCHANGED <<row, told>>
    BY <1>6 DEF Spawn, SubInv, LockedFacts
  <2>2. \A d \in Calls : d # c => call'[d] = call[d]
    BY <1>1, <2>1
  <2>3. BoardIsTrue'
    BY <1>1, <2>1, <2>2 DEF BoardIsTrue, SubInv, TypeOK, Live
  <2> QED BY <1>1, <2>1, <2>2, <2>3, IdleCall DEF SubInv, TypeOK
<1> QED BY <1>3, <1>4, <1>5, <1>6 DEF DispatchStep

LEMMA CalmStep ==
  ASSUME ~Interrupts, ~DbFails, SubInv, QuietInv, CalmInv, [Next]_vars
  PROVE  CalmInv'
<1> USE DEF CalmInv
<1>1. ASSUME NEW c \in Calls, DispatchStep(c) PROVE CalmInv'
  BY <1>1, CalmDispatch
<1>2. ASSUME NEW c \in Calls, NEW r \in Roles, Dispatch(c, r) PROVE CalmInv'
  BY <1>2, CalmDispatch
<1>3. ASSUME NEW t \in Tasks, OwnStep(t) PROVE CalmInv'
  <2>1. CASE Finish(t)
    <3>1. /\ co[t] = "finishing" /\ row[t] \notin Ended
          /\ row' = [row EXCEPT ![t] = outcome[t]]
          /\ co' = [co EXCEPT ![t] = "boarding"]
          /\ UNCHANGED <<told, call>>
      BY <2>1 DEF Finish, QuietInv
    <3>2. outcome[t] \in {"done", "failed"}
      BY <3>1 DEF SubInv, TypeOK, OutcomeIsSet, Unwound, Reporting
    <3>3. BoardIsTrue'
      BY <3>1, <3>2 DEF BoardIsTrue, SubInv, TypeOK, Reporting, Live, NotEnded
    <3> QED BY <3>1, <3>2, <3>3 DEF SubInv, TypeOK, NotEnded
  <2>2. CASE Tell(t)
    BY <2>2 DEF Tell, SubInv, TypeOK, BoardIsTrue, Live, Reporting
  <2>3. CASE Start(t)
    BY <2>3 DEF Start, SubInv, TypeOK, BoardIsTrue, Live
  <2>4. CASE Work(t)
    BY <2>4 DEF Work, SubInv, TypeOK, BoardIsTrue, Live
  <2>5. CASE Unregister(t)
    BY <2>5 DEF Unregister, SubInv, TypeOK, BoardIsTrue, Live, Reporting
  <2>6. ~Cancelled(t) /\ ~CancelledUnstarted(t) /\ ~ReportFails(t)
    BY DEF QuietInv, Cancelled, CancelledUnstarted, ReportFails
  <2> QED BY <1>3, <2>1, <2>2, <2>3, <2>4, <2>5, <2>6 DEF OwnStep
<1>4. ASSUME NEW t \in Tasks, TakeSlot(t) \/ MarkStep(t) \/ WorkEnds(t) PROVE CalmInv'
  <2>1. CASE TakeSlot(t)
    BY <2>1 DEF TakeSlot, SubInv, TypeOK, BoardIsTrue, Live
  <2>2. CASE MarkRunning(t)
    <3>1. /\ co[t] = "marking" /\ row' = [row EXCEPT ![t] = "running"]
          /\ UNCHANGED <<co, told, call>>
      BY <2>2 DEF MarkRunning, QuietInv
    <3> QED BY <3>1 DEF SubInv, TypeOK, BoardIsTrue, Live
  <2>3. CASE WorkEnds(t)
    <3>1. /\ co[t] = "working" /\ co' = [co EXCEPT ![t] = "unwound"]
          /\ UNCHANGED <<row, told, call>>
      BY <2>3 DEF WorkEnds, Leave
    <3> QED BY <3>1 DEF SubInv, TypeOK, BoardIsTrue, Live
  <2>4. ~MarkFails(t)
    BY DEF MarkFails
  <2> QED BY <1>4, <2>1, <2>2, <2>3, <2>4 DEF MarkStep
<1>5. CASE Restart
  <2>1. /\ CleanUp
        /\ co' = [t \in Tasks |-> IF co[t] = "over" \/ row[t] = "none"
                                  THEN co[t] ELSE "dead"]
        /\ call' = [c \in Calls |-> NoCall]
        /\ UNCHANGED told
    BY <1>5 DEF Restart
  <2>2. \A t \in Tasks : row'[t] \notin NotEnded
    BY <2>1 DEF CleanUp, NotEnded
  <2>3. \A t \in Tasks : co'[t] = "over" <=> co[t] = "over"
    BY <2>1
  <2> QED BY <2>1, <2>2, <2>3, IdleCall DEF BoardIsTrue
<1>6. CASE PeerBoot
  <2>1. CleanUp /\ UNCHANGED <<co, told, call>>
    BY <1>6 DEF PeerBoot
  <2>2. \A t \in Tasks : row'[t] \notin NotEnded
    BY <2>1 DEF CleanUp, NotEnded
  <2> QED BY <2>1, <2>2 DEF BoardIsTrue
<1>7. CASE Cancel \/ \E t \in Tasks : ReadTarget(t)
  BY <1>7 DEF Cancel, ReadTarget, BoardIsTrue
<1>8. CASE UNCHANGED vars
  BY <1>8 DEF vars, BoardIsTrue
<1> QED BY <1>1, <1>2, <1>3, <1>4, <1>5, <1>6, <1>7, <1>8 DEF Next

LEMMA CalmSafe == ASSUME ~Interrupts, ~DbFails PROVE Spec => []CalmInv
<1>1. SubInv /\ QuietInv /\ CalmInv /\ [Next]_vars => CalmInv'
  BY CalmStep
<1> QED BY <1>1, CalmInit, QuietSafe, PTL DEF Spec

\* While nobody cancels and the database answers, every coroutine that is over
\* sent exactly one event to the room, whatever boots (_report).
THEOREM EndsAreTold ==
  ASSUME ~Interrupts, ~DbFails PROVE Spec => []EveryOutcomeIsTold
<1>1. CalmInv => EveryOutcomeIsTold
  BY DEF CalmInv, EveryOutcomeIsTold
<1> QED BY <1>1, CalmSafe, PTL

\* Under the same conditions nothing on the board waits for nobody: a task that
\* is queued or running has a dispatch or a coroutine that will end it, also
\* after a boot (cleanup_orphans).
THEOREM BoardStaysTrue ==
  ASSUME ~Interrupts, ~DbFails PROVE Spec => []BoardIsTrue
<1>1. CalmInv => BoardIsTrue
  BY DEF CalmInv
<1> QED BY <1>1, CalmSafe, PTL
===============================================================================
