--------------------------- MODULE EventRoomProofs ----------------------------
(***************************************************************************)
(* Theorems about EventRoom for every set of events, every assignment of   *)
(* roles and every queue limit.                                            *)
(***************************************************************************)
EXTENDS EventRoom, FiniteSetTheorems, WellFoundedInduction, TLAPS

RoomInv ==
    /\ TypeOK
    /\ OneTurnAtATime
    /\ InOnePlace
    /\ HumanNeverDropped
    /\ QueueOrder
    /\ QueueIsNeverStranded

-------------------------------------------------------------------------------
\* A finite set ordered by an irreflexive and transitive relation, given as
\* the set r[x] of what comes before x, has a first element.
LEMMA FirstExists ==
  ASSUME NEW S, IsFiniteSet(S), S # {}, NEW r,
         \A x \in S : x \notin r[x],
         \A x \in S : \A y \in r[x] \cap S : r[y] \cap S \subseteq r[x]
  PROVE  \E x \in S : r[x] \cap S = {}
<1> DEFINE T == {Cardinality(r[x] \cap S) : x \in S}
           R == OpToRel(<, Nat)
<1> HIDE DEF R
<1>1. \A x \in S : IsFiniteSet(r[x] \cap S) /\ Cardinality(r[x] \cap S) \in Nat
  BY FS_Subset, FS_CardinalityType
<1>2. T \subseteq Nat /\ T # {}
  <2>1. T \subseteq Nat
    BY <1>1
  <2>2. PICK x \in S : TRUE
    OBVIOUS
  <2>3. Cardinality(r[x] \cap S) \in T
    BY <2>2
  <2> QED BY <2>1, <2>3
<1>3. PICK n \in T : \A m \in T : ~(<<m, n>> \in R)
  <2> HIDE DEF T
  <2>1. IsWellFoundedOn(R, Nat)
    BY NatLessThanWellFounded DEF R
  <2> QED BY <1>2, <2>1, WFMin
<1>4. \A m \in T : ~(m < n)
  BY <1>2, <1>3 DEF R, OpToRel
<1>5. PICK x \in S : n = Cardinality(r[x] \cap S)
  BY DEF T
<1>6. ASSUME NEW y \in r[x] \cap S PROVE FALSE
  <2>1. r[y] \cap S \subseteq r[x] \cap S
    BY <1>6
  <2>2. Cardinality(r[y] \cap S) <= Cardinality(r[x] \cap S)
        /\ (Cardinality(r[y] \cap S) = Cardinality(r[x] \cap S)
              => r[y] \cap S = r[x] \cap S)
    BY <1>1, <2>1, FS_Subset
  <2>3. y \notin r[y] /\ y \in S
    BY <1>6
  <2>4. r[y] \cap S # r[x] \cap S
    BY <1>6, <2>3
  <2>5. Cardinality(r[y] \cap S) < Cardinality(r[x] \cap S)
    <3>1. Cardinality(r[y] \cap S) \in Nat /\ Cardinality(r[x] \cap S) \in Nat
      BY <1>1, <2>3
    <3> QED BY <2>2, <2>4, <3>1
  <2>6. Cardinality(r[y] \cap S) \in T
    BY <2>3
  <2> QED BY <1>4, <1>5, <2>5, <2>6
<1> QED BY <1>6

\* What is dropped by either rule is a report.
LEMMA DroppedAreReports ==
  ASSUME NEW q, NEW ord
  PROVE  /\ Overflow(q, ord) \subseteq q \cap Done
         /\ Superseded(q, ord) \subseteq q \cap Done
BY DEF Overflow, Superseded, SameRole

\* A non-empty queue has a first event.
LEMMA QueueHasFirst ==
  ASSUME TypeOK, QueueOrder, NEW q \in SUBSET queue, q # {}
  PROVE  First(q, ahead) # {}
<1>1. IsFiniteSet(q)
  BY RoomAssumption, FS_Subset DEF TypeOK
<1>2. \A x \in q : x \notin ahead[x]
  BY DEF QueueOrder
<1>3. \A x \in q : \A y \in ahead[x] \cap q : ahead[y] \cap q \subseteq ahead[x]
  BY DEF QueueOrder
<1>4. \E x \in q : ahead[x] \cap q = {}
  BY <1>1, <1>2, <1>3, FirstExists
<1> QED BY <1>4 DEF First

\* Removing events from the queue leaves a list.
LEMMA ReorderKeepsOrder ==
  ASSUME NEW q \in SUBSET Events, NEW p \in SUBSET q,
         NEW ord \in [Events -> SUBSET Events],
         \A e \in q : /\ ord[e] \subseteq q \ {e}
                      /\ \A f \in ord[e] : ord[f] \subseteq ord[e]
  PROVE  /\ Reorder(p, ord) \in [Events -> SUBSET Events]
         /\ \A e \in p :
              /\ Reorder(p, ord)[e] \subseteq p \ {e}
              /\ \A f \in Reorder(p, ord)[e] :
                    Reorder(p, ord)[f] \subseteq Reorder(p, ord)[e]
BY DEF Reorder

-------------------------------------------------------------------------------
LEMMA RoomInit == Init => RoomInv
<1>1. ASSUME Init PROVE TypeOK
  <2>1. busy \in BOOLEAN /\ queue \subseteq Events /\ merged \subseteq Events
        /\ evicted \subseteq Events
    BY <1>1 DEF Init
  <2>2. ahead \in [Events -> SUBSET Events] /\ earlier \in [Events -> SUBSET Events]
    BY <1>1 DEF Init
  <2>3. handler \in [Events -> {"none", "arriving", "turn"}] /\ turns \in [Events -> Nat]
    BY <1>1 DEF Init
  <2> QED BY <2>1, <2>2, <2>3 DEF TypeOK
<1>2. Init => OneTurnAtATime /\ InOnePlace
  BY DEF Init, OneTurnAtATime, InOnePlace
<1>3. Init => HumanNeverDropped /\ QueueOrder /\ QueueIsNeverStranded
  BY DEF Init, HumanNeverDropped, QueueOrder, QueueIsNeverStranded
<1> QED BY <1>1, <1>2, <1>3 DEF RoomInv

LEMMA ArriveKeeps ==
  ASSUME RoomInv, NEW e \in Events, Arrive(e)
  PROVE  RoomInv'
<1>1. TypeOK'
  BY DEF RoomInv, TypeOK, Arrive, Submitted
<1>2. OneTurnAtATime' /\ InOnePlace' /\ HumanNeverDropped'
  BY DEF RoomInv, TypeOK, Arrive, Submitted, OneTurnAtATime, InOnePlace, HumanNeverDropped
<1>3. QueueOrder' /\ QueueIsNeverStranded'
  BY DEF RoomInv, TypeOK, Arrive, QueueOrder, QueueIsNeverStranded
<1> QED BY <1>1, <1>2, <1>3 DEF RoomInv

\* An event that reaches try_acquire is nowhere else.
LEMMA ReachesAlone ==
  ASSUME RoomInv, NEW e \in Events, Reaches(e)
  PROVE  /\ turns[e] = 0 /\ e \notin queue
         /\ e \notin merged /\ e \notin evicted
         /\ handler[e] # "turn"
         /\ earlier' \in [Events -> SUBSET Events]
<1>1. turns[e] \in Nat /\ turns[e] <= 1
  BY DEF RoomInv, TypeOK, InOnePlace
<1>2. CASE handler[e] = "arriving" /\ UNCHANGED earlier
  BY <1>1, <1>2 DEF RoomInv, TypeOK, InOnePlace
<1>3. CASE e \in Done \ Submitted /\ earlier' = [earlier EXCEPT ![e] = Submitted]
  BY <1>1, <1>3 DEF RoomInv, TypeOK, Submitted
<1> QED BY <1>2, <1>3 DEF Reaches

LEMMA BeginKeeps ==
  ASSUME RoomInv, NEW e \in Events, Begin(e)
  PROVE  RoomInv'
<1>1. Reaches(e)
  BY DEF Begin
<1>2. TypeOK'
  BY <1>1, ReachesAlone DEF RoomInv, TypeOK, Begin
<1>3. OneTurnAtATime'
  BY DEF RoomInv, TypeOK, Begin, OneTurnAtATime
<1>4. InOnePlace'
  BY <1>1, ReachesAlone DEF RoomInv, TypeOK, Begin, InOnePlace
<1>5. HumanNeverDropped' /\ QueueOrder' /\ QueueIsNeverStranded'
  BY DEF RoomInv, Begin, HumanNeverDropped, QueueOrder, QueueIsNeverStranded
<1> QED BY <1>2, <1>3, <1>4, <1>5 DEF RoomInv

LEMMA EnqueueKeeps ==
  ASSUME RoomInv, NEW e \in Events, Enqueue(e)
  PROVE  RoomInv'
<1> DEFINE joined == queue \cup {e}
           order  == [ahead EXCEPT ![e] = queue]
           out    == Overflow(joined, order)
<1>1. Reaches(e) /\ busy /\ handler' = [handler EXCEPT ![e] = "none"]
      /\ busy' = busy /\ turns' = turns /\ merged' = merged
  BY DEF Enqueue
<1>2. /\ queue' = joined \ out
      /\ ahead' = Reorder(joined \ out, order)
      /\ evicted' = evicted \cup out
  BY DEF Enqueue
<1>3. out \subseteq joined \cap Done
  BY DroppedAreReports
<1>4. e \notin queue /\ handler[e] # "turn" /\ turns[e] = 0
      /\ e \notin merged /\ e \notin evicted
      /\ earlier' \in [Events -> SUBSET Events]
  BY <1>1, ReachesAlone
<1>5. /\ joined \in SUBSET Events /\ order \in [Events -> SUBSET Events]
      /\ \A f \in joined : /\ order[f] \subseteq joined \ {f}
                           /\ \A g \in order[f] : order[g] \subseteq order[f]
  BY <1>4 DEF RoomInv, TypeOK, QueueOrder
<1> HIDE DEF joined, order, out
<1>6. ahead' \in [Events -> SUBSET Events] /\ QueueOrder'
  <2> DEFINE p == joined \ out
  <2>1. p \in SUBSET joined /\ queue' = p /\ ahead' = Reorder(p, order)
    BY <1>2
  <2> HIDE DEF p
  <2> QED BY <1>5, <2>1, ReorderKeepsOrder DEF QueueOrder
<1>7. TypeOK'
  BY <1>1, <1>2, <1>3, <1>4, <1>5, <1>6 DEF RoomInv, TypeOK
<1>8. OneTurnAtATime'
  BY <1>1, <1>4 DEF RoomInv, TypeOK, OneTurnAtATime
<1>9. InOnePlace'
  BY <1>1, <1>2, <1>3, <1>4 DEF RoomInv, TypeOK, InOnePlace, joined
<1>10. HumanNeverDropped' /\ QueueIsNeverStranded'
  BY <1>1, <1>2, <1>3 DEF RoomInv, HumanNeverDropped, QueueIsNeverStranded, Done
<1> QED BY <1>6, <1>7, <1>8, <1>9, <1>10 DEF RoomInv

LEMMA ReleaseKeeps ==
  ASSUME RoomInv, NEW e \in Events, Release(e)
  PROVE  RoomInv'
<1> DEFINE out  == Superseded(queue, ahead)
           kept == queue \ out
           next == First(kept, ahead)
<1>1. /\ handler[e] = "turn" /\ busy' = FALSE
      /\ merged' = merged \cup out
      /\ queue' = kept \ next
      /\ ahead' = Reorder(kept \ next, ahead)
      /\ handler' = [f \in Events |-> IF f \in next THEN "arriving"
                                      ELSE IF f = e THEN "none" ELSE handler[f]]
      /\ UNCHANGED <<turns, earlier, evicted>>
  BY DEF Release
<1>2. out \subseteq queue \cap Done /\ next \subseteq kept
  BY DroppedAreReports DEF First
<1>3. turns[e] = 1 /\ e \notin queue
  BY <1>1 DEF RoomInv, InOnePlace
<1>4. kept # {} => next # {}
  BY QueueHasFirst DEF RoomInv
<1>5. kept \subseteq queue
  OBVIOUS
<1> HIDE DEF out, kept, next
<1>6. ahead' \in [Events -> SUBSET Events] /\ QueueOrder'
  <2> DEFINE p == kept \ next
  <2>1. p \in SUBSET queue /\ queue' = p /\ ahead' = Reorder(p, ahead)
    BY <1>1, <1>5
  <2> HIDE DEF p
  <2>2. /\ queue \in SUBSET Events /\ ahead \in [Events -> SUBSET Events]
        /\ \A f \in queue : /\ ahead[f] \subseteq queue \ {f}
                            /\ \A g \in ahead[f] : ahead[g] \subseteq ahead[f]
    BY DEF RoomInv, TypeOK, QueueOrder
  <2> QED BY <2>1, <2>2, ReorderKeepsOrder DEF QueueOrder
<1>7. TypeOK'
  BY <1>1, <1>2, <1>5, <1>6 DEF RoomInv, TypeOK
<1>8. OneTurnAtATime'
  BY <1>1 DEF RoomInv, TypeOK, OneTurnAtATime
<1>9. InOnePlace'
  BY <1>1, <1>2, <1>3, <1>5 DEF RoomInv, TypeOK, InOnePlace, kept
<1>10. HumanNeverDropped'
  BY <1>1, <1>2 DEF RoomInv, HumanNeverDropped, Done
<1>11. QueueIsNeverStranded'
  BY <1>1, <1>2, <1>4, <1>5 DEF RoomInv, TypeOK, QueueIsNeverStranded
<1> QED BY <1>6, <1>7, <1>8, <1>9, <1>10, <1>11 DEF RoomInv

LEMMA RoomStep == RoomInv /\ [Next]_vars => RoomInv'
<1> SUFFICES ASSUME RoomInv, [Next]_vars PROVE RoomInv'
  OBVIOUS
<1>1. ASSUME NEW e \in Events, Arrive(e) \/ Begin(e) \/ Enqueue(e) \/ Release(e)
      PROVE  RoomInv'
  BY <1>1, ArriveKeeps, BeginKeeps, EnqueueKeeps, ReleaseKeeps
<1>2. CASE UNCHANGED vars
  BY <1>2 DEF vars, RoomInv, TypeOK, OneTurnAtATime, InOnePlace,
     HumanNeverDropped, QueueOrder, QueueIsNeverStranded
<1> QED BY <1>1, <1>2 DEF Next

\* The whole inductive invariant of the room.
THEOREM RoomSafe == Spec => []RoomInv
<1> QED BY RoomInit, RoomStep, PTL DEF Spec

\* Every variable of the room keeps its type.
THEOREM TypesHold == Spec => []TypeOK
<1>1. RoomInv => TypeOK
  BY DEF RoomInv
<1> QED BY <1>1, RoomSafe, PTL

\* One turn per room: the main agent never runs twice at once (room.py).
THEOREM OneTurn == Spec => []OneTurnAtATime
<1>1. RoomInv => OneTurnAtATime
  BY DEF RoomInv
<1> QED BY <1>1, RoomSafe, PTL

\* No event is lost between handler and queue, and none is answered twice.
THEOREM AnsweredAtMostOnce == Spec => []InOnePlace
<1>1. RoomInv => InOnePlace
  BY DEF RoomInv
<1> QED BY <1>1, RoomSafe, PTL

\* No message or decision of a person is merged away or evicted.
THEOREM PeopleAreHeard == Spec => []HumanNeverDropped
<1>1. RoomInv => HumanNeverDropped
  BY DEF RoomInv
<1> QED BY <1>1, RoomSafe, PTL

\* A free room with a queue always has a handler on its way.
THEOREM NeverStranded == Spec => []QueueIsNeverStranded
<1>1. RoomInv => QueueIsNeverStranded
  BY DEF RoomInv
<1> QED BY <1>1, RoomSafe, PTL

-------------------------------------------------------------------------------
\* The length of a queue with the event e joined.
LEMMA JoinedLength ==
  ASSUME TypeOK, NEW e \in Events, e \notin queue
  PROVE  /\ IsFiniteSet(queue) /\ IsFiniteSet(queue \cup {e})
         /\ Cardinality(queue) \in Nat
         /\ Cardinality(queue \cup {e}) = Cardinality(queue) + 1
<1>1. IsFiniteSet(queue)
  BY RoomAssumption, FS_Subset DEF TypeOK
<1> QED BY <1>1, FS_AddElement, FS_CardinalityType

\* A queue one too long with a report in it loses one.
LEMMA OldestReportGoes ==
  ASSUME TypeOK, NEW q \in SUBSET Events, NEW ord \in [Events -> SUBSET Events],
         Cardinality(q) > MaxQueue, q \cap Done # {},
         \A x \in q : /\ ord[x] \subseteq q \ {x}
                      /\ \A y \in ord[x] : ord[y] \subseteq ord[x]
  PROVE  Overflow(q, ord) # {}
<1> DEFINE S == q \cap Done
<1>1. IsFiniteSet(q) /\ IsFiniteSet(S) /\ S # {}
  BY RoomAssumption, FS_Subset
<1>2. \A x \in S : x \notin ord[x]
  OBVIOUS
<1>3. \A x \in S : \A y \in ord[x] \cap S : ord[y] \cap S \subseteq ord[x]
  OBVIOUS
<1>4. PICK x \in S : ord[x] \cap S = {}
  <2> HIDE DEF S
  <2> QED BY <1>1, <1>2, <1>3, FirstExists
<1>5. ord[x] \cap Done = {}
  BY <1>4
<1>6. Cardinality(ord[x] \cap Done) = 0
  BY <1>5, FS_EmptySet
<1>7. Cardinality(q) \in Nat /\ MaxQueue \in Nat
  BY <1>1, FS_CardinalityType, RoomAssumption
<1>8. Cardinality(ord[x] \cap Done) + MaxQueue < Cardinality(q)
  BY <1>6, <1>7
<1> QED BY <1>4, <1>8 DEF Overflow

LEMMA BoundKept ==
  ASSUME RoomInv, QueueBounded, NEW e \in Events, Enqueue(e)
  PROVE  QueueBounded'
<1> DEFINE joined == queue \cup {e}
           order  == [ahead EXCEPT ![e] = queue]
           out    == Overflow(joined, order)
<1>1. queue' = joined \ out /\ e \notin queue
  BY ReachesAlone DEF Enqueue
<1>2. TypeOK /\ IsFiniteSet(joined) /\ Cardinality(queue) \in Nat
      /\ Cardinality(joined) = Cardinality(queue) + 1 /\ MaxQueue \in Nat
  BY <1>1, JoinedLength, RoomAssumption DEF RoomInv
<1>3. /\ joined \in SUBSET Events /\ order \in [Events -> SUBSET Events]
      /\ \A x \in joined : /\ order[x] \subseteq joined \ {x}
                           /\ \A y \in order[x] : order[y] \subseteq order[x]
  BY <1>1 DEF RoomInv, TypeOK, QueueOrder
<1>4. out \subseteq joined
  BY DEF Overflow
<1>5. IsFiniteSet(queue') /\ Cardinality(queue') \in Nat
      /\ Cardinality(queue') <= Cardinality(joined)
      /\ (Cardinality(queue') = Cardinality(joined) => out = {})
  <2>1. queue' \in SUBSET joined /\ (queue' = joined => out = {})
    BY <1>1, <1>4
  <2> QED BY <1>2, <2>1, FS_Subset, FS_CardinalityType
<1>6. CASE Cardinality(queue) <= MaxQueue
  <2>1. CASE joined \cap Done = {}
    BY <1>1, <1>3, <2>1 DEF QueueBounded, Done
  <2>2. CASE Cardinality(joined) > MaxQueue /\ joined \cap Done # {}
    <3>1. out # {}
      <4> HIDE DEF joined, order
      <4> QED BY <1>2, <1>3, <2>2, OldestReportGoes
    <3>2. Cardinality(queue') <= MaxQueue
      <4> HIDE DEF joined, out
      <4> QED BY <1>2, <1>5, <1>6, <3>1
    <3> QED BY <1>2, <1>5, <3>2 DEF QueueBounded
  <2>3. CASE Cardinality(joined) <= MaxQueue
    <3> HIDE DEF joined, out
    <3> QED BY <1>2, <1>5, <2>3 DEF QueueBounded
  <2> HIDE DEF joined
  <2> QED BY <1>2, <2>1, <2>2, <2>3
<1>7. CASE Cardinality(queue) > MaxQueue
  <2>1. queue \cap Done = {}
    BY <1>7 DEF QueueBounded, Done
  <2>2. e \in Done => e \in out
    <3>1. order[e] \cap Done = {}
      BY <2>1, <1>2 DEF TypeOK
    <3>2. Cardinality(order[e] \cap Done) = 0
      BY <3>1, FS_EmptySet
    <3>3. Cardinality(order[e] \cap Done) + MaxQueue < Cardinality(joined)
      <4> HIDE DEF joined, order
      <4> QED BY <1>2, <1>7, <3>2
    <3> QED BY <3>3 DEF Overflow
  <2>3. queue' \cap Done = {}
    BY <1>1, <2>1, <2>2
  <2>4. queue' \subseteq Events
    BY <1>1, <1>3
  <2> QED BY <2>3, <2>4 DEF QueueBounded, Done
<1> QED BY <1>2, <1>6, <1>7

\* What a person waits behind is bounded by the limit, unless people alone
\* have filled the queue (the loop of try_acquire).
THEOREM LimitHolds == Spec => []QueueBounded
<1>1. Init => QueueBounded
  BY DEF Init, QueueBounded
<1>2. ASSUME RoomInv, QueueBounded, [Next]_vars PROVE QueueBounded'
  <2>1. ASSUME NEW e \in Events, Arrive(e) \/ Begin(e) PROVE QueueBounded'
    BY <1>2, <2>1 DEF Arrive, Begin, QueueBounded
  <2>2. ASSUME NEW e \in Events, Enqueue(e) PROVE QueueBounded'
    BY <1>2, <2>2, BoundKept
  <2>3. ASSUME NEW e \in Events, Release(e) PROVE QueueBounded'
    <3>1. queue' \in SUBSET queue
      BY <2>3 DEF Release
    <3>2. IsFiniteSet(queue)
      BY <1>2, RoomAssumption, FS_Subset DEF RoomInv, TypeOK
    <3>3. /\ Cardinality(queue') <= Cardinality(queue)
          /\ Cardinality(queue') \in Nat /\ Cardinality(queue) \in Nat
          /\ MaxQueue \in Nat
      BY <3>1, <3>2, FS_Subset, FS_CardinalityType, RoomAssumption
    <3> QED BY <1>2, <3>1, <3>3 DEF QueueBounded
  <2>4. CASE UNCHANGED vars
    BY <1>2, <2>4 DEF vars, QueueBounded
  <2> QED BY <1>2, <2>1, <2>2, <2>3, <2>4 DEF Next
<1>3. QueueBounded /\ RoomInv /\ [Next]_vars => QueueBounded'
  BY <1>2
<1> QED BY <1>1, <1>3, RoomSafe, PTL DEF Spec
-------------------------------------------------------------------------------
\* Of the reports of one role in a queue, the last is not superseded.
LEMMA LastReportStays ==
  ASSUME TypeOK, QueueOrder, NEW e \in queue \cap Done
  PROVE  \E f \in queue \cap Done :
            SameRole(e, f) /\ f \notin Superseded(queue, ahead)
<1> DEFINE S == {f \in queue : SameRole(e, f)}
           behind == [f \in Events |-> {g \in S : f \in ahead[g]}]
<1>1. IsFiniteSet(S) /\ S # {} /\ S \subseteq queue \cap Done /\ S \subseteq Events
  <2>1. S \subseteq Events
    BY DEF TypeOK
  <2>2. e \in S
    BY DEF SameRole
  <2> QED BY <2>1, <2>2, RoomAssumption, FS_Subset DEF SameRole
<1>2. \A x \in S : x \notin behind[x]
  BY <1>1 DEF QueueOrder
<1>3. \A x \in S : \A y \in behind[x] \cap S : behind[y] \cap S \subseteq behind[x]
  BY <1>1 DEF QueueOrder
<1> HIDE DEF behind
<1>4. PICK f \in S : behind[f] \cap S = {}
  <2> HIDE DEF S
  <2> QED BY <1>1, <1>2, <1>3, FirstExists
<1>5. ASSUME NEW g \in queue, f \in ahead[g], SameRole(f, g) PROVE FALSE
  <2>1. g \in S
    BY <1>5 DEF SameRole
  <2> QED BY <1>1, <1>4, <1>5, <2>1 DEF behind
<1> QED BY <1>1, <1>4, <1>5 DEF Superseded

\* Whatever report release merges away, one of the same role stays.
THEOREM RoleIsKept == Spec => MergeKeepsTheRole
<1> DEFINE A == \A e \in merged' \ merged : \E f \in Done :
                  SameRole(e, f) /\ (f \in queue' \/ handler'[f] = "arriving")
<1>1. ASSUME RoomInv, [Next]_vars PROVE A
  <2>1. CASE merged' = merged
    BY <2>1
  <2>2. ASSUME NEW d \in Events, Release(d) PROVE A
    <3> DEFINE out  == Superseded(queue, ahead)
               kept == queue \ out
               next == First(kept, ahead)
    <3>1. /\ merged' = merged \cup out
          /\ queue' = kept \ next
          /\ handler' = [f \in Events |-> IF f \in next THEN "arriving"
                                          ELSE IF f = d THEN "none" ELSE handler[f]]
      BY <2>2 DEF Release
    <3>2. out \subseteq queue \cap Done
      BY DroppedAreReports
    <3>3. ASSUME NEW e \in merged' \ merged
          PROVE  \E f \in Done :
                   SameRole(e, f) /\ (f \in queue' \/ handler'[f] = "arriving")
      <4>1. e \in queue \cap Done
        BY <3>1, <3>2
      <4>2. PICK f \in queue \cap Done : SameRole(e, f) /\ f \notin out
        BY <1>1, <4>1, LastReportStays DEF RoomInv
      <4>3. f \in kept /\ f \in Events
        BY <4>2 DEF Done
      <4> HIDE DEF out, kept, next
      <4> QED BY <3>1, <4>2, <4>3
    <3> QED BY <3>3
  <2>3. CASE UNCHANGED vars
    BY <2>1, <2>3 DEF vars
  <2>4. ASSUME NEW d \in Events, Arrive(d) \/ Begin(d) \/ Enqueue(d) PROVE merged' = merged
    BY <2>4 DEF Arrive, Begin, Enqueue
  <2> HIDE DEF A
  <2> QED BY <1>1, <2>1, <2>2, <2>3, <2>4 DEF Next
<1>2. RoomInv /\ [Next]_vars => [A]_vars
  BY <1>1
<1> QED BY <1>2, RoomSafe, PTL DEF Spec, MergeKeepsTheRole

-------------------------------------------------------------------------------
(* The refinement: every step of the room is a step of TurnTaking *)

\* What a step on the room's state means for the stage of each event.
LEMMA StageFacts ==
  ASSUME RoomInv, NEW e \in Events
  PROVE  /\ handler[e] = "turn" <=> StageOf(e) = "turn"
         /\ handler[e] = "arriving" \/ e \in queue => StageOf(e) = "waiting"
         /\ e \notin Submitted => StageOf(e) = "new"
<1>1. turns[e] \in Nat /\ handler[e] \in {"none", "arriving", "turn"}
  BY DEF RoomInv, TypeOK
<1>2. CASE handler[e] = "turn"
  BY <1>2 DEF StageOf, Submitted, RoomInv, InOnePlace
<1>3. CASE handler[e] # "turn" /\ turns[e] > 0
  BY <1>1, <1>3 DEF StageOf, Submitted, RoomInv, InOnePlace
<1>4. CASE handler[e] # "turn" /\ turns[e] = 0 /\ e \in merged \cup evicted
  BY <1>1, <1>4 DEF StageOf, Submitted, RoomInv, InOnePlace
<1>5. CASE handler[e] # "turn" /\ turns[e] = 0 /\ e \notin merged \cup evicted
           /\ (handler[e] = "arriving" \/ e \in queue)
  BY <1>1, <1>5 DEF StageOf, Submitted, RoomInv, InOnePlace
<1>6. CASE handler[e] = "none" /\ turns[e] = 0 /\ e \notin merged \cup evicted
           /\ e \notin queue
  BY <1>1, <1>6 DEF StageOf, Submitted
<1> QED BY <1>1, <1>2, <1>3, <1>4, <1>5, <1>6

\* Nobody touched event f: its stage is what it was.
LEMMA StageKept ==
  ASSUME NEW f \in Events, handler'[f] = handler[f], turns'[f] = turns[f],
         f \in queue' <=> f \in queue,
         f \in merged' \cup evicted' <=> f \in merged \cup evicted
  PROVE  StageOf(f)' = StageOf(f)
BY DEF StageOf

LEMMA ArriveRefines ==
  ASSUME RoomInv, NEW e \in Events, Arrive(e)
  PROVE  Promise!Submit(e, {})
<1>1. StageOf(e) = "new"
  BY StageFacts DEF Arrive
<1>2. StageOf(e)' = "waiting"
  <2>1. RoomInv'
    BY ArriveKeeps
  <2>2. handler'[e] = "arriving"
    BY DEF Arrive, RoomInv, TypeOK
  <2>3. turns[e] = 0 /\ e \notin merged \cup evicted
    BY DEF Arrive, Submitted, RoomInv, TypeOK, InOnePlace
  <2> QED BY <2>2, <2>3 DEF StageOf, Arrive
<1>3. ASSUME NEW f \in Events, f # e PROVE StageOf(f)' = StageOf(f)
  BY <1>3, StageKept DEF Arrive, RoomInv, TypeOK
<1> QED BY <1>1, <1>2, <1>3 DEF Promise!Submit, Promise!Without

LEMMA BeginRefines ==
  ASSUME RoomInv, NEW e \in Events, Begin(e)
  PROVE  Promise!Begin(e)
<1>1. StageOf(e) \in {"new", "waiting"}
  BY StageFacts DEF Begin, Reaches
<1>2. \A f \in Events : StageOf(f) # "turn"
  BY StageFacts DEF Begin, RoomInv, OneTurnAtATime
<1>3. handler' = [handler EXCEPT ![e] = "turn"] /\ turns' = [turns EXCEPT ![e] = @ + 1]
      /\ UNCHANGED <<queue, ahead, merged, evicted>>
  BY DEF Begin
<1>4. StageOf(e)' = "turn"
  BY <1>3 DEF StageOf, RoomInv, TypeOK
<1>5. ASSUME NEW f \in Events, f # e PROVE StageOf(f)' = StageOf(f)
  BY <1>3, <1>5, StageKept DEF RoomInv, TypeOK
<1> QED BY <1>1, <1>2, <1>4, <1>5 DEF Promise!Begin

LEMMA EnqueueRefines ==
  ASSUME RoomInv, NEW e \in Events, Enqueue(e)
  PROVE  \E D \in SUBSET ((Promise!Waiting \cup {e}) \cap Done) :
            Promise!Submit(e, D) \/ (D \subseteq Promise!Waiting /\ Promise!Discard(D))
<1> DEFINE joined == queue \cup {e}
           order  == [ahead EXCEPT ![e] = queue]
           out    == Overflow(joined, order)
<1>1. /\ Reaches(e)
      /\ handler' = [handler EXCEPT ![e] = "none"]
      /\ queue' = joined \ out
      /\ evicted' = evicted \cup out
      /\ turns' = turns /\ merged' = merged
  BY DEF Enqueue
<1>2. out \subseteq joined \cap Done
  BY DroppedAreReports
<1>3. e \notin queue /\ handler[e] # "turn" /\ turns[e] = 0
      /\ e \notin merged /\ e \notin evicted
  BY <1>1, ReachesAlone
<1> HIDE DEF order, out
<1>4. StageOf(e)' = IF e \in out THEN "dropped" ELSE "waiting"
  BY <1>1, <1>3 DEF StageOf, RoomInv, TypeOK
<1>5. \A f \in queue : StageOf(f) = "waiting" /\ f \in Events
  BY StageFacts DEF RoomInv, TypeOK
<1>6. ASSUME NEW f \in Events, f # e
      PROVE  StageOf(f)' = IF f \in out THEN "dropped" ELSE StageOf(f)
  <2>1. CASE f \notin out
    BY <1>1, <1>6, <2>1, StageKept DEF RoomInv, TypeOK
  <2>2. CASE f \in out
    <3>1. f \in queue
      BY <1>2, <1>6, <2>2
    <3>2. turns'[f] = 0 /\ handler'[f] = "none"
      BY <1>1, <1>6, <3>1 DEF RoomInv, TypeOK, InOnePlace
    <3> QED BY <1>1, <2>2, <3>2 DEF StageOf
  <2> QED BY <2>1, <2>2
<1>7. out \in SUBSET ((Promise!Waiting \cup {e}) \cap Done)
  BY <1>2, <1>5 DEF Promise!Waiting
<1>8. CASE handler[e] = "arriving"
  <2>1. StageOf(e) = "waiting"
    BY <1>8, StageFacts
  <2>2. out \subseteq Promise!Waiting
    BY <1>7, <2>1 DEF Promise!Waiting
  <2>3. Promise!Discard(out)
    BY <1>4, <1>6, <2>1 DEF Promise!Discard, Promise!Without
  <2> QED BY <1>7, <2>2, <2>3
<1>9. CASE e \in Done \ Submitted
  <2>1. StageOf(e) = "new"
    BY <1>9, StageFacts
  <2>2. Promise!Submit(e, out)
    BY <1>4, <1>6, <2>1 DEF Promise!Submit, Promise!Without
  <2> QED BY <1>7, <2>2
<1> QED BY <1>1, <1>8, <1>9 DEF Reaches

LEMMA ReleaseRefines ==
  ASSUME RoomInv, NEW e \in Events, Release(e)
  PROVE  \E D \in SUBSET (Promise!Waiting \cap Done) : Promise!Finish(e, D)
<1> DEFINE out  == Superseded(queue, ahead)
           kept == queue \ out
           next == First(kept, ahead)
<1>1. /\ handler[e] = "turn"
      /\ merged' = merged \cup out
      /\ queue' = kept \ next
      /\ handler' = [f \in Events |-> IF f \in next THEN "arriving"
                                      ELSE IF f = e THEN "none" ELSE handler[f]]
      /\ UNCHANGED <<turns, earlier, evicted>>
  BY DEF Release
<1>2. out \subseteq queue \cap Done /\ next \subseteq queue \ out
  BY DroppedAreReports DEF First
<1>3. turns[e] = 1 /\ e \notin queue
  BY <1>1 DEF RoomInv, InOnePlace
<1>4. \A f \in queue : /\ StageOf(f) = "waiting" /\ f \in Events
                       /\ turns[f] = 0 /\ handler[f] = "none"
                       /\ f \notin merged \cup evicted
  BY StageFacts DEF RoomInv, TypeOK, InOnePlace
<1> HIDE DEF out, next
<1>5. StageOf(e)' = "served" /\ e \notin out
  BY <1>1, <1>2, <1>3 DEF StageOf
<1>6. ASSUME NEW f \in Events, f # e
      PROVE  StageOf(f)' = IF f \in out THEN "dropped" ELSE StageOf(f)
  <2>1. CASE f \in out
    BY <1>1, <1>2, <1>4, <1>6, <2>1 DEF StageOf
  <2>2. CASE f \in next
    BY <1>1, <1>2, <1>4, <1>6, <2>2 DEF StageOf
  <2>3. CASE f \notin out /\ f \notin next
    BY <1>1, <1>2, <1>6, <2>3, StageKept
  <2> QED BY <2>1, <2>2, <2>3
<1>7. out \in SUBSET (Promise!Waiting \cap Done)
  BY <1>2, <1>4 DEF Promise!Waiting
<1>8. Promise!Finish(e, out)
  <2>1. StageOf(e) = "turn"
    BY <1>1, StageFacts
  <2> QED BY <1>5, <1>6, <2>1 DEF Promise!Finish, Promise!Without
<1> QED BY <1>7, <1>8

\* The room, with its queue, its merging and its limit, keeps the promise of
\* TurnTaking: one turn at a time, one turn per event, and only reports are
\* ever discarded.
THEOREM RoomKeepsPromise == Spec => KeepsPromise
<1>1. Init => Promise!TTInit
  BY DEF Init, Promise!TTInit, StageOf
<1>2. ASSUME RoomInv, [Next]_vars
      PROVE  [Promise!TTNext]_([e \in Events |-> StageOf(e)])
  <2>1. ASSUME NEW e \in Events, Arrive(e) PROVE Promise!TTNext
    BY <1>2, <2>1, ArriveRefines DEF Promise!TTNext
  <2>2. ASSUME NEW e \in Events, Begin(e) PROVE Promise!TTNext
    BY <1>2, <2>2, BeginRefines DEF Promise!TTNext
  <2>3. ASSUME NEW e \in Events, Enqueue(e) PROVE Promise!TTNext
    <3>1. PICK D \in SUBSET ((Promise!Waiting \cup {e}) \cap Done) :
             Promise!Submit(e, D) \/ (D \subseteq Promise!Waiting /\ Promise!Discard(D))
      BY <1>2, <2>3, EnqueueRefines
    <3> QED BY <3>1 DEF Promise!TTNext
  <2>4. ASSUME NEW e \in Events, Release(e) PROVE Promise!TTNext
    BY <1>2, <2>4, ReleaseRefines DEF Promise!TTNext
  <2>5. CASE UNCHANGED vars
    BY <2>5 DEF vars, StageOf
  <2> QED BY <1>2, <2>1, <2>2, <2>3, <2>4, <2>5 DEF Next
<1> QED BY <1>1, <1>2, RoomSafe, PTL DEF Spec, KeepsPromise, Promise!TTSpec
===============================================================================
