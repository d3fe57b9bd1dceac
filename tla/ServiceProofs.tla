---------------------------- MODULE ServiceProofs ----------------------------
(***************************************************************************)
(* Proofs about the services of MCServices: the shadow ledger, whose       *)
(* browsers page and add up while decisions are committed, and the pure    *)
(* calculations, for every input and not only for those of the runs.       *)
(***************************************************************************)
EXTENDS MCServices, SequenceTheorems, FiniteSetTheorems, WellFoundedInduction, TLAPS

-------------------------------------------------------------------------------
(* Sums over finite sets                                                     *)

\* A finite set of sets of a finite set has a smallest member that is in S.
LEMMA SmallestOf ==
  ASSUME NEW G, IsFiniteSet(G), NEW S \in SUBSET SUBSET G, S # {}
  PROVE  \E s \in S : \A t \in S : ~(Cardinality(t) < Cardinality(s))
<1> DEFINE T == {Cardinality(s) : s \in S}
           R == OpToRel(<, Nat)
<1> HIDE DEF R
<1>1. \A s \in S : Cardinality(s) \in Nat
  BY FS_Subset, FS_CardinalityType
<1>2. T \subseteq Nat /\ T # {}
  BY <1>1
<1>3. PICK n \in T : \A m \in T : ~(<<m, n>> \in R)
  <2> HIDE DEF T
  <2>1. IsWellFoundedOn(R, Nat)
    BY NatLessThanWellFounded DEF R
  <2> QED BY <1>2, <2>1, WFMin
<1>4. \A m \in T : ~(m < n)
  BY <1>2, <1>3 DEF R, OpToRel
<1>5. PICK s \in S : n = Cardinality(s)
  BY DEF T
<1> QED BY <1>4, <1>5

\* I takes a set apart element by element in some way, F in every way.
InSomeWay(I, c, G)  == I[{}] = 0 /\ \A s \in SUBSET G : s # {} => \E x \in s : I[s] = c[x] + I[s \ {x}]
InEveryWay(F, c, G) == F[{}] = 0 /\ \A s \in SUBSET G : \A x \in s : F[s] = c[x] + F[s \ {x}]

\* Two ways to take a set apart come to the same sum.
LEMMA OneSum ==
  ASSUME NEW G, IsFiniteSet(G), NEW c, NEW I, NEW F, InSomeWay(I, c, G), InEveryWay(F, c, G)
  PROVE  I[G] = F[G]
<1> SUFFICES ASSUME I[G] # F[G] PROVE FALSE
  OBVIOUS
<1> DEFINE S == {s \in SUBSET G : I[s] # F[s]}
<1>1. G \in S
  OBVIOUS
<1>2. PICK s \in S : \A t \in S : ~(Cardinality(t) < Cardinality(s))
  <2> HIDE DEF S
  <2>1. S \subseteq SUBSET G
    BY DEF S
  <2> QED BY <1>1, <2>1, SmallestOf
<1>3. s \in SUBSET G /\ s # {} /\ I[s] # F[s]
  BY <1>2 DEF InSomeWay, InEveryWay
<1>4. PICK x \in s : I[s] = c[x] + I[s \ {x}]
  BY <1>3 DEF InSomeWay
<1>5. F[s] = c[x] + F[s \ {x}] /\ s \ {x} \in SUBSET G
  BY <1>3, <1>4 DEF InEveryWay
<1>6. Cardinality(s \ {x}) < Cardinality(s)
  <2>1. IsFiniteSet(s) /\ Cardinality(s) \in Nat
    BY <1>3, FS_Subset, FS_CardinalityType
  <2>2. Cardinality(s \ {x}) = Cardinality(s) - 1
    BY <1>4, <2>1, FS_RemoveElement
  <2> QED BY <2>1, <2>2
<1>7. I[s \ {x}] = F[s \ {x}]
  BY <1>2, <1>5, <1>6
<1> QED BY <1>3, <1>4, <1>5, <1>7

LEMMA ImageIsFinite ==
  ASSUME NEW S, IsFiniteSet(S), NEW f, DOMAIN f = S, f = [x \in S |-> f[x]]
  PROVE  IsFiniteSet({f[x] : x \in S})
<1> DEFINE T == {f[x] : x \in S}
<1>1. f \in Surjection(S, T)
  BY DEF Surjection
<1> HIDE DEF T
<1>2. IsFiniteSet(T)
  BY <1>1, FS_Surjection
<1> QED BY <1>2 DEF T

-------------------------------------------------------------------------------
(* ShadowLedger: the summary                                                 *)

FieldNames == {"total", "comparable", "matched"}

\* The rows that a figure counts.
InFigure(field, r) ==
    \/ field = "total"
    \/ field = "comparable" /\ Comparable(r.recommendation)
    \/ field = "matched" /\ Comparable(r.recommendation) /\ Match(r.recommendation, r.decision)
RowsOf(field, recs) == {r \in recs : InFigure(field, r)}

LEMMA CountsAre ==
  ASSUME NEW recs, NEW field \in FieldNames
  PROVE  Counts(recs)[field] = Cardinality(RowsOf(field, recs))
<1>1. CASE field = "total"
  <2>1. RowsOf(field, recs) = recs
    BY <1>1 DEF RowsOf, InFigure
  <2> QED BY <1>1, <2>1 DEF Counts
<1>2. CASE field = "comparable"
  <2>1. RowsOf(field, recs) = {r \in recs : Comparable(r.recommendation)}
    BY <1>2 DEF RowsOf, InFigure
  <2> QED BY <1>2, <2>1 DEF Counts
<1>3. CASE field = "matched"
  <2>1. RowsOf(field, recs) = {r \in recs : Comparable(r.recommendation)
                                             /\ Match(r.recommendation, r.decision)}
    BY <1>3 DEF RowsOf, InFigure
  <2> QED BY <1>3, <2>1 DEF Counts
<1> QED BY <1>1, <1>2, <1>3 DEF FieldNames

\* More rows, no smaller figure.
LEMMA CountsGrow ==
  ASSUME NEW more, IsFiniteSet(more), NEW recs \in SUBSET more, NEW field \in FieldNames
  PROVE  /\ Counts(recs)[field] \in Nat /\ Counts(more)[field] \in Nat
         /\ Counts(recs)[field] <= Counts(more)[field]
<1>1. RowsOf(field, recs) \subseteq RowsOf(field, more) /\ RowsOf(field, more) \subseteq more
  BY DEF RowsOf
<1>2. IsFiniteSet(RowsOf(field, more))
  BY <1>1, FS_Subset
<1>3. /\ IsFiniteSet(RowsOf(field, recs))
      /\ Cardinality(RowsOf(field, recs)) <= Cardinality(RowsOf(field, more))
  BY <1>1, <1>2, FS_Subset
<1>4. Cardinality(RowsOf(field, recs)) \in Nat /\ Cardinality(RowsOf(field, more)) \in Nat
  BY <1>2, <1>3, FS_CardinalityType
<1> QED BY <1>3, <1>4, CountsAre

\* The sum over groups is what any way of taking them apart comes to.
LEMMA SumIs ==
  ASSUME NEW G, IsFiniteSet(G), NEW field, NEW F, F = [s \in SUBSET G |-> F[s]],
         InEveryWay(F, [x \in G |-> x.counts[field]], G)
  PROVE  SumOf(field, G) = F[G]
<1> DEFINE Step(iter) == [s \in SUBSET G |-> IF s = {} THEN 0
                             ELSE (CHOOSE x \in s : TRUE).counts[field] + iter[s \ {CHOOSE x \in s : TRUE}]]
           I == CHOOSE iter : iter = Step(iter)
           c == [x \in G |-> x.counts[field]]
<1>0. /\ F[{}] = 0
      /\ \A s \in SUBSET G : \A x \in s : F[s] = x.counts[field] + F[s \ {x}]
  BY DEF InEveryWay
<1>1. SumOf(field, G) = I[G]
  BY Zenon DEF SumOf, MapThenSumSet, MapThenFoldSet
<1>2. \A s \in SUBSET G : s # {} => (CHOOSE x \in s : TRUE) \in s
  OBVIOUS
<1>3. F = Step(F)
  <2>1. \A s \in SUBSET G :
           F[s] = IF s = {} THEN 0
                  ELSE (CHOOSE x \in s : TRUE).counts[field] + F[s \ {CHOOSE x \in s : TRUE}]
    BY <1>0, <1>2
  <2>2. Step(F) = [s \in SUBSET G |-> F[s]]
    BY <2>1
  <2> QED BY <2>2
<1>4. I = Step(I)
  <2> HIDE DEF Step
  <2> QED BY <1>3
<1> HIDE DEF I
<1>5. /\ I[{}] = 0
      /\ \A s \in SUBSET G : s # {} =>
            I[s] = (CHOOSE x \in s : TRUE).counts[field] + I[s \ {CHOOSE x \in s : TRUE}]
  <2>1. \A s \in SUBSET G :
           I[s] = IF s = {} THEN 0
                  ELSE (CHOOSE x \in s : TRUE).counts[field] + I[s \ {CHOOSE x \in s : TRUE}]
    BY <1>4
  <2> QED BY <2>1
<1>6. InSomeWay(I, c, G)
  BY <1>2, <1>5 DEF InSomeWay
<1>7. InEveryWay(F, c, G)
  OBVIOUS
<1> HIDE DEF c, Step
<1>8. I[G] = F[G]
  BY <1>6, <1>7, OneSum
<1> QED BY <1>1, <1>8

\* Groups that share no row and leave none out add up to the whole.
LEMMA GroupsAddUp ==
  ASSUME NEW recs, IsFiniteSet(recs), NEW field \in FieldNames, NEW G, IsFiniteSet(G),
         NEW part \in [G -> SUBSET recs],
         \A g \in G : g.counts[field] = Cardinality(RowsOf(field, part[g])),
         \A g, h \in G : g # h => part[g] \cap part[h] = {},
         \A r \in recs : \E g \in G : r \in part[g]
  PROVE  SumOf(field, G) = Counts(recs)[field]
<1> DEFINE InGroups(s) == {r \in recs : InFigure(field, r) /\ \E g \in s : r \in part[g]}
           F == [s \in SUBSET G |-> Cardinality(InGroups(s))]
<1>1. F[{}] = 0
  <2>1. InGroups({}) = {}
    OBVIOUS
  <2>2. F[{}] = Cardinality(InGroups({}))
    OBVIOUS
  <2> HIDE DEF InGroups, F
  <2> QED BY <2>1, <2>2, FS_EmptySet
<1>2. ASSUME NEW s \in SUBSET G, NEW x \in s
      PROVE  F[s] = x.counts[field] + F[s \ {x}]
  <2> DEFINE A == RowsOf(field, part[x])
             B == InGroups(s \ {x})
  <2>1. InGroups(s) = A \cup B
    BY <1>2 DEF RowsOf
  <2>2. A \cap B = {}
    BY <1>2 DEF RowsOf
  <2>3. A \subseteq recs /\ B \subseteq recs
    BY <1>2 DEF RowsOf
  <2>4. F[s] = Cardinality(InGroups(s)) /\ F[s \ {x}] = Cardinality(B) /\ x.counts[field] = Cardinality(A)
    OBVIOUS
  <2> HIDE DEF A, B, F, InGroups
  <2>5. IsFiniteSet(A) /\ IsFiniteSet(B)
    BY <2>3, FS_Subset
  <2>6. Cardinality(A) \in Nat /\ Cardinality(B) \in Nat
    BY <2>5, FS_CardinalityType
  <2>7. Cardinality(A \cup B) = Cardinality(A) + Cardinality(B) - Cardinality({})
    BY <2>2, <2>5, FS_Union
  <2>8. Cardinality({}) = 0
    BY FS_EmptySet
  <2> QED BY <2>1, <2>4, <2>6, <2>7, <2>8
<1>3. F[G] = Cardinality(RowsOf(field, recs))
  <2>1. InGroups(G) = RowsOf(field, recs)
    BY DEF RowsOf
  <2>2. F[G] = Cardinality(InGroups(G))
    OBVIOUS
  <2> HIDE DEF F, InGroups
  <2> QED BY <2>1, <2>2
<1>4. F = [s \in SUBSET G |-> F[s]]
  OBVIOUS
<1> HIDE DEF F
<1>5. InEveryWay(F, [x \in G |-> x.counts[field]], G)
  BY <1>1, <1>2 DEF InEveryWay
<1>6. SumOf(field, G) = F[G]
  BY ONLY <1>4, <1>5, IsFiniteSet(G), SumIs
<1>7. Counts(recs)[field] = Cardinality(RowsOf(field, recs))
  BY CountsAre
<1> QED BY <1>3, <1>6, <1>7

LEMMA LanesAddUp ==
  ASSUME NEW recs, IsFiniteSet(recs), NEW field \in FieldNames
  PROVE  SumOf(field, {[lane |-> r.lane, counts |-> Counts({s \in recs : s.lane = r.lane})] : r \in recs})
            = Counts(recs)[field]
<1> DEFINE f == [r \in recs |-> [lane |-> r.lane, counts |-> Counts({s \in recs : s.lane = r.lane})]]
           G == {[lane |-> r.lane, counts |-> Counts({s \in recs : s.lane = r.lane})] : r \in recs}
           part == [g \in G |-> {s \in recs : s.lane = g.lane}]
<1>1. IsFiniteSet(G)
  <2>1. IsFiniteSet({f[r] : r \in recs})
    <3>1. DOMAIN f = recs /\ f = [x \in recs |-> f[x]]
      OBVIOUS
    <3> HIDE DEF f
    <3> QED BY <3>1, ImageIsFinite
  <2>2. {f[r] : r \in recs} = G
    OBVIOUS
  <2> QED BY <2>1, <2>2
<1>2. ASSUME NEW g \in G PROVE g.counts[field] = Cardinality(RowsOf(field, part[g]))
  <2>1. PICK r \in recs : g = [lane |-> r.lane, counts |-> Counts({s \in recs : s.lane = r.lane})]
    OBVIOUS
  <2>2. g.lane = r.lane /\ g.counts = Counts({s \in recs : s.lane = r.lane})
    BY <2>1
  <2>3. part[g] = {s \in recs : s.lane = r.lane}
    BY <2>2
  <2>4. g.counts = Counts(part[g])
    BY <2>2, <2>3
  <2> HIDE DEF part, G
  <2> QED BY <2>4, CountsAre
<1>3. ASSUME NEW g \in G, NEW h \in G, g # h PROVE part[g] \cap part[h] = {}
  <2>1. PICK r \in recs : g = [lane |-> r.lane, counts |-> Counts({s \in recs : s.lane = r.lane})]
    OBVIOUS
  <2>2. PICK q \in recs : h = [lane |-> q.lane, counts |-> Counts({s \in recs : s.lane = q.lane})]
    OBVIOUS
  <2>3. r.lane = q.lane => g = h
    BY <2>1, <2>2
  <2>4. g.lane = r.lane /\ h.lane = q.lane
    BY <2>1, <2>2
  <2>5. part[g] = {s \in recs : s.lane = g.lane} /\ part[h] = {s \in recs : s.lane = h.lane}
    OBVIOUS
  <2> QED BY <1>3, <2>3, <2>4, <2>5
<1>4. \A r \in recs : \E g \in G : r \in part[g]
  <2>1. ASSUME NEW r \in recs PROVE \E g \in G : r \in part[g]
    <3>1. f[r] \in G /\ f[r].lane = r.lane
      OBVIOUS
    <3>2. r \in part[f[r]]
      BY <3>1
    <3> QED BY <3>1, <3>2
  <2> QED BY <2>1
<1>5. part \in [G -> SUBSET recs]
  OBVIOUS
<1> HIDE DEF G, part
<1>6. SumOf(field, G) = Counts(recs)[field]
  BY <1>1, <1>2, <1>3, <1>4, <1>5, GroupsAddUp
<1> QED BY <1>6 DEF G

LEMMA DaysAddUp ==
  ASSUME NEW recs, IsFiniteSet(recs), NEW field \in FieldNames
  PROVE  SumOf(field, {[day |-> r.at, counts |-> Counts({s \in recs : s.at = r.at})] : r \in recs})
            = Counts(recs)[field]
<1> DEFINE f == [r \in recs |-> [day |-> r.at, counts |-> Counts({s \in recs : s.at = r.at})]]
           G == {[day |-> r.at, counts |-> Counts({s \in recs : s.at = r.at})] : r \in recs}
           part == [g \in G |-> {s \in recs : s.at = g.day}]
<1>1. IsFiniteSet(G)
  <2>1. IsFiniteSet({f[r] : r \in recs})
    <3>1. DOMAIN f = recs /\ f = [x \in recs |-> f[x]]
      OBVIOUS
    <3> HIDE DEF f
    <3> QED BY <3>1, ImageIsFinite
  <2>2. {f[r] : r \in recs} = G
    OBVIOUS
  <2> QED BY <2>1, <2>2
<1>2. ASSUME NEW g \in G PROVE g.counts[field] = Cardinality(RowsOf(field, part[g]))
  <2>1. PICK r \in recs : g = [day |-> r.at, counts |-> Counts({s \in recs : s.at = r.at})]
    OBVIOUS
  <2>2. g.day = r.at /\ g.counts = Counts({s \in recs : s.at = r.at})
    BY <2>1
  <2>3. part[g] = {s \in recs : s.at = r.at}
    BY <2>2
  <2>4. g.counts = Counts(part[g])
    BY <2>2, <2>3
  <2> HIDE DEF part, G
  <2> QED BY <2>4, CountsAre
<1>3. ASSUME NEW g \in G, NEW h \in G, g # h PROVE part[g] \cap part[h] = {}
  <2>1. PICK r \in recs : g = [day |-> r.at, counts |-> Counts({s \in recs : s.at = r.at})]
    OBVIOUS
  <2>2. PICK q \in recs : h = [day |-> q.at, counts |-> Counts({s \in recs : s.at = q.at})]
    OBVIOUS
  <2>3. r.at = q.at => g = h
    BY <2>1, <2>2
  <2>4. g.day = r.at /\ h.day = q.at
    BY <2>1, <2>2
  <2>5. part[g] = {s \in recs : s.at = g.day} /\ part[h] = {s \in recs : s.at = h.day}
    OBVIOUS
  <2> QED BY <1>3, <2>3, <2>4, <2>5
<1>4. \A r \in recs : \E g \in G : r \in part[g]
  <2>1. ASSUME NEW r \in recs PROVE \E g \in G : r \in part[g]
    <3>1. f[r] \in G /\ f[r].day = r.at
      OBVIOUS
    <3>2. r \in part[f[r]]
      BY <3>1
    <3> QED BY <3>1, <3>2
  <2> QED BY <2>1
<1>5. part \in [G -> SUBSET recs]
  OBVIOUS
<1> HIDE DEF G, part
<1>6. SumOf(field, G) = Counts(recs)[field]
  BY <1>1, <1>2, <1>3, <1>4, <1>5, GroupsAddUp
<1> QED BY <1>6 DEF G

-------------------------------------------------------------------------------
(* ShadowLedger: what is in the ledger, and where its readers are            *)

Moment == [at : Int, id : Int]
ReviewRow ==
    [id : Nat, at : Nat, lane : {s.lane : s \in Snapshots},
     recommendation : {s.recommendation : s \in Snapshots}, decision : {"approved", "rejected"}]

ShadowTypeOK ==
    /\ now \in Nat
    /\ deciding \in SUBSET [id : Nat, at : Nat]
    /\ reviews \in SUBSET ReviewRow
    /\ reader \in [filter : Filters, cursor : Moment, told : Seq(SUBSET ReviewRow),
                   known : SUBSET ReviewRow, pc : {"idle", "paging", "end"}]

\* Every approval is decided once.
DecidedOnce ==
    /\ IsFiniteSet(reviews)
    /\ \A r, s \in reviews : r.id = s.id => r = s
    /\ \A d, e \in deciding : d.id = e.id => d = e
    /\ \A d \in deciding, r \in reviews : d.id # r.id

\* The pages descend to the cursor, and what the reader is to be told is told
\* or is still to come after the cursor.
Descend(told) ==
    \A i, j \in 1 .. Len(told) : i < j => \A r \in told[i], s \in told[j] : Earlier(s, r)
IsTold(r, told) == \E i \in 1 .. Len(told) : r \in told[i]
Ahead(r, cursor) == cursor = NoCursor \/ Earlier(r, cursor)
Above(told, cursor) ==
    \A i \in 1 .. Len(told) : \A r \in told[i] : cursor # NoCursor /\ ~Earlier(r, cursor)

ReaderOK ==
    /\ Descend(reader.told)
    /\ reader.known \subseteq Mismatches(reviews, reader.filter)
    /\ reader.pc = "paging" =>
          /\ Above(reader.told, reader.cursor)
          /\ \A r \in reader.known : IsTold(r, reader.told) \/ Ahead(r, reader.cursor)
    /\ reader.pc = "end" => \A r \in reader.known : IsTold(r, reader.told)

\* What the summary has counted so far, the ledger has and more.
Counting(field) ==
    /\ summary.pc = "lanes" =>
          summary.total[field] \in Nat /\ summary.total[field] <= Counts(reviews)[field]
    /\ summary.pc = "days" =>
          /\ summary.total[field] \in Nat /\ SumOf(field, summary.lanes) \in Nat
          /\ summary.total[field] <= SumOf(field, summary.lanes)
          /\ SumOf(field, summary.lanes) <= Counts(reviews)[field]
    /\ summary.pc = "end" =>
          /\ summary.total[field] <= SumOf(field, summary.lanes)
          /\ SumOf(field, summary.lanes) <= SumOf(field, summary.days)
SummaryOK ==
    /\ summary \in [pc : {"total", "lanes", "days", "end"}, total : {summary.total},
                    lanes : {summary.lanes}, days : {summary.days}]
    /\ \A field \in FieldNames : Counting(field)

ShadowInv == ShadowTypeOK /\ DecidedOnce /\ ReaderOK /\ SummaryOK

-------------------------------------------------------------------------------
(* ShadowLedger: a page                                                      *)

LEMMA EarlierIsAnOrder ==
  ASSUME NEW X, \A x \in X : x.at \in Int /\ x.id \in Int
  PROVE  /\ \A r \in X : ~Earlier(r, r)
         /\ \A r, s, t \in X : Earlier(r, s) /\ Earlier(s, t) => Earlier(r, t)
         /\ \A r, s \in X : Earlier(r, s) \/ Earlier(s, r) \/ (r.at = s.at /\ r.id = s.id)
BY DEF Earlier

Later(recs, r)  == {s \in recs : Earlier(r, s)}
Sooner(recs, r) == {s \in recs : Earlier(s, r)}
Ordered(recs) ==
    /\ IsFiniteSet(recs)
    /\ \A r \in recs : ~Earlier(r, r)
    /\ \A r, s, t \in recs : Earlier(r, s) /\ Earlier(s, t) => Earlier(r, t)
    /\ \A r, s \in recs : r # s => Earlier(r, s) \/ Earlier(s, r)

LEMMA ReviewsAreOrdered ==
  ASSUME NEW recs \in SUBSET ReviewRow, IsFiniteSet(recs), \A r, s \in recs : r.id = s.id => r = s
  PROVE  Ordered(recs)
<1>1. \A x \in recs : x.at \in Int /\ x.id \in Int
  BY DEF ReviewRow
<1> QED BY <1>1, EarlierIsAnOrder DEF Ordered

\* A set of rows that is not empty has a first row and a last one.
LEMMA EndsOfRows ==
  ASSUME NEW recs, Ordered(recs), recs # {}
  PROVE  /\ \E r \in recs : Later(recs, r) = {}
         /\ \E r \in recs : Sooner(recs, r) = {}
<1>1. \E r \in recs : Later(recs, r) = {}
  <2> DEFINE S == {Later(recs, r) : r \in recs}
  <2>1. S \in SUBSET SUBSET recs /\ S # {}
    BY DEF Later
  <2>2. PICK l \in S : \A t \in S : ~(Cardinality(t) < Cardinality(l))
    <3> HIDE DEF S
    <3> QED BY <2>1, SmallestOf DEF Ordered
  <2>3. PICK r \in recs : l = Later(recs, r)
    OBVIOUS
  <2>4. ASSUME NEW t \in l PROVE FALSE
    <3>1. t \in recs /\ Earlier(r, t)
      BY <2>3 DEF Later
    <3>2. Later(recs, t) \subseteq l \ {t}
      BY <2>3, <3>1 DEF Later, Ordered
    <3>3. Later(recs, t) \in S
      BY <3>1
    <3>4. IsFiniteSet(l) /\ Cardinality(l) \in Nat
      BY <2>3, FS_Subset, FS_CardinalityType DEF Later, Ordered
    <3>5. Cardinality(l \ {t}) = Cardinality(l) - 1 /\ IsFiniteSet(l \ {t})
      BY <3>4, FS_RemoveElement
    <3>6. Cardinality(Later(recs, t)) <= Cardinality(l \ {t}) /\ Cardinality(Later(recs, t)) \in Nat
      BY <3>2, <3>5, FS_Subset, FS_CardinalityType
    <3> HIDE DEF S
    <3> QED BY <2>2, <3>3, <3>4, <3>5, <3>6
  <2> QED BY <2>3, <2>4
<1>2. \E r \in recs : Sooner(recs, r) = {}
  <2> DEFINE S == {Sooner(recs, r) : r \in recs}
  <2>1. S \in SUBSET SUBSET recs /\ S # {}
    BY DEF Sooner
  <2>2. PICK l \in S : \A t \in S : ~(Cardinality(t) < Cardinality(l))
    <3> HIDE DEF S
    <3> QED BY <2>1, SmallestOf DEF Ordered
  <2>3. PICK r \in recs : l = Sooner(recs, r)
    OBVIOUS
  <2>4. ASSUME NEW t \in l PROVE FALSE
    <3>1. t \in recs /\ Earlier(t, r)
      BY <2>3 DEF Sooner
    <3>2. Sooner(recs, t) \subseteq l \ {t}
      BY <2>3, <3>1 DEF Sooner, Ordered
    <3>3. Sooner(recs, t) \in S
      BY <3>1
    <3>4. IsFiniteSet(l) /\ Cardinality(l) \in Nat
      BY <2>3, FS_Subset, FS_CardinalityType DEF Sooner, Ordered
    <3>5. Cardinality(l \ {t}) = Cardinality(l) - 1 /\ IsFiniteSet(l \ {t})
      BY <3>4, FS_RemoveElement
    <3>6. Cardinality(Sooner(recs, t)) <= Cardinality(l \ {t}) /\ Cardinality(Sooner(recs, t)) \in Nat
      BY <3>2, <3>5, FS_Subset, FS_CardinalityType
    <3> HIDE DEF S
    <3> QED BY <2>2, <3>3, <3>4, <3>5, <3>6
  <2> QED BY <2>3, <2>4
<1> QED BY <1>1, <1>2

\* A page of all the rows, if they are few.
LEMMA ShortPage ==
  ASSUME NEW recs, Ordered(recs), NEW n \in Nat, ~(Cardinality(recs) > n)
  PROVE  FirstOf(recs, n) = recs
<1> SUFFICES ASSUME NEW r \in recs PROVE Cardinality(Later(recs, r)) < n
  BY DEF FirstOf, Later
<1>1. Later(recs, r) \subseteq recs \ {r}
  BY DEF Later, Ordered
<1>2. IsFiniteSet(recs) /\ Cardinality(recs) \in Nat
  BY FS_CardinalityType DEF Ordered
<1>3. Cardinality(recs \ {r}) = Cardinality(recs) - 1 /\ IsFiniteSet(recs \ {r})
  BY <1>2, FS_RemoveElement
<1>4. Cardinality(Later(recs, r)) <= Cardinality(recs \ {r}) /\ Cardinality(Later(recs, r)) \in Nat
  BY <1>1, <1>3, FS_Subset, FS_CardinalityType
<1> QED BY <1>2, <1>3, <1>4

\* A page is the latest of the rows: its last row is the earliest of it, and
\* every row that is not on it is earlier still.
LEMMA PageIsLatest ==
  ASSUME NEW recs, Ordered(recs), recs # {}, NEW n \in Nat \ {0}
  PROVE  LET page == FirstOf(recs, n)
         IN  /\ Anchor(page) \in page
             /\ \A r \in page : ~Earlier(r, Anchor(page))
             /\ \A r \in recs \ page : Earlier(r, Anchor(page))
<1> DEFINE page == FirstOf(recs, n)
<1>1. page \subseteq recs /\ \A r \in recs : r \in page <=> Cardinality(Later(recs, r)) < n
  BY DEF FirstOf, Later
<1> HIDE DEF page
<1>2. page # {}
  <2>1. PICK r \in recs : Later(recs, r) = {}
    BY EndsOfRows
  <2>2. Cardinality({}) = 0
    BY FS_EmptySet
  <2> QED BY <1>1, <2>1, <2>2
<1>3. Ordered(page)
  BY <1>1, FS_Subset DEF Ordered
<1>4. \E r \in page : \A s \in page \ {r} : Earlier(r, s)
  <2>1. PICK r \in page : Sooner(page, r) = {}
    BY <1>2, <1>3, EndsOfRows
  <2> QED BY <1>3, <2>1 DEF Sooner, Ordered
<1> DEFINE a == Anchor(page)
<1>5. a \in page /\ \A s \in page \ {a} : Earlier(a, s)
  BY <1>4 DEF Anchor
<1> HIDE DEF a
<1>6. \A r \in page : ~Earlier(r, a)
  BY <1>3, <1>5 DEF Ordered
<1>7. ASSUME NEW r \in recs \ page PROVE Earlier(r, a)
  <2> SUFFICES ASSUME ~Earlier(r, a) PROVE FALSE
    OBVIOUS
  <2>1. Earlier(a, r)
    BY <1>1, <1>5 DEF Ordered
  <2>2. Later(recs, r) \subseteq Later(recs, a)
    BY <1>1, <1>5, <2>1 DEF Later, Ordered
  <2>3. IsFiniteSet(Later(recs, a))
    BY FS_Subset DEF Later, Ordered
  <2>4. /\ Cardinality(Later(recs, r)) <= Cardinality(Later(recs, a))
        /\ Cardinality(Later(recs, r)) \in Nat /\ Cardinality(Later(recs, a)) \in Nat
    BY <2>2, <2>3, FS_Subset, FS_CardinalityType
  <2>5. Cardinality(Later(recs, a)) < n
    BY <1>1, <1>5
  <2>6. Cardinality(Later(recs, r)) < n
    BY <2>4, <2>5
  <2> QED BY <1>1, <1>7, <2>6
<1> QED BY <1>5, <1>6, <1>7 DEF a, page

-------------------------------------------------------------------------------
(* ShadowLedger: every step keeps the invariant                              *)

\* The empty ledger, whose readers have asked for nothing, satisfies it.
THEOREM ShadowStarts == ShadowInit => ShadowInv
<1> SUFFICES ASSUME ShadowInit PROVE ShadowInv
  OBVIOUS
<1>1. ShadowTypeOK
  <2>1. <<>> \in Seq(SUBSET ReviewRow)
    OBVIOUS
  <2>2. [from |-> NoBound, to |-> NoBound, lane |-> "any"] \in Filters
    BY DEF Filters, NoBound
  <2>3. NoCursor \in Moment
    BY DEF NoCursor, Moment
  <2> HIDE DEF Filters, Moment, ReviewRow
  <2> QED BY <2>1, <2>2, <2>3 DEF ShadowInit, ShadowTypeOK
<1>2. DecidedOnce
  BY FS_EmptySet DEF ShadowInit, DecidedOnce
<1>3. ReaderOK
  <2>1. Len(reader.told) = 0 /\ reader.pc = "idle" /\ reader.known = {}
    BY DEF ShadowInit
  <2> QED BY <2>1 DEF ReaderOK, Descend
<1>4. SummaryOK
  <2>1. summary.pc = "total"
    BY DEF ShadowInit
  <2>2. \A field \in FieldNames : Counting(field)
    BY <2>1 DEF Counting
  <2> QED BY <2>2 DEF ShadowInit, SummaryOK
<1> QED BY <1>1, <1>2, <1>3, <1>4 DEF ShadowInv

LEMMA MismatchesAre ==
  ASSUME NEW recs, NEW more, recs \subseteq more, NEW f
  PROVE  /\ Mismatches(recs, f) \subseteq recs
         /\ Mismatches(recs, f) \subseteq Mismatches(more, f)
BY DEF Mismatches

\* New reviews spoil nothing that a reader has seen.
LEMMA ReadersKeep ==
  ASSUME ShadowInv, reviews \subseteq reviews', IsFiniteSet(reviews'),
         reader' = reader, summary' = summary
  PROVE  ReaderOK' /\ SummaryOK'
<1>1. ReaderOK'
  <2>1. Mismatches(reviews, reader.filter) \subseteq Mismatches(reviews', reader.filter)
    BY DEF Mismatches
  <2> QED BY <2>1 DEF ShadowInv, ReaderOK
<1>2. SummaryOK'
  <2>1. ASSUME NEW field \in FieldNames PROVE Counting(field)'
    <3>1. /\ Counts(reviews)[field] \in Nat /\ Counts(reviews')[field] \in Nat
          /\ Counts(reviews)[field] <= Counts(reviews')[field]
      BY CountsGrow
    <3>2. Counting(field)
      BY DEF ShadowInv, SummaryOK
    <3>3. SumOf(field, summary'.lanes) = SumOf(field, summary.lanes)
      OBVIOUS
    <3> QED BY <3>1, <3>2, <3>3 DEF Counting
  <2> QED BY <2>1 DEF ShadowInv, SummaryOK
<1> QED BY <1>1, <1>2

LEMMA TickKeeps ==
  ASSUME ShadowInv, Tick
  PROVE  ShadowInv'
<1>1. reviews' = reviews /\ deciding' = deciding /\ reader' = reader /\ summary' = summary
  BY DEF Tick
<1>2. ShadowTypeOK'
  BY <1>1 DEF ShadowInv, ShadowTypeOK, Tick
<1>3. DecidedOnce'
  BY <1>1 DEF ShadowInv, DecidedOnce
<1>4. IsFiniteSet(reviews')
  BY <1>1 DEF ShadowInv, DecidedOnce
<1> QED BY <1>1, <1>2, <1>3, <1>4, ReadersKeep DEF ShadowInv

LEMMA StartDecisionKeeps ==
  ASSUME ShadowInv, NEW a \in Approvals, StartDecision(a)
  PROVE  ShadowInv'
<1>1. reviews' = reviews /\ now' = now /\ reader' = reader /\ summary' = summary
  BY DEF StartDecision
<1>2. [id |-> a, at |-> now] \in [id : Nat, at : Nat]
  BY ShadowAssumption DEF ShadowInv, ShadowTypeOK
<1>3. ShadowTypeOK'
  BY <1>1, <1>2 DEF ShadowInv, ShadowTypeOK, StartDecision
<1>4. DecidedOnce'
  BY <1>1 DEF ShadowInv, DecidedOnce, StartDecision
<1>5. IsFiniteSet(reviews')
  BY <1>1 DEF ShadowInv, DecidedOnce
<1> QED BY <1>1, <1>3, <1>4, <1>5, ReadersKeep DEF ShadowInv

LEMMA RollbackKeeps ==
  ASSUME ShadowInv, NEW d \in deciding, Rollback(d)
  PROVE  ShadowInv'
<1>1. reviews' = reviews /\ now' = now /\ reader' = reader /\ summary' = summary
  BY DEF Rollback
<1>2. ShadowTypeOK'
  BY <1>1 DEF ShadowInv, ShadowTypeOK, Rollback
<1>3. DecidedOnce'
  BY <1>1 DEF ShadowInv, DecidedOnce, Rollback
<1>4. IsFiniteSet(reviews')
  BY <1>1 DEF ShadowInv, DecidedOnce
<1> QED BY <1>1, <1>2, <1>3, <1>4, ReadersKeep DEF ShadowInv

LEMMA CommitKeeps ==
  ASSUME ShadowInv, NEW d \in deciding, NEW s \in Snapshots,
         NEW decision \in {"approved", "rejected"}, Commit(d, s, decision)
  PROVE  ShadowInv'
<1> DEFINE new == [id |-> d.id, at |-> d.at, lane |-> s.lane,
                   recommendation |-> s.recommendation, decision |-> decision]
<1>1. /\ deciding' = deciding \ {d} /\ reviews' = reviews \cup {new}
      /\ now' = now /\ reader' = reader /\ summary' = summary
  BY DEF Commit
<1>2. d.id \in Nat /\ d.at \in Nat
  BY DEF ShadowInv, ShadowTypeOK
<1>3. new \in ReviewRow
  BY <1>2 DEF ReviewRow
<1>4. new.id = d.id
  OBVIOUS
<1> HIDE DEF new
<1>5. ShadowTypeOK'
  BY <1>1, <1>3 DEF ShadowInv, ShadowTypeOK
<1>6. IsFiniteSet(reviews')
  BY <1>1, FS_AddElement DEF ShadowInv, DecidedOnce
<1>7. DecidedOnce'
  BY <1>1, <1>4, <1>6 DEF ShadowInv, DecidedOnce
<1> QED BY <1>1, <1>5, <1>6, <1>7, ReadersKeep DEF ShadowInv

\* What is left alone when a reader or the summary moves.
LEMMA LedgerKeeps ==
  ASSUME ShadowInv, now' = now, deciding' = deciding, reviews' = reviews
  PROVE  DecidedOnce' /\ (summary' = summary => SummaryOK') /\ (reader' = reader => ReaderOK')
<1>1. DecidedOnce'
  BY DEF ShadowInv, DecidedOnce
<1>2. IsFiniteSet(reviews')
  BY DEF ShadowInv, DecidedOnce
<1>3. ASSUME summary' = summary PROVE SummaryOK'
  <2>1. \A field \in FieldNames : Counting(field)' = Counting(field)
    BY <1>3 DEF Counting
  <2> QED BY <1>3, <2>1 DEF ShadowInv, SummaryOK
<1>4. ASSUME reader' = reader PROVE ReaderOK'
  BY <1>4 DEF ShadowInv, ReaderOK
<1> QED BY <1>1, <1>3, <1>4

LEMMA OpenListKeeps ==
  ASSUME ShadowInv, NEW f \in Filters, OpenList(f)
  PROVE  ShadowInv'
<1>1. /\ now' = now /\ deciding' = deciding /\ reviews' = reviews /\ summary' = summary
      /\ reader' = [filter |-> f, cursor |-> NoCursor, told |-> <<>>,
                    known |-> Mismatches(reviews, f), pc |-> "paging"]
  BY DEF OpenList
<1>2. Mismatches(reviews, f) \subseteq reviews
  BY MismatchesAre
<1>3. NoCursor \in Moment
  BY DEF NoCursor, Moment
<1>4. ShadowTypeOK'
  <2>1. <<>> \in Seq(SUBSET ReviewRow)
    OBVIOUS
  <2> HIDE DEF Filters, Moment, ReviewRow
  <2> QED BY <1>1, <1>2, <1>3, <2>1 DEF ShadowInv, ShadowTypeOK
<1>5. ReaderOK'
  <2>1. /\ Len(reader'.told) = 0 /\ reader'.pc = "paging" /\ reader'.filter = f
        /\ reader'.known = Mismatches(reviews, f) /\ reader'.cursor = NoCursor
    BY <1>1
  <2> QED BY <1>1, <2>1 DEF ReaderOK, Descend, Above, Ahead
<1> QED BY <1>1, <1>4, <1>5, LedgerKeeps DEF ShadowInv

LEMMA RefuseCursorKeeps ==
  ASSUME ShadowInv, NEW f \in Filters, RefuseCursor(f)
  PROVE  ShadowInv'
<1>1. /\ now' = now /\ deciding' = deciding /\ reviews' = reviews /\ summary' = summary
      /\ reader' = [filter |-> f, cursor |-> NoCursor, told |-> <<>>, known |-> {}, pc |-> "idle"]
  BY DEF RefuseCursor
<1>2. NoCursor \in Moment
  BY DEF NoCursor, Moment
<1>3. ShadowTypeOK'
  <2>1. <<>> \in Seq(SUBSET ReviewRow)
    OBVIOUS
  <2> HIDE DEF Filters, Moment, ReviewRow
  <2> QED BY <1>1, <1>2, <2>1 DEF ShadowInv, ShadowTypeOK
<1>4. ReaderOK'
  <2>1. Len(reader'.told) = 0 /\ reader'.pc = "idle" /\ reader'.known = {}
    BY <1>1
  <2> QED BY <2>1 DEF ReaderOK, Descend
<1> QED BY <1>1, <1>3, <1>4, LedgerKeeps DEF ShadowInv

\* A page is appended below what was told, and what it leaves out is below it.
LEMMA ReadPageKeeps ==
  ASSUME ShadowInv, ReadPage
  PROVE  ShadowInv'
<1> DEFINE recs == After(Mismatches(reviews, reader.filter), reader.cursor)
           page == FirstOf(recs, PageLimit)
           more == Cardinality(recs) > PageLimit
           a    == Anchor(page)
           told == reader.told
           cursor == reader.cursor
<1>1. /\ now' = now /\ deciding' = deciding /\ reviews' = reviews /\ summary' = summary
      /\ reader.pc = "paging"
      /\ reader' = [reader EXCEPT
                       !.told = Append(@, page),
                       !.cursor = IF more THEN [at |-> a.at, id |-> a.id] ELSE @,
                       !.pc = IF more THEN "paging" ELSE "end"]
  BY DEF ReadPage
<1>2. /\ recs \subseteq reviews /\ recs \subseteq Mismatches(reviews, reader.filter)
      /\ \A r \in Mismatches(reviews, reader.filter) : r \in recs <=> Ahead(r, cursor)
  BY DEF After, Ahead, Mismatches
<1>3. page \subseteq recs
  BY DEF FirstOf
<1>4. PageLimit \in Nat \ {0}
  BY ShadowAssumption
<1>5. /\ reviews \in SUBSET ReviewRow /\ told \in Seq(SUBSET ReviewRow) /\ cursor \in Moment
      /\ reader.filter \in Filters /\ reader.known \in SUBSET ReviewRow
      /\ reader \in [filter : Filters, cursor : Moment, told : Seq(SUBSET ReviewRow),
                     known : SUBSET ReviewRow, pc : {"idle", "paging", "end"}]
  BY DEF ShadowInv, ShadowTypeOK
<1> HIDE DEF recs
<1>6. Ordered(recs)
  <2>1. IsFiniteSet(recs)
    BY <1>2, FS_Subset DEF ShadowInv, DecidedOnce
  <2>2. \A r, s \in recs : r.id = s.id => r = s
    BY <1>2 DEF ShadowInv, DecidedOnce
  <2>3. recs \in SUBSET ReviewRow
    BY <1>2, <1>5
  <2> QED BY <2>1, <2>2, <2>3, ReviewsAreOrdered
<1>7. more => /\ a \in page
              /\ \A r \in page : ~Earlier(r, a)
              /\ \A r \in recs \ page : Earlier(r, a)
  <2>1. more => recs # {}
    <3>1. Cardinality({}) = 0
      BY FS_EmptySet
    <3> QED BY <1>4, <3>1
  <2> QED BY <1>4, <1>6, <2>1, PageIsLatest
<1>8. ~more => page = recs
  BY <1>4, <1>6, ShortPage
<1> HIDE DEF page, more, a
<1> DEFINE next == IF more THEN [at |-> a.at, id |-> a.id] ELSE cursor
           pc == IF more THEN "paging" ELSE "end"
<1>9. next \in Moment /\ (more => next # NoCursor)
  <2>1. CASE more
    <3>1. a \in ReviewRow
      BY <1>2, <1>3, <1>5, <1>7, <2>1
    <3>2. a.at \in Nat /\ a.id \in Nat
      BY <3>1 DEF ReviewRow
    <3> QED BY <2>1, <3>2 DEF Moment, NoCursor
  <2>2. CASE ~more
    BY <1>5, <2>2
  <2> QED BY <2>1, <2>2
<1>10. more => next.at = a.at /\ next.id = a.id
  OBVIOUS
<1>11. reader' = [reader EXCEPT !.told = Append(told, page), !.cursor = next, !.pc = pc]
  BY <1>1
<1>12. pc \in {"paging", "end"} /\ (pc = "paging" <=> more)
  OBVIOUS
<1> HIDE DEF next, pc
<1> DEFINE said == Append(told, page)
<1>13. page \in SUBSET ReviewRow
  BY <1>2, <1>3, <1>5
<1>14. /\ said \in Seq(SUBSET ReviewRow) /\ Len(said) = Len(told) + 1
       /\ \A i \in 1 .. Len(told) : said[i] = told[i]
       /\ said[Len(told) + 1] = page /\ Len(told) \in Nat
  BY <1>5, <1>13, AppendProperties, LenProperties
<1> HIDE DEF said
<1>15. /\ reader'.filter = reader.filter /\ reader'.cursor = next /\ reader'.told = said
       /\ reader'.known = reader.known /\ reader'.pc = pc
       /\ reader' \in [filter : Filters, cursor : Moment, told : Seq(SUBSET ReviewRow),
                       known : SUBSET ReviewRow, pc : {"idle", "paging", "end"}]
  <2>1. reader' = [reader EXCEPT !.told = said, !.cursor = next, !.pc = pc]
    BY <1>11 DEF said
  <2> HIDE DEF Filters, Moment, ReviewRow
  <2> QED BY <1>5, <1>9, <1>12, <1>14, <2>1
<1>16. ShadowTypeOK'
  BY <1>1, <1>15 DEF ShadowInv, ShadowTypeOK
<1>17. Descend(told) /\ Above(told, cursor)
       /\ \A r \in reader.known : IsTold(r, told) \/ Ahead(r, cursor)
  BY <1>1 DEF ShadowInv, ReaderOK
<1>18. /\ \A r \in recs : r.at \in Int /\ r.id \in Int
       /\ \A i \in 1 .. Len(told) : \A r \in told[i] : r.at \in Int /\ r.id \in Int
       /\ cursor.at \in Int /\ cursor.id \in Int
  BY <1>2, <1>5, ElementOfSeq DEF ReviewRow, Moment
\* what is told was before the cursor, and what is on the page is after it
<1>19. ASSUME NEW i \in 1 .. Len(told), NEW r \in told[i], NEW s \in recs
       PROVE  Earlier(s, r)
  <2>1. cursor # NoCursor /\ ~Earlier(r, cursor)
    BY <1>17, <1>19 DEF Above
  <2>2. Earlier(s, cursor)
    BY <1>2, <1>19, <2>1 DEF Ahead
  <2> QED BY <1>18, <1>19, <2>1, <2>2 DEF Earlier
<1>20. Descend(said)
  <2> SUFFICES ASSUME NEW i \in 1 .. Len(said), NEW j \in 1 .. Len(said), i < j,
                      NEW r \in said[i], NEW s \in said[j]
               PROVE  Earlier(s, r)
    BY DEF Descend
  <2>1. i \in 1 .. Len(told) /\ said[i] = told[i]
    BY <1>14
  <2>2. CASE j \in 1 .. Len(told)
    BY <1>14, <1>17, <2>1, <2>2 DEF Descend
  <2>3. CASE j = Len(told) + 1
    BY <1>3, <1>14, <1>19, <2>1, <2>3
  <2> QED BY <1>14, <2>2, <2>3
<1>21. more => Above(said, next)
  <2> SUFFICES ASSUME more, NEW i \in 1 .. Len(said), NEW r \in said[i]
               PROVE  ~Earlier(r, next)
    BY <1>9 DEF Above
  <2>1. a \in page /\ a \in recs /\ ~Earlier(a, a)
    BY <1>3, <1>6, <1>7 DEF Ordered
  <2>2. CASE i \in 1 .. Len(told)
    <3>1. r \in told[i]
      BY <1>14, <2>2
    <3>2. Earlier(a, r)
      BY <1>19, <2>1, <2>2, <3>1
    <3> QED BY <1>10, <1>18, <2>1, <2>2, <3>1, <3>2 DEF Earlier
  <2>3. CASE i = Len(told) + 1
    <3>1. ~Earlier(r, a) /\ r \in recs
      BY <1>3, <1>7, <1>14, <2>3
    <3> QED BY <1>10, <3>1 DEF Earlier
  <2> QED BY <1>14, <2>2, <2>3
<1>22. ASSUME NEW r \in reader.known
       PROVE  IsTold(r, said) \/ (more /\ Ahead(r, next))
  <2>1. CASE IsTold(r, told)
    BY <1>14, <2>1 DEF IsTold
  <2>2. CASE r \in page
    <3>1. r \in said[Len(told) + 1] /\ Len(told) + 1 \in 1 .. Len(said)
      BY <1>14, <2>2
    <3> QED BY <3>1 DEF IsTold
  <2>3. CASE ~IsTold(r, told) /\ r \notin page
    <3>1. r \in recs
      BY <1>2, <1>17, <2>3 DEF ShadowInv, ReaderOK
    <3>2. more
      BY <1>8, <2>3, <3>1
    <3>3. Earlier(r, a)
      BY <1>7, <2>3, <3>1, <3>2
    <3> QED BY <1>10, <3>2, <3>3 DEF Ahead, Earlier
  <2> QED BY <2>1, <2>2, <2>3
<1>23. reader.known \subseteq Mismatches(reviews', reader'.filter)
  BY <1>1, <1>15 DEF ShadowInv, ReaderOK
<1>24. ReaderOK'
  BY <1>12, <1>15, <1>20, <1>21, <1>22, <1>23 DEF ReaderOK
<1> QED BY <1>1, <1>16, <1>24, LedgerKeeps DEF ShadowInv

LEMMA CountAllKeeps ==
  ASSUME ShadowInv, CountAll
  PROVE  ShadowInv'
<1>1. /\ now' = now /\ deciding' = deciding /\ reviews' = reviews /\ reader' = reader
      /\ summary' = [summary EXCEPT !.pc = "lanes", !.total = Counts(reviews)]
  BY DEF CountAll
<1>2. IsFiniteSet(reviews)
  BY DEF ShadowInv, DecidedOnce
<1>3. /\ summary'.pc = "lanes" /\ summary'.total = Counts(reviews)
      /\ summary'.lanes = summary.lanes /\ summary'.days = summary.days
      /\ summary' = [pc |-> "lanes", total |-> Counts(reviews),
                     lanes |-> summary.lanes, days |-> summary.days]
  BY <1>1 DEF ShadowInv, SummaryOK
<1>4. ASSUME NEW field \in FieldNames PROVE Counting(field)'
  <2>1. Counts(reviews)[field] \in Nat
    BY <1>2, CountsGrow
  <2> QED BY <1>1, <1>3, <2>1 DEF Counting
<1>5. SummaryOK'
  BY <1>3, <1>4 DEF SummaryOK
<1>6. ShadowTypeOK'
  BY <1>1 DEF ShadowInv, ShadowTypeOK
<1> QED BY <1>1, <1>5, <1>6, LedgerKeeps DEF ShadowInv

LEMMA CountLanesKeeps ==
  ASSUME ShadowInv, CountLanes
  PROVE  ShadowInv'
<1> DEFINE lanes == {[lane |-> r.lane, counts |-> Counts({s \in reviews : s.lane = r.lane})] :
                        r \in reviews}
<1>1. /\ now' = now /\ deciding' = deciding /\ reviews' = reviews /\ reader' = reader
      /\ summary.pc = "lanes"
      /\ summary' = [summary EXCEPT !.pc = "days", !.lanes = lanes]
  BY DEF CountLanes
<1>2. IsFiniteSet(reviews)
  BY DEF ShadowInv, DecidedOnce
<1>3. \A field \in FieldNames : SumOf(field, lanes) = Counts(reviews)[field]
  BY <1>2, LanesAddUp
<1> HIDE DEF lanes
<1>4. /\ summary'.pc = "days" /\ summary'.total = summary.total
      /\ summary'.lanes = lanes /\ summary'.days = summary.days
      /\ summary' = [pc |-> "days", total |-> summary.total, lanes |-> lanes,
                     days |-> summary.days]
  BY <1>1 DEF ShadowInv, SummaryOK
<1>5. ASSUME NEW field \in FieldNames PROVE Counting(field)'
  <2>1. Counts(reviews)[field] \in Nat
    BY <1>2, CountsGrow
  <2>2. summary.total[field] \in Nat /\ summary.total[field] <= Counts(reviews)[field]
    BY <1>1 DEF ShadowInv, SummaryOK, Counting
  <2>3. SumOf(field, summary'.lanes) = Counts(reviews)[field]
    BY <1>3, <1>4
  <2> QED BY <1>1, <1>4, <2>1, <2>2, <2>3 DEF Counting
<1>6. SummaryOK'
  BY <1>4, <1>5 DEF SummaryOK
<1>7. ShadowTypeOK'
  BY <1>1 DEF ShadowInv, ShadowTypeOK
<1> QED BY <1>1, <1>6, <1>7, LedgerKeeps DEF ShadowInv

LEMMA CountDaysKeeps ==
  ASSUME ShadowInv, CountDays
  PROVE  ShadowInv'
<1> DEFINE days == {[day |-> r.at, counts |-> Counts({s \in reviews : s.at = r.at})] : r \in reviews}
<1>1. /\ now' = now /\ deciding' = deciding /\ reviews' = reviews /\ reader' = reader
      /\ summary.pc = "days"
      /\ summary' = [summary EXCEPT !.pc = "end", !.days = days]
  BY DEF CountDays
<1>2. IsFiniteSet(reviews)
  BY DEF ShadowInv, DecidedOnce
<1>3. \A field \in FieldNames : SumOf(field, days) = Counts(reviews)[field]
  BY <1>2, DaysAddUp
<1> HIDE DEF days
<1>4. /\ summary'.pc = "end" /\ summary'.total = summary.total
      /\ summary'.lanes = summary.lanes /\ summary'.days = days
      /\ summary' = [pc |-> "end", total |-> summary.total, lanes |-> summary.lanes,
                     days |-> days]
  BY <1>1 DEF ShadowInv, SummaryOK
<1>5. ASSUME NEW field \in FieldNames PROVE Counting(field)'
  <2>1. /\ summary.total[field] <= SumOf(field, summary.lanes)
        /\ SumOf(field, summary.lanes) <= Counts(reviews)[field]
    BY <1>1 DEF ShadowInv, SummaryOK, Counting
  <2>2. SumOf(field, summary'.days) = Counts(reviews)[field]
    BY <1>3, <1>4
  <2>3. SumOf(field, summary'.lanes) = SumOf(field, summary.lanes)
    BY <1>4
  <2> QED BY <1>4, <2>1, <2>2, <2>3 DEF Counting
<1>6. SummaryOK'
  BY <1>4, <1>5 DEF SummaryOK
<1>7. ShadowTypeOK'
  BY <1>1 DEF ShadowInv, ShadowTypeOK
<1> QED BY <1>1, <1>6, <1>7, LedgerKeeps DEF ShadowInv

\* Every step of the ledger keeps the invariant.
THEOREM ShadowStep == ShadowInv /\ [ShadowNext]_shadowVars => ShadowInv'
<1> SUFFICES ASSUME ShadowInv, [ShadowNext]_shadowVars PROVE ShadowInv'
  OBVIOUS
<1>1. CASE Tick
  BY <1>1, TickKeeps
<1>2. CASE \E a \in Approvals : StartDecision(a)
  BY <1>2, StartDecisionKeeps
<1>3. CASE \E d \in deciding : \E s \in Snapshots, decision \in {"approved", "rejected"} :
              Commit(d, s, decision)
  BY <1>3, CommitKeeps
<1>4. CASE \E d \in deciding : Rollback(d)
  BY <1>4, RollbackKeeps
<1>5. CASE \E f \in Filters : OpenList(f)
  BY <1>5, OpenListKeeps
<1>6. CASE \E f \in Filters : RefuseCursor(f)
  BY <1>6, RefuseCursorKeeps
<1>7. CASE ReadPage
  BY <1>7, ReadPageKeeps
<1>8. CASE CountAll
  BY <1>8, CountAllKeeps
<1>9. CASE CountLanes
  BY <1>9, CountLanesKeeps
<1>10. CASE CountDays
  BY <1>10, CountDaysKeeps
<1>11. CASE UNCHANGED shadowVars
  <2>1. /\ now' = now /\ deciding' = deciding /\ reviews' = reviews
        /\ reader' = reader /\ summary' = summary
    BY <1>11 DEF shadowVars
  <2>2. ShadowTypeOK'
    BY <2>1 DEF ShadowInv, ShadowTypeOK
  <2> QED BY <2>1, <2>2, LedgerKeeps DEF ShadowInv
<1> QED BY <1>1, <1>2, <1>3, <1>4, <1>5, <1>6, <1>7, <1>8, <1>9, <1>10, <1>11 DEF ShadowNext

\* The invariant of the ledger holds in every state: the pages of a reader
\* descend to his cursor, and what a summary counted is there and more.
THEOREM ShadowHolds == ShadowSpec => []ShadowInv
BY ShadowStarts, ShadowStep, PTL DEF ShadowSpec

\* Whatever is decided while a browser pages (_mismatches_sync), no mismatch
\* is told twice, the pages descend, and at the end every mismatch committed
\* before the first page was told: for every page size and any number of rows.
THEOREM PagesAlwaysTellEach == ShadowSpec => []PagesTellEach
<1>1. ShadowInv => PagesTellEach
  <2> SUFFICES ASSUME ShadowInv PROVE PagesTellEach
    OBVIOUS
  <2>1. Descend(reader.told)
    BY DEF ShadowInv, ReaderOK
  <2>2. reader.pc = "end" => reader.known \subseteq UNION {reader.told[i] : i \in Told}
    <3> SUFFICES ASSUME reader.pc = "end", NEW r \in reader.known
                 PROVE  r \in UNION {reader.told[i] : i \in Told}
      OBVIOUS
    <3>1. PICK i \in 1 .. Len(reader.told) : r \in reader.told[i]
      BY DEF ShadowInv, ReaderOK, IsTold
    <3> QED BY <3>1 DEF Told
  <2> QED BY <2>1, <2>2 DEF PagesTellEach, Descend, Told
<1> QED BY <1>1, ShadowHolds, PTL

\* Each of the three statements of a summary sees what the one before it saw
\* (_shadow_match_sync): the lanes add up to the total or more and the days to
\* the lanes or more, for any number of rows, lanes and days.
THEOREM SummaryAlwaysGrows == ShadowSpec => []SummaryOnlyGrows
<1>1. ShadowInv => SummaryOnlyGrows
  BY DEF ShadowInv, SummaryOK, Counting, FieldNames, SummaryOnlyGrows
<1> QED BY <1>1, ShadowHolds, PTL

-------------------------------------------------------------------------------
(* The pure scenes: the case of a behaviour stays what it was at the start   *)

CaseOK == case \in PureCases \cup {NoCase}

\* A run judges one case and keeps it: the case is one that was enumerated, or
\* none yet.
THEOREM CaseStays == Spec => []CaseOK
<1>1. Init => CaseOK
  BY DEF Init, CaseOK
<1>2. CaseOK /\ [Next]_vars => CaseOK'
  <2> SUFFICES ASSUME CaseOK, [Next]_vars PROVE CaseOK'
    OBVIOUS
  <2>1. CASE Next
    BY <2>1 DEF Next, CaseOK
  <2>2. CASE UNCHANGED vars
    BY <2>2 DEF vars, CaseOK
  <2> QED BY <2>1, <2>2
<1> QED BY <1>1, <1>2, PTL DEF Spec

PoliceRecord == [match : BOOLEAN, status : {"clean", "under_investigation", "criminal_record"},
                 blocked : BOOLEAN, age : {NoYear} \cup Nat]
JobRecord    == [status : {"active", "expired"}, verified : Nat]
AskedAmounts    == Nat \ {0}
AskedTypes      == LoanTypes \cup {"none"}
OwnerKinds      == {"customer", "business"}
CollateralKinds == {"none", "unknown", "foreign", "own"}
PaperStates     == {"complete", "incomplete"}
DocsStates      == {"nothing", "optional", "mandatory"}
PurposeKinds    == {"none", "not_restricted", "conditional", "banned"}
CicGroups       == 0 .. 3
PoliceFindings  == PoliceRecord \cup {NoRecord}
JobFindings     == JobRecord \cup {NoRecord}

\* The applications of the bank, and not only those of the runs.
Application ==
    [what : {"application"}, kind : OwnerKinds, income : Nat, override : {NoOverride},
     paying : Nat, asked : AskedAmounts, type : AskedTypes, term : {0},
     collateral : CollateralKinds, value : Nat, docs_status : PaperStates, cic : CicGroups,
     docs : DocsStates, dispute : {"none", "disputed"}, zoning : {"none", "planning_zone"},
     purpose : PurposeKinds, police : PoliceFindings, employment : JobFindings]

LEMMA CleanIsApplication == Clean \in Application /\ CleanPolice \in PoliceRecord
BY DEF Clean, CleanPolice, Application, PoliceRecord, JobRecord, LoanTypes, AskedAmounts, AskedTypes,
       OwnerKinds, CollateralKinds, PaperStates, DocsStates, PurposeKinds, CicGroups,
       PoliceFindings, JobFindings

LEMMA PoliceCasesAre == PoliceCases \subseteq PoliceFindings
<1>1. ASSUME NEW m \in BOOLEAN, NEW s \in {"clean", "under_investigation", "criminal_record"},
             NEW b \in BOOLEAN, NEW y \in {NoYear, 2, 8}
      PROVE  Police(m, s, b, y) \in PoliceRecord
  <2>1. y \in {NoYear} \cup Nat /\ CleanPolice \in PoliceRecord
    BY CleanIsApplication
  <2> QED BY <2>1 DEF Police, PoliceRecord
<1>2. PoliceRecords \subseteq PoliceRecord
  BY <1>1 DEF PoliceRecords
<1> QED BY <1>2 DEF PoliceCases, PoliceFindings

LEMMA CasesAreApplications == MoneyCases \cup CheckCases \subseteq Application
<1>0. Clean \in Application
  BY CleanIsApplication
<1>1. ASSUME NEW n \in {3, 6, 12}, NEW t \in {"none", "consumer", "secured"}, NEW i \in {0, 4, 8},
             NEW p \in {0, 2}, NEW c \in {"none", "unknown", "foreign", "own"},
             NEW v \in {0, 6, 20}, NEW g \in 0 .. 3, NEW k \in {"customer", "business"}
      PROVE  Asking(n, t, i, p, c, v, g, k) \in Application
  <2>1. n \in AskedAmounts /\ t \in AskedTypes /\ i \in Nat /\ p \in Nat /\ v \in Nat
        /\ c \in CollateralKinds /\ g \in CicGroups /\ k \in OwnerKinds
    BY DEF AskedAmounts, AskedTypes, LoanTypes, CollateralKinds, CicGroups, OwnerKinds
  <2> QED BY <1>0, <2>1 DEF Asking, Application
<1>2. ASSUME NEW p \in PoliceCases, NEW e \in Jobs \cup {NoRecord},
             NEW d \in {"nothing", "optional", "mandatory"},
             NEW u \in {"none", "not_restricted", "conditional", "banned"}
      PROVE  Checked(p, e, d, u) \in Application
  <2>1. p \in PoliceFindings /\ d \in DocsStates /\ u \in PurposeKinds
    BY PoliceCasesAre DEF DocsStates, PurposeKinds
  <2>2. e \in JobFindings
    BY DEF Jobs, JobRecord, JobFindings
  <2> QED BY <1>0, <2>1, <2>2 DEF Checked, Application
<1>3. ASSUME NEW s \in {"complete", "incomplete"}, NEW d \in {"nothing", "optional", "mandatory"},
             NEW q \in {"none", "disputed"}, NEW z \in {"none", "planning_zone"},
             NEW u \in {"none", "not_restricted", "conditional", "banned"}
      PROVE  OnPaper(s, d, q, z, u) \in Application
  <2>1. s \in PaperStates /\ d \in DocsStates /\ u \in PurposeKinds
    BY DEF PaperStates, DocsStates, PurposeKinds
  <2> QED BY <1>0, <2>1 DEF OnPaper, Application
<1>4. CheckCases \subseteq Application
  BY <1>2, <1>3 DEF CheckCases
<1>5. MoneyCases \subseteq Application
  <2> SUFFICES ASSUME NEW a \in MoneyCases PROVE a \in Application
    OBVIOUS
  <2>1. PICK n \in {3, 6, 12}, t \in {"none", "consumer", "secured"}, i \in {0, 4, 8}, p \in {0, 2},
             c \in {"none", "unknown", "foreign", "own"}, v \in {0, 6, 20}, g \in 0 .. 3,
             k \in {"customer", "business"} : a = Asking(n, t, i, p, c, v, g, k)
    BY DEF MoneyCases
  <2> QED BY <1>1, <2>1
<1> QED BY <1>4, <1>5

\* What a case says it is, it is.
LEMMA CaseIs ==
  ASSUME CaseOK
  PROVE  /\ case.what = "table" => case \in Table
         /\ case.what = "application" => case \in MoneyCases \cup CheckCases
         /\ case.what = "graph" => case \in Graphs
         /\ case.what = "stores" => case \in Stores
         /\ case.what = "rows" => case \in Rows
         /\ case.what = "turns" => case \in Turns
         /\ case.what = "costs" => case \in Costs
         /\ case.what = "desk" => case \in Desks
         /\ case.what = "lane" => case \in Judged
         /\ case.what = "cases" => case \in CaseLists
<1>1. /\ case \in Table => case.what = "table"
      /\ case \in Graphs => case.what = "graph"
      /\ case \in Stores => case.what = "stores"
      /\ case \in Rows => case.what = "rows"
      /\ case \in Turns => case.what = "turns"
      /\ case \in Costs => case.what = "costs"
  BY DEF Table, Graphs, Stores, Rows, Turns, Costs
<1>2. case \in MoneyCases \cup CheckCases => case.what = "application"
  BY CasesAreApplications DEF Application
<1>3. case \in Desks => case.what = "desk"
  BY DEF Desks
<1>4. case \in Judged => case.what = "lane"
  BY DEF Judged
<1>5. case \in CaseLists => case.what = "cases"
  BY DEF CaseLists
<1>6. case = NoCase => case.what = "none"
  BY DEF NoCase
<1> QED BY <1>1, <1>2, <1>3, <1>4, <1>5, <1>6 DEF CaseOK, PureCases

-------------------------------------------------------------------------------
(* The legal expert's checks and the money gate                              *)

LevelsOf(criteria) == {c.level : c \in criteria}

LEMMA LevelsAre ==
  ASSUME NEW a
  PROVE  Levels(a) = LevelsOf(PoliceCriteria(a)) \cup LevelsOf(CicCriterion(a))
                     \cup LevelsOf(EmploymentCriterion(a)) \cup LevelsOf(DocsCriterion(a))
                     \cup LevelsOf(PurposeCriterion(a)) \cup LevelsOf(CreditCriterion(a))
BY DEF Levels, LevelsOf, Criteria

LEMMA LevelOfOne ==
  ASSUME NEW key, NEW level
  PROVE  LevelsOf(Criterion(key, level)) = {level}
BY DEF LevelsOf, Criterion

LEMMA AssumptionsAreNumbers ==
  ASSUME NEW key, NEW default \in Int
  PROVE  Assumption(key, default) \in Int
<1>1. CASE key \in DOMAIN Assumptions /\ Assumptions[key] \in Numeric
  <2>1. Assumptions[key] \in Int
    BY <1>1, CreditAssumption
  <2> QED BY <1>1, <2>1 DEF Assumption
<1>2. CASE ~(key \in DOMAIN Assumptions /\ Assumptions[key] \in Numeric)
  BY <1>2 DEF Assumption
<1> QED BY <1>1, <1>2

\* A green lane speaks for every check at once, the income check for what was
\* verified (legal_classify_profile): for every application, whatever the bank's
\* assumptions are.
THEOREM GreenIsClean ==
  ASSUME NEW a \in Application, Lane(a) = "green"
  PROVE  IsClean(a)
<1>1. "red" \notin Levels(a) /\ "yellow" \notin Levels(a)
  BY DEF Lane
<1>2. CicBlock \in Int
  BY AssumptionsAreNumbers DEF CicBlock
<1>3. a.cic = 1
  <2>1. a.cic \in 0 .. 3
    BY DEF Application, CicGroups
  <2>2. a.cic # 0 /\ a.cic # 2 /\ ~(a.cic >= CicBlock)
    <3>1. CASE a.cic = 0
      <4>1. CicCriterion(a) = Criterion("cic", "yellow")
        BY <3>1 DEF CicCriterion
      <4> QED BY <1>1, <4>1, LevelsAre, LevelOfOne
    <3>2. CASE a.cic # 0 /\ a.cic >= CicBlock
      <4>1. CicCriterion(a) = Criterion("cic", "red")
        BY <1>2, <2>1, <3>2 DEF CicCriterion
      <4> QED BY <1>1, <4>1, LevelsAre, LevelOfOne
    <3>3. CASE a.cic = 2 /\ ~(a.cic >= CicBlock)
      <4>1. a.cic < CicBlock
        BY <1>2, <2>1, <3>3
      <4>2. CicCriterion(a) = Criterion("cic", "yellow")
        BY <3>3, <4>1 DEF CicCriterion
      <4> QED BY <1>1, <4>2, LevelsAre, LevelOfOne
    <3> QED BY <3>1, <3>2, <3>3
  <2>3. a.cic # 3
    <3> SUFFICES ASSUME a.cic = 3 PROVE FALSE
      OBVIOUS
    <3> DEFINE q == AsAsked(a)
    <3>1. q.cic = 3 /\ q.asked = a.asked /\ a.asked \in Nat \ {0}
      BY DEF AsAsked, Application, CicGroups, AskedAmounts
    <3> HIDE DEF q
    <3>2. "cic_bad_debt" \in CreditReasons(q)
      BY <3>1 DEF CreditReasons, Flag, BadDebt
    <3>3. CreditVerdict(q) = "ineligible"
      BY <3>2 DEF CreditVerdict
    <3>4. \/ CreditCriterion(a) = Criterion("collateral_ownership", "red")
          \/ CreditCriterion(a) = Criterion("credit", "yellow")
          \/ CreditCriterion(a) = Criterion("credit", "red")
      BY <3>3 DEF CreditCriterion, q
    <3> QED BY <1>1, <3>4, LevelsAre, LevelOfOne
  <2> QED BY <2>1, <2>2, <2>3
<1>4. CreditVerdict(AsAsked(a)) = "eligible"
  <2> SUFFICES ASSUME CreditVerdict(AsAsked(a)) # "eligible" PROVE FALSE
    OBVIOUS
  <2>1. \/ CreditCriterion(a) = Criterion("collateral_ownership", "red")
        \/ CreditCriterion(a) = Criterion("credit", "yellow")
        \/ CreditCriterion(a) = Criterion("credit", "red")
    BY DEF CreditCriterion
  <2> QED BY <1>1, <2>1, LevelsAre, LevelOfOne
<1>5. a.collateral \in {"none", "own"}
  <2>1. a.collateral \in {"none", "unknown", "foreign", "own"}
    BY DEF Application, CollateralKinds
  <2>2. CASE a.collateral = "foreign"
    <3>1. DocsCriterion(a) = Criterion("collateral_ownership", "red")
      BY <2>2 DEF DocsCriterion
    <3> QED BY <1>1, <3>1, LevelsAre, LevelOfOne
  <2>3. CASE a.collateral = "unknown"
    <3>1. DocsCriterion(a) = Criterion("docs", "yellow")
      BY <2>3 DEF DocsCriterion
    <3> QED BY <1>1, <3>1, LevelsAre, LevelOfOne
  <2> QED BY <2>1, <2>2, <2>3
<1>6. a.docs # "mandatory"
  <2> SUFFICES ASSUME a.docs = "mandatory" PROVE FALSE
    OBVIOUS
  <2>1. DocsVerdict(a) \in {"blocked", "needs_docs"}
    BY DEF DocsVerdict
  <2>2. DocsCriterion(a) = Criterion("docs", "red") \/ DocsCriterion(a) = Criterion("docs", "yellow")
    BY <1>5, <2>1 DEF DocsCriterion
  <2> QED BY <1>1, <2>2, LevelsAre, LevelOfOne
<1>7. a.police # NoRecord /\ a.police.match /\ a.police.status = "clean"
  <2>1. ASSUME NEW key, NEW level, Criterion(key, level) \subseteq PoliceCriteria(a)
        PROVE  level \notin {"red", "yellow"}
    <3>1. LevelsOf(Criterion(key, level)) \subseteq LevelsOf(PoliceCriteria(a))
      BY <2>1 DEF LevelsOf
    <3> QED BY <1>1, <3>1, LevelsAre, LevelOfOne
  <2>2. a.police # NoRecord
    <3> SUFFICES ASSUME a.police = NoRecord PROVE FALSE
      OBVIOUS
    <3>1. Criterion("identity", "yellow") \subseteq PoliceCriteria(a)
      BY DEF PoliceCriteria
    <3> QED BY <2>1, <3>1
  <2>3. /\ Criterion("identity", IF a.police.match THEN "pass" ELSE "yellow") \subseteq PoliceCriteria(a)
        /\ Criterion("criminal", CriminalLevel(a.police)) \subseteq PoliceCriteria(a)
    BY <2>2 DEF PoliceCriteria
  <2>4. (IF a.police.match THEN "pass" ELSE "yellow") \notin {"red", "yellow"}
    BY <2>1, <2>3
  <2>5. CriminalLevel(a.police) \notin {"red", "yellow"}
    BY <2>1, <2>3
  <2>6. a.police.match
    BY <2>4
  <2>7. a.police.status = "clean"
    BY <2>5 DEF CriminalLevel
  <2> QED BY <2>2, <2>6, <2>7
<1>8. a.kind = "customer" /\ a.employment # NoRecord /\ a.employment.status # "expired"
  <2> SUFFICES ASSUME ~(a.kind = "customer" /\ a.employment # NoRecord
                        /\ a.employment.status # "expired")
               PROVE  FALSE
    OBVIOUS
  <2>1. a.kind \in {"customer", "business"}
    BY DEF Application, OwnerKinds
  <2>2. \/ a.kind = "business"
        \/ a.employment = NoRecord
        \/ EmploymentFlags(a.income, a.employment) # {}
    BY <2>1 DEF EmploymentFlags, Flag
  <2>3. EmploymentCriterion(a) = Criterion("employment", "yellow")
    BY <2>2 DEF EmploymentCriterion
  <2> QED BY <1>1, <2>3, LevelsAre, LevelOfOne
<1>9. a.purpose \notin {"conditional", "banned"}
  <2>1. CASE a.purpose = "conditional"
    <3>1. PurposeCriterion(a) = Criterion("purpose", "yellow")
      BY <2>1 DEF PurposeCriterion
    <3> QED BY <1>1, <3>1, LevelsAre, LevelOfOne
  <2>2. CASE a.purpose = "banned"
    <3>1. PurposeCriterion(a) = Criterion("purpose", "red")
      BY <2>2 DEF PurposeCriterion
    <3> QED BY <1>1, <3>1, LevelsAre, LevelOfOne
  <2> QED BY <2>1, <2>2
<1>10. \/ a.employment.verified = 0
       \/ Thousandths(Distance(a.income, a.employment.verified), a.employment.verified) <= MismatchMax
  <2>1. EmploymentFlags(a.income, a.employment) = {}
    <3> SUFFICES ASSUME EmploymentFlags(a.income, a.employment) # {} PROVE FALSE
      OBVIOUS
    <3>1. EmploymentCriterion(a) = Criterion("employment", "yellow")
      BY DEF EmploymentCriterion
    <3> QED BY <1>1, <3>1, LevelsAre, LevelOfOne
  <2>2. ~IncomeMismatch(a.income, a.employment)
    BY <2>1 DEF EmploymentFlags, Flag
  <2>3. a.employment.verified \in Nat /\ a.income \in Nat
    BY <1>8 DEF Application, JobFindings, JobRecord
  <2>4. MismatchMax \in Int
    BY AssumptionsAreNumbers DEF MismatchMax
  <2>5. a.employment.verified # 0 =>
           Thousandths(Distance(a.income, a.employment.verified), a.employment.verified) \in Int
    BY <2>3 DEF Thousandths, Distance
  <2> QED BY <2>2, <2>3, <2>4, <2>5 DEF IncomeMismatch
<1> QED BY <1>3, <1>4, <1>5, <1>6, <1>7, <1>8, <1>9, <1>10 DEF IsClean

\* The gate runs money by rule only where the snapshot says auto-eligible, and
\* asks a person about an auto-eligible case only when the brake is closed
\* (gated_decision): for every action, amount, lane and threshold.
THEOREM GateAgreesWithSnapshot ==
  ASSUME NEW action \in Actions, NEW amount \in Amounts, NEW lane \in Lanes, NEW threshold \in Nat
  PROVE  /\ Decision(action, amount, lane, threshold) = "auto"
               => Recommendation(action, amount, lane, threshold) = "auto-eligible"
         /\ /\ Recommendation(action, amount, lane, threshold) = "auto-eligible"
            /\ Decision(action, amount, lane, threshold) = "human"
            => threshold = 0
<1>1. AutoEligible(action, amount, lane, threshold) => lane # "red"
  BY DEF AutoEligible, Tier1, Tier2
<1> HIDE DEF AutoEligible
<1>2. Decision(action, amount, lane, threshold) = "auto"
        <=> threshold > 0 /\ AutoEligible(action, amount, lane, threshold)
  BY DEF Decision
<1>3. Decision(action, amount, lane, threshold) \in {"auto", "human"}
  BY DEF Decision
<1>4. Recommendation(action, amount, lane, threshold) = "auto-eligible"
        <=> AutoEligible(action, amount, lane, threshold)
  BY <1>1 DEF Recommendation
<1> QED BY <1>2, <1>3, <1>4

\* What the gate makes of each of the four advices, for every application and
\* every threshold: an application that the expert leaves to a person, each one
\* of a business among them, is paid by rule below the threshold
\* (legal_classify_profile, gated_decision).
THEOREM GateFollowsAdvice ==
  ASSUME NEW a \in Application, NEW t \in Nat
  PROVE  /\ FollowsAdvice(a, t)
         /\ a.kind = "business" => Advice(a) \in {"human_review_required", "reject_recommended"}
<1>1. a.asked \in Nat /\ a.asked # NoAmount
  BY VerdictAssumption DEF Application, AskedAmounts
<1>2. Lane(a) \in {"green", "yellow", "red"}
  BY DEF Lane
<1>3. t > 0 => PolicyThreshold(t) = t
  BY DEF PolicyThreshold
<1>4. CASE Lane(a) = "red"
  <2>1. Advice(a) = "reject_recommended"
    BY <1>4 DEF Advice
  <2> QED BY <1>4, <2>1 DEF FollowsAdvice, Decision, AutoEligible, Tier1, Tier2
<1>5. CASE Lane(a) = "yellow"
  <2>1. Advice(a) = "human_review_required"
    BY <1>5 DEF Advice
  <2> QED BY <1>1, <1>3, <1>5, <2>1 DEF FollowsAdvice, Decision, AutoEligible, Tier1, Tier2
<1>6. CASE Lane(a) = "green"
  <2>1. a.kind # "business"
    BY <1>6, GreenIsClean DEF IsClean
  <2>2. CASE a.asked <= AutoMax
    <3>1. Advice(a) = "auto_approve_eligible"
      BY <1>6, <2>2 DEF Advice
    <3> QED BY <1>1, <1>6, <2>1, <2>2, <3>1 DEF FollowsAdvice, Decision, AutoEligible, Tier2
  <2>3. CASE ~(a.asked <= AutoMax)
    <3>1. Advice(a) = "human_approval_required"
      BY <1>6, <2>3 DEF Advice
    <3> QED BY <1>1, <1>3, <1>6, <2>1, <2>3, <3>1
            DEF FollowsAdvice, Decision, AutoEligible, Tier1, Tier2
  <2> QED BY <2>2, <2>3
<1> QED BY <1>2, <1>4, <1>5, <1>6

\* The gate makes of its advice what FollowsAdvice says, and of the snapshot what
\* it says, in every state of the runs' behaviours.
THEOREM DecisionAlwaysMatchesAdvice == Spec => []DecisionMatchesAdvice
<1>1. CaseOK => DecisionMatchesAdvice
  <2> SUFFICES ASSUME CaseOK PROVE DecisionMatchesAdvice
    OBVIOUS
  <2>1. Thresholds \subseteq Nat
    BY DEF Thresholds
  <2>2. ASSUME case.what = "application" PROVE case \in Application
    BY <2>2, CaseIs, CasesAreApplications
  <2>3. ASSUME case.what = "table"
        PROVE  /\ case.action \in Actions /\ case.amount \in Amounts
               /\ case.lane \in Lanes /\ case.threshold \in Nat
    <3>1. case \in Table
      BY <2>3, CaseIs
    <3>2. case.action \in Actions /\ case.amount \in 0 .. 12 \cup {NoAmount}
          /\ case.lane \in Lanes /\ case.threshold \in Thresholds
      BY <3>1 DEF Table
    <3>3. 0 .. 12 \cup {NoAmount} \subseteq Amounts
      BY DEF Amounts
    <3> QED BY <2>1, <3>2, <3>3
  <2> QED BY <2>1, <2>2, <2>3, GreenIsClean, GateFollowsAdvice, GateAgreesWithSnapshot
          DEF DecisionMatchesAdvice
<1> QED BY <1>1, CaseStays, PTL

-------------------------------------------------------------------------------
(* The desk                                                                  *)

\* What the tables of a desk hold: every id once, a conversation in a group of
\* its own bank or in none, a request of a conversation of its own bank, and no
\* group that is called by the name in question.
DeskRows(desk, name) ==
    /\ \A c, e \in desk.convs : c.id = e.id => c = e
    /\ \A g, h \in desk.groups : g.id = h.id => g = h
    /\ \A a, b \in desk.approvals : a.id = b.id => a = b
    /\ \A c \in desk.convs : c.group # 0 =>
          \E g \in desk.groups : g.id = c.group /\ g.tenant = c.tenant
    /\ \A a \in desk.approvals : \E c \in desk.convs : c.id = a.conv /\ c.tenant = a.tenant
    /\ \A g \in desk.groups : g.title # name

LEMMA GroupsAgree ==
  ASSUME NEW desk, NEW name, DeskRows(desk, name), NEW N, NEW T, NEW G, NEW I,
         desk.convs \in SUBSET [id : I, owner : N, tenant : T, group : G], 0 \in G,
         NEW who, NEW g \in desk.groups
  PROVE  LET usable == ListGroups(desk.groups, who)
             mine   == ListConversations(desk.convs, who)
             left   == DeleteGroupRows(desk.groups, desk.convs, g.id, who)
         IN  /\ g \in usable <=> CanUseGroup(desk.groups, g.id, who)
             /\ g \in usable <=> UpdateGroup(desk.groups, g.id, who, name) = "renamed"
             /\ g \in usable <=> left.groups # desk.groups
             /\ \A c \in left.convs : c.group # 0 => \E h \in left.groups : h.id = c.group
             /\ ListConversations(left.convs, who) = mine
                \/ \E c \in mine : c.group = g.id
<1> DEFINE usable == ListGroups(desk.groups, who)
           mine   == ListConversations(desk.convs, who)
           left   == DeleteGroupRows(desk.groups, desk.convs, g.id, who)
           freed(c) == IF c.group = g.id /\ c.tenant = who.tenant THEN [c EXCEPT !.group = 0] ELSE c
<1>1. g \in usable <=> g.tenant = who.tenant /\ (IsAdmin(who) \/ g.owner = who.name)
  BY DEF ListGroups
<1>2. CanUseGroup(desk.groups, g.id, who)
         <=> g.tenant = who.tenant /\ (IsAdmin(who) \/ g.owner = who.name)
  BY DEF CanUseGroup, DeskRows
<1>3. UpdateGroup(desk.groups, g.id, who, name) = "renamed"
         <=> g.tenant = who.tenant /\ (IsAdmin(who) \/ g.owner = who.name)
  <2>1. {h \in {h \in desk.groups : h.id = g.id /\ h.tenant = who.tenant} :
            IsAdmin(who) \/ h.owner = who.name}
          = IF g.tenant = who.tenant /\ (IsAdmin(who) \/ g.owner = who.name) THEN {g} ELSE {}
    BY DEF DeskRows
  <2>2. \A h \in desk.groups : h.title # name
    BY DEF DeskRows
  <2> QED BY <2>1, <2>2 DEF UpdateGroup
<1>4. CASE g \notin usable
  <2>1. left.groups = desk.groups /\ left.convs = desk.convs
    BY <1>1, <1>2, <1>4 DEF DeleteGroupRows, CanUseGroup
  <2>2. \A c \in desk.convs : c.group # 0 => \E h \in desk.groups : h.id = c.group
    BY DEF DeskRows
  <2>3. ListConversations(left.convs, who) = mine
    BY <2>1
  <2>4. \A c \in left.convs : c.group # 0 => \E h \in left.groups : h.id = c.group
    BY <2>1, <2>2
  <2>5. left.groups = desk.groups
    BY <2>1
  <2> HIDE DEF left, usable, mine
  <2> QED BY <1>1, <1>2, <1>3, <1>4, <2>3, <2>4, <2>5 DEF left, usable, mine
<1>5. CASE g \in usable
  <2>1. /\ left.groups = {h \in desk.groups : h.id # g.id \/ h.tenant # who.tenant}
        /\ left.convs = {freed(c) : c \in desk.convs}
    BY <1>1, <1>2, <1>5 DEF DeleteGroupRows, CanUseGroup
  <2>2. g.tenant = who.tenant
    BY <1>1, <1>5
  <2>3. left.groups # desk.groups
    BY <2>1, <2>2
  <2>4. ASSUME NEW c \in desk.convs
        PROVE  /\ freed(c).id = c.id /\ freed(c).owner = c.owner /\ freed(c).tenant = c.tenant
               /\ freed(c).group = (IF c.group = g.id /\ c.tenant = who.tenant THEN 0 ELSE c.group)
               /\ ~(c.group = g.id /\ c.tenant = who.tenant) => freed(c) = c
    <3>1. c \in [id : I, owner : N, tenant : T, group : G]
      OBVIOUS
    <3> QED BY <3>1
  <2> HIDE DEF left, freed
  <2>5. ASSUME NEW e \in left.convs, e.group # 0 PROVE \E h \in left.groups : h.id = e.group
    <3>1. PICK c \in desk.convs : e = freed(c)
      BY <2>1
    <3>2. e.group = c.group /\ ~(c.group = g.id /\ c.tenant = who.tenant)
      BY <2>4, <2>5, <3>1
    <3>3. PICK h \in desk.groups : h.id = c.group /\ h.tenant = c.tenant
      BY <2>5, <3>2 DEF DeskRows
    <3>4. h \in left.groups
      BY <2>1, <3>2, <3>3
    <3> QED BY <3>2, <3>3, <3>4
  <2>6. ASSUME ~\E c \in mine : c.group = g.id
        PROVE  ListConversations(left.convs, who) = mine
    <3>1. \A c \in desk.convs : c \in mine <=> CanAccess(c, who)
      BY DEF ListConversations, ListAll, ListOwn, CanAccess
    <3>2. mine \subseteq desk.convs
      BY DEF ListConversations, ListAll, ListOwn
    <3>3. \A c \in left.convs : c \in ListConversations(left.convs, who) <=> CanAccess(c, who)
      BY DEF ListConversations, ListAll, ListOwn, CanAccess
    <3>4. ListConversations(left.convs, who) \subseteq left.convs
      BY DEF ListConversations, ListAll, ListOwn
    <3>5. \A c \in desk.convs : CanAccess(freed(c), who) <=> CanAccess(c, who)
      BY <2>4 DEF CanAccess
    <3>6. \A c \in desk.convs : CanAccess(c, who) => freed(c) = c
      BY <2>4, <2>6, <3>1
    <3>7. ASSUME NEW e \in ListConversations(left.convs, who) PROVE e \in mine
      <4>1. PICK c \in desk.convs : e = freed(c)
        BY <2>1, <3>4, <3>7
      <4> QED BY <3>1, <3>3, <3>4, <3>5, <3>6, <3>7, <4>1
    <3>8. ASSUME NEW c \in mine PROVE c \in ListConversations(left.convs, who)
      <4>1. c \in desk.convs /\ CanAccess(c, who)
        BY <3>1, <3>2, <3>8
      <4>2. freed(c) = c /\ freed(c) \in left.convs
        BY <2>1, <3>6, <4>1
      <4> QED BY <3>3, <4>1, <4>2
    <3> QED BY <3>7, <3>8
  <2> QED BY <1>1, <1>2, <1>3, <1>5, <2>3, <2>5, <2>6 DEF left
<1> QED BY <1>4, <1>5

\* The lists, the single reads and the changes agree on what belongs to whom:
\* for every token, every set of users and every desk whose rows hang together.
THEOREM ListsAgreeForAll ==
  ASSUME NEW desk, NEW name, DeskRows(desk, name), NEW N, NEW R, NEW T, NEW G, NEW I,
         desk.convs \in SUBSET [id : I, owner : N, tenant : T, group : G], 0 \in G,
         NEW users, NEW token \in [name : N, role : R, tenant : T \cup {NoTenant}],
         TenantOf(token, users) \in T \cup {NoTenant}
  PROVE  AgreeFor(token, users, desk, name)
<1> DEFINE who     == Who(token, users)
           mine    == ListConversations(desk.convs, who)
           usable  == ListGroups(desk.groups, who)
           waiting == ListPending(desk.approvals, who)
           told    == Notifications(desk.approvals, desk.convs, who)
<1>0. ASSUME NEW g \in desk.groups
      PROVE  LET left == DeleteGroupRows(desk.groups, desk.convs, g.id, who)
             IN  /\ g \in usable <=> CanUseGroup(desk.groups, g.id, who)
                 /\ g \in usable <=> UpdateGroup(desk.groups, g.id, who, name) = "renamed"
                 /\ g \in usable <=> left.groups # desk.groups
                 /\ \A c \in left.convs : c.group # 0 => \E h \in left.groups : h.id = c.group
                 /\ ListConversations(left.convs, who) = mine
                    \/ \E c \in mine : c.group = g.id
  <2> HIDE DEF who
  <2> QED BY GroupsAgree
<1> SUFFICES ASSUME Admitted(who)
             PROVE  /\ mine = {c \in desk.convs : CanAccess(c, who)}
                    /\ \A a \in told : \E c \in mine : c.id = a.conv
                    /\ \A a \in desk.approvals :
                          LET read == GetApproval(desk.approvals, a.id, who)
                          IN /\ a \in waiting => a \in read
                             /\ DecideAnswer(desk.approvals, a.id, who) =
                                   IF a \in waiting THEN 200 ELSE IF a \in read THEN 409 ELSE 404
                             /\ IsAdmin(who) /\ a \in read => \E c \in mine : c.id = a.conv
                    /\ \A x \in mine \cup usable \cup waiting \cup told : x.tenant = who.tenant
                    /\ Who([token EXCEPT !.tenant = who.tenant], users) = who
  BY <1>0 DEF AgreeFor
<1>1. who = [token EXCEPT !.tenant = TenantOf(token, users)] /\ who.tenant = TenantOf(token, users)
  BY DEF Who
<1>2. who.tenant # NoTenant
  BY DEF Admitted
<1>3. Who([token EXCEPT !.tenant = who.tenant], users) = who
  <2>1. [token EXCEPT !.tenant = who.tenant] = who
    BY <1>1
  <2>2. TenantOf(who, users) = who.tenant
    BY <1>2 DEF TenantOf
  <2>3. [who EXCEPT !.tenant = who.tenant] = who
    BY <1>1
  <2> HIDE DEF who
  <2> QED BY <2>1, <2>2, <2>3 DEF Who
<1> HIDE DEF who
<1>4. mine = {c \in desk.convs : CanAccess(c, who)}
  BY DEF ListConversations, ListAll, ListOwn, CanAccess
<1>5. \A a \in told : \E c \in mine : c.id = a.conv
  BY <1>4 DEF Notifications, CanAccess
<1>6. ASSUME NEW a \in desk.approvals
      PROVE  LET read == GetApproval(desk.approvals, a.id, who)
             IN /\ a \in waiting => a \in read
                /\ DecideAnswer(desk.approvals, a.id, who) =
                      IF a \in waiting THEN 200 ELSE IF a \in read THEN 409 ELSE 404
                /\ IsAdmin(who) /\ a \in read => \E c \in mine : c.id = a.conv
  <2> DEFINE read == GetApproval(desk.approvals, a.id, who)
  <2>1. a \in read <=> a.tenant = who.tenant
    BY DEF GetApproval
  <2>2. a \in waiting <=> a.status = "pending" /\ a.tenant = who.tenant
    BY DEF ListPending
  <2>3. Exists(desk.approvals, a.id, who) <=> a.tenant = who.tenant
    BY DEF Exists, DeskRows
  <2>4. (\E b \in desk.approvals : b.id = a.id /\ b.tenant = who.tenant /\ b.status = "pending")
           <=> a.status = "pending" /\ a.tenant = who.tenant
    BY DEF DeskRows
  <2>5. DecideAnswer(desk.approvals, a.id, who) =
           IF a \in waiting THEN 200 ELSE IF a \in read THEN 409 ELSE 404
    BY <2>1, <2>2, <2>3, <2>4 DEF DecideAnswer
  <2>6. IsAdmin(who) /\ a \in read => \E c \in mine : c.id = a.conv
    BY <1>4, <2>1 DEF DeskRows, CanAccess
  <2> QED BY <2>1, <2>2, <2>5, <2>6
<1>7. ASSUME NEW x \in mine \cup usable \cup waiting \cup told PROVE x.tenant = who.tenant
  <2>1. CASE x \in mine
    BY <1>4, <2>1 DEF CanAccess
  <2>2. CASE x \in usable
    BY <2>2 DEF ListGroups
  <2>3. CASE x \in waiting
    BY <2>3 DEF ListPending
  <2>4. CASE x \in told
    <3>1. x \in desk.approvals
      BY <2>4 DEF Notifications
    <3>2. PICK c \in desk.convs : c.id = x.conv /\ c.owner = who.name /\ c.tenant = who.tenant
      BY <2>4 DEF Notifications
    <3>3. PICK e \in desk.convs : e.id = x.conv /\ e.tenant = x.tenant
      BY <3>1 DEF DeskRows
    <3> QED BY <3>2, <3>3 DEF DeskRows
  <2> QED BY <2>1, <2>2, <2>3, <2>4
<1> HIDE DEF mine, usable, waiting, told
<1> QED BY <1>3, <1>4, <1>5, <1>6, <1>7

\* Lists, single reads and changes agree at every desk of the runs, whatever
\* the banks are called.
THEOREM ListsAlwaysAgree == Spec => []ListsAgree
<1>1. ASSUME CaseOK, case.what = "desk", NEW token \in RealTokens
      PROVE  AgreeFor(token, Users, case, "C")
  <2> DEFINE T == {DefaultTenant, OtherTenant}
             N == {"ann", "boss", "zoe", "gone"}
             R == {"admin", "user"}
             I == {1, 2}
             G == {0, 1}
  <2>1. \A u \in Users : u \in [name : N, tenant : T]
    BY DEF Users
  <2>2. token \in [name : N, role : R, tenant : T \cup {NoTenant}]
    BY <2>1 DEF RealTokens, Tokens
  <2>3. TenantOf(token, Users) \in T \cup {NoTenant}
    <3>1. CASE token.tenant # NoTenant
      BY <2>2, <3>1 DEF TenantOf
    <3>2. CASE token.tenant = NoTenant /\ \E u \in Users : u.name = token.name
      <4>1. (CHOOSE u \in Users : u.name = token.name) \in Users
        BY <3>2
      <4> QED BY <2>1, <3>2, <4>1 DEF TenantOf
    <3>3. CASE token.tenant = NoTenant /\ ~\E u \in Users : u.name = token.name
      BY <3>3 DEF TenantOf
    <3> QED BY <3>1, <3>2, <3>3
  <2>4. PICK u \in Users, v \in Users, w \in Users, g \in {0, 1},
             s \in {"pending", "used", "exec_failed"}, q \in {"pending", "rejected"} :
             case = [what |-> "desk", convs |-> ConvsOf(u, v, g), groups |-> GroupsOf(u, w),
                     approvals |-> ApprovalsOf(u, v, s, q)]
    <3>1. case \in Desks
      BY <1>1, CaseIs
    <3> QED BY <3>1 DEF Desks
  <2>5. /\ case.convs = ConvsOf(u, v, g) /\ case.groups = GroupsOf(u, w)
        /\ case.approvals = ApprovalsOf(u, v, s, q)
    BY <2>4
  <2>6. u \in [name : N, tenant : T] /\ v \in [name : N, tenant : T]
    BY <2>1
  <2>7. case.convs \in SUBSET [id : I, owner : N, tenant : T, group : G]
    BY <2>5, <2>6 DEF ConvsOf
  <2>8. DeskRows(case, "C")
    <3>1. \A c, e \in case.convs : c.id = e.id => c = e
      BY <2>5 DEF ConvsOf
    <3>2. \A h, k \in case.groups : h.id = k.id => h = k
      BY <2>5 DEF GroupsOf
    <3>3. \A a, b \in case.approvals : a.id = b.id => a = b
      BY <2>5 DEF ApprovalsOf
    <3>4. \A c \in case.convs : c.group # 0 =>
             \E h \in case.groups : h.id = c.group /\ h.tenant = c.tenant
      BY <2>5 DEF ConvsOf, GroupsOf
    <3>5. \A a \in case.approvals : \E c \in case.convs : c.id = a.conv /\ c.tenant = a.tenant
      BY <2>5 DEF ConvsOf, ApprovalsOf
    <3>6. \A h \in case.groups : h.title # "C"
      BY <2>5 DEF GroupsOf
    <3> QED BY <3>1, <3>2, <3>3, <3>4, <3>5, <3>6 DEF DeskRows
  <2>9. 0 \in G
    OBVIOUS
  <2> HIDE DEF T, N, R, I, G
  <2> QED BY <2>2, <2>3, <2>7, <2>8, <2>9, ListsAgreeForAll
<1>2. CaseOK => ListsAgree
  BY <1>1 DEF ListsAgree
<1> QED BY <1>2, CaseStays, PTL

\* A set of natural numbers that is not empty has a least one.
LEMMA LeastOf ==
  ASSUME NEW T \in SUBSET Nat, T # {}
  PROVE  \E n \in T : \A m \in T : ~(m < n)
<1> DEFINE R == OpToRel(<, Nat)
<1> HIDE DEF R
<1>1. IsWellFoundedOn(R, Nat)
  BY NatLessThanWellFounded DEF R
<1>2. PICK n \in T : \A m \in T : ~(<<m, n>> \in R)
  BY <1>1, WFMin
<1> QED BY <1>2 DEF R, OpToRel

\* The rows of a set with a key above another's.
RowsAbove(some, key, r) == {s \in some : key[s] > key[r]}

\* A finite set of rows with numbers for keys has one of the highest key.
LEMMA LastRow ==
  ASSUME NEW some, IsFiniteSet(some), some # {}, NEW key, \A r \in some : key[r] \in Int
  PROVE  \E r \in some : \A s \in some : key[s] <= key[r]
<1> DEFINE S == {RowsAbove(some, key, r) : r \in some}
<1>1. S \in SUBSET SUBSET some /\ S # {}
  BY DEF RowsAbove
<1>2. PICK l \in S : \A t \in S : ~(Cardinality(t) < Cardinality(l))
  <2> HIDE DEF S
  <2> QED BY <1>1, SmallestOf
<1>3. PICK r \in some : l = RowsAbove(some, key, r)
  OBVIOUS
<1>4. ASSUME NEW t \in l PROVE FALSE
  <2>1. t \in some /\ key[t] > key[r]
    BY <1>3 DEF RowsAbove
  <2>2. RowsAbove(some, key, t) \subseteq l \ {t}
    BY <1>3, <2>1 DEF RowsAbove
  <2>3. RowsAbove(some, key, t) \in S
    BY <2>1
  <2>4. l \subseteq some
    BY <1>3 DEF RowsAbove
  <2>5. IsFiniteSet(l) /\ Cardinality(l) \in Nat
    BY <2>4, FS_Subset, FS_CardinalityType
  <2>6. Cardinality(l \ {t}) = Cardinality(l) - 1 /\ IsFiniteSet(l \ {t})
    BY <2>5, FS_RemoveElement
  <2>7. /\ Cardinality(RowsAbove(some, key, t)) <= Cardinality(l \ {t})
        /\ Cardinality(RowsAbove(some, key, t)) \in Nat
    BY <2>2, <2>6, FS_Subset, FS_CardinalityType
  <2> HIDE DEF S
  <2> QED BY <1>2, <2>3, <2>5, <2>6, <2>7
<1> QED BY <1>3, <1>4 DEF RowsAbove

\* A part of a finite set that has as many members is the whole of it.
LEMMA FullPart ==
  ASSUME NEW some, IsFiniteSet(some), NEW part \in SUBSET some
  PROVE  /\ IsFiniteSet(part) /\ Cardinality(part) \in Nat /\ Cardinality(some) \in Nat
         /\ Cardinality(part) <= Cardinality(some)
         /\ part # some => Cardinality(part) < Cardinality(some)
BY FS_Subset, FS_CardinalityType

\* However many rows one asks for, there is a cut of them ...
LEMMA CutsExist ==
  ASSUME NEW some, IsFiniteSet(some), NEW key, \A r \in some : key[r] \in Int, NEW limit \in Nat
  PROVE  Cuts(some, limit, key) # {}
<1> DEFINE T == {n \in Nat : Cuts(some, n, key) = {}}
<1>1. SUFFICES ASSUME T # {} PROVE FALSE
  OBVIOUS
<1>2. PICK n \in T : \A m \in T : ~(m < n)
  <2>1. T \in SUBSET Nat
    OBVIOUS
  <2> HIDE DEF T
  <2> QED BY <1>1, <2>1, LeastOf
<1>3. {} \in Cuts(some, 0, key)
  BY FS_EmptySet DEF Cuts
<1>4. n # 0
  BY <1>3
<1>5. n - 1 \in Nat /\ n - 1 \notin T
  BY <1>2, <1>4
<1>6. PICK p \in Cuts(some, n - 1, key) : TRUE
  BY <1>5
<1>7. /\ p \in SUBSET some /\ Cardinality(p) <= n - 1
      /\ p = some \/ Cardinality(p) = n - 1
      /\ \A r \in p, s \in some \ p : key[s] <= key[r]
  BY <1>6 DEF Cuts
<1>8. CASE p = some
  <2>1. Cardinality(p) \in Nat
    BY <1>7, FullPart
  <2>2. p \in Cuts(some, n, key)
    BY <1>7, <1>8, <2>1 DEF Cuts
  <2> QED BY <2>2
<1>9. CASE p # some
  <2>1. IsFiniteSet(some \ p) /\ some \ p # {} /\ IsFiniteSet(p)
    BY <1>7, <1>9, FS_Subset
  <2>2. PICK t \in some \ p : \A s \in some \ p : key[s] <= key[t]
    BY <2>1, LastRow
  <2>3. Cardinality(p \cup {t}) = n
    <3>1. t \notin p /\ Cardinality(p) = n - 1
      BY <1>7, <1>9, <2>2
    <3>2. Cardinality(p \cup {t}) = Cardinality(p) + 1
      BY <2>1, <3>1, FS_AddElement
    <3> QED BY <3>1, <3>2
  <2>4. p \cup {t} \in Cuts(some, n, key)
    BY <1>7, <2>2, <2>3 DEF Cuts
  <2> QED BY <2>4
<1> QED BY <1>8, <1>9

\* ... and where one asks for as many as there are, it is all of them.
LEMMA CutOfFew ==
  ASSUME NEW some, IsFiniteSet(some), NEW key, NEW limit \in Nat, Cardinality(some) <= limit
  PROVE  Cuts(some, limit, key) = {some}
<1>1. ASSUME NEW p \in Cuts(some, limit, key) PROVE p = some
  BY FullPart DEF Cuts
<1>2. some \in Cuts(some, limit, key)
  BY DEF Cuts
<1> QED BY <1>1, <1>2

\* The links of other systems, the bank's own applications and the queries.
LinkRow(names) == [id : Nat, at : Nat, text : Int, tenant : {NoTenant, DefaultTenant, OtherTenant},
                   status : names, source : names]
OwnRow(names)  == [id : Nat, at : Nat, text : Int, dated : BOOLEAN, status : names]
Query(names)   == [tenant : {DefaultTenant, OtherTenant}, source : names, status : names,
                   limit : Nat \ {0}]

\* A page of a list that was cut by one key and then, with rows added, by
\* another: it is full or holds everything, and what is newer than a row on it
\* is missing only where a missing row no older reads no later.
LEMMA CutTwice ==
  ASSUME NEW mine, NEW own, IsFiniteSet(mine), IsFiniteSet(own), NEW n \in Nat,
         \A r \in mine \cup own : r.at \in Int /\ r.text \in Int,
         NEW external \in Cuts(mine, n, ByTime(mine)), NEW page \in Merged(external, own, n)
  PROVE  /\ page \subseteq mine \cup own /\ (page = mine \cup own \/ Cardinality(page) = n)
         /\ \A r \in page, s \in (mine \cup own) \ page :
               s.at <= r.at \/ \E e \in (mine \cup own) \ page : s.at <= e.at /\ e.text <= r.text
<1> DEFINE some == external \cup own
<1>1. /\ external \in SUBSET mine /\ (external = mine \/ Cardinality(external) = n)
      /\ \A r \in external, s \in mine \ external : s.at <= r.at
  BY DEF Cuts, ByTime
<1>2. /\ page \in SUBSET some /\ Cardinality(page) <= n /\ (page = some \/ Cardinality(page) = n)
      /\ \A r \in page, s \in some \ page : s.text <= r.text
  BY DEF Merged, Cuts, ByText
<1>3. IsFiniteSet(external) /\ IsFiniteSet(some) /\ IsFiniteSet(page)
  <2>1. IsFiniteSet(external)
    BY <1>1, FS_Subset
  <2>2. IsFiniteSet(some)
    BY <2>1, FS_Union
  <2> QED BY <1>2, <2>1, <2>2, FS_Subset
<1> HIDE DEF some
<1>4. external \subseteq page => external = mine \/ (page = external /\ Cardinality(page) = n)
  <2> SUFFICES ASSUME external \subseteq page, external # mine
               PROVE  page = external /\ Cardinality(page) = n
    OBVIOUS
  <2>1. Cardinality(external) = n /\ Cardinality(page) <= n
    BY <1>1, <1>2
  <2>2. external # page => Cardinality(external) < Cardinality(page)
    BY <1>3, FullPart
  <2>3. Cardinality(page) \in Nat
    BY <1>3, FS_CardinalityType
  <2> QED BY <2>1, <2>2, <2>3
<1>5. page \subseteq mine \cup own
  <2>1. some \subseteq mine \cup own
    BY <1>1 DEF some
  <2> QED BY <1>2, <2>1
<1>6. page = mine \cup own \/ Cardinality(page) = n
  BY <1>2, <1>4 DEF some
<1>7. ASSUME NEW r \in page, NEW s \in (mine \cup own) \ page, ~(s.at <= r.at)
      PROVE  \E e \in (mine \cup own) \ page : s.at <= e.at /\ e.text <= r.text
  <2>1. CASE s \in some
    <3>1. s.text <= r.text
      BY <1>2, <2>1
    <3>2. s.at <= s.at
      OBVIOUS
    <3> QED BY <3>1, <3>2
  <2>2. CASE s \notin some
    <3>1. s \in mine \ external
      BY <2>2 DEF some
    <3>2. ~(external \subseteq page)
      <4> SUFFICES ASSUME external \subseteq page PROVE FALSE
        OBVIOUS
      <4>1. page = external
        BY <1>4, <3>1
      <4> QED BY <1>1, <1>7, <3>1, <4>1
    <3>3. PICK e \in external : e \notin page
      BY <3>2
    <3>4. e \in some \ page /\ e \in mine
      BY <1>1, <3>3 DEF some
    <3>5. s.at <= e.at
      BY <1>1, <3>1
    <3>6. e.text <= r.text
      BY <1>2, <3>4
    <3> QED BY <3>4, <3>5, <3>6
  <2> QED BY <2>1, <2>2
<1> QED BY <1>5, <1>6, <1>7

\* A page of the list of cases is full or holds all that the query finds; it
\* passes over a row newer than one it shows only where a missing row, no older
\* than the one passed over, has a text no later than the one shown; and every
\* link on it can be opened (list_cases, get_case): for any rows, whatever the
\* offsets of their texts, any query and any limit.
THEOREM PageIsAlwaysCurrent ==
  ASSUME NEW names, NEW links \in SUBSET LinkRow(names),
         NEW applications \in SUBSET OwnRow(names),
         IsFiniteSet(links), IsFiniteSet(applications),
         \A e, f \in links : e.id = f.id => e = f,
         \A e \in links, a \in applications : e.id # a.id,
         NEW q \in Query(names), NEW many \in Nat, Cardinality(links) + Cardinality(applications) <= many
  PROVE  PageIsCurrent(links, applications, q, many)
<1> DEFINE mine  == Matching(links, q)
           own   == Legacy(applications, q)
           wide  == [q EXCEPT !.limit = many]
           brief == [a \in applications |-> LegacySummary(a)]
<1>1. /\ wide.tenant = q.tenant /\ wide.source = q.source /\ wide.status = q.status
      /\ wide.limit = many /\ q.limit \in Nat
  BY DEF Query
<1>2. ASSUME NEW a \in applications
      PROVE  /\ LegacySummary(a).id = a.id
             /\ LegacySummary(a).at \in Int /\ LegacySummary(a).text \in Int
  BY DEF LegacySummary, OwnRow, Epoch
<1>3. own \subseteq {LegacySummary(a) : a \in applications}
  BY DEF Legacy
<1>4. /\ IsFiniteSet({LegacySummary(a) : a \in applications})
      /\ Cardinality({LegacySummary(a) : a \in applications}) <= Cardinality(applications)
      /\ Cardinality({LegacySummary(a) : a \in applications}) \in Nat
  <2> DEFINE all == {LegacySummary(a) : a \in applications}
  <2>1. brief \in Surjection(applications, all)
    BY DEF Surjection
  <2> HIDE DEF all, brief
  <2>2. IsFiniteSet(all) /\ Cardinality(all) <= Cardinality(applications)
    BY <2>1, FS_Surjection
  <2> QED BY <2>2, FS_CardinalityType DEF all
<1>5. IsFiniteSet(own) /\ Cardinality(own) \in Nat /\ Cardinality(own) <= Cardinality(applications)
  <2>1. /\ IsFiniteSet(own) /\ Cardinality(own) \in Nat
        /\ Cardinality(own) <= Cardinality({LegacySummary(a) : a \in applications})
    BY <1>3, <1>4, FS_Subset, FS_CardinalityType
  <2>2. Cardinality(applications) \in Nat
    BY FS_CardinalityType
  <2> QED BY <1>4, <2>1, <2>2
<1>6. /\ mine \subseteq links /\ \A e \in mine : e.tenant = q.tenant
  BY DEF Matching
<1>7. \A r \in mine \cup own : r.at \in Int /\ r.text \in Int
  BY <1>2, <1>3, <1>6 DEF LinkRow
<1>8. Legacy(applications, wide) = own /\ Matching(links, wide) = mine
  BY <1>1 DEF Legacy, Matching
<1> HIDE DEF own, mine, wide, brief
<1>9. IsFiniteSet(mine) /\ Cardinality(mine) \in Nat /\ Cardinality(mine) <= Cardinality(links)
  BY <1>6, FS_Subset, FS_CardinalityType
<1>10. Cardinality(mine) <= many /\ Cardinality(mine \cup own) <= many /\ IsFiniteSet(mine \cup own)
  <2>1. Cardinality(links) \in Nat /\ Cardinality(applications) \in Nat
    BY FS_CardinalityType
  <2>2. /\ IsFiniteSet(mine \cup own)
        /\ Cardinality(mine \cup own) = Cardinality(mine) + Cardinality(own) - Cardinality(mine \cap own)
    BY <1>5, <1>9, FS_Union
  <2>3. Cardinality(mine \cap own) \in Nat /\ Cardinality(mine \cup own) \in Nat
    BY <1>5, <1>9, <2>2, FS_Intersection, FS_CardinalityType
  <2>4. Cardinality(mine \cup own) <= Cardinality(mine) + Cardinality(own)
    BY <1>5, <1>9, <2>2, <2>3
  <2> QED BY <1>5, <1>9, <2>1, <2>2, <2>3, <2>4
<1>11. ListCases(links, applications, wide) = {mine \cup own}
  <2>1. External(links, wide) = {mine}
    BY <1>1, <1>8, <1>9, <1>10, CutOfFew DEF External
  <2>2. Merged(mine, own, many) = {mine \cup own}
    BY <1>10, CutOfFew DEF Merged
  <2> QED BY <1>1, <1>8, <2>1, <2>2 DEF ListCases
<1>12. UNION ListCases(links, applications, wide) = mine \cup own
  BY <1>11
<1>13. External(links, q) = Cuts(mine, q.limit, ByTime(mine))
  BY DEF External, mine
<1>14. ListCases(links, applications, q) # {}
  <2>1. \A r \in mine : ByTime(mine)[r] \in Int
    BY <1>7 DEF ByTime
  <2>2. PICK e \in External(links, q) : TRUE
    BY <1>1, <1>9, <1>13, <2>1, CutsExist
  <2>3. e \subseteq mine
    BY <1>13, <2>2 DEF Cuts
  <2>4. IsFiniteSet(e \cup own)
    BY <1>5, <1>9, <2>3, FS_Subset, FS_Union
  <2>5. \A r \in e \cup own : ByText(e \cup own)[r] \in Int
    BY <1>7, <2>3 DEF ByText
  <2>6. Merged(e, own, q.limit) # {}
    BY <1>1, <2>4, <2>5, CutsExist DEF Merged
  <2> QED BY <2>2, <2>6 DEF ListCases, own
<1>15. ASSUME NEW page \in ListCases(links, applications, q)
       PROVE  /\ page \subseteq mine \cup own /\ (page = mine \cup own \/ Cardinality(page) = q.limit)
              /\ \A r \in page, s \in (mine \cup own) \ page :
                    s.at <= r.at \/ \E e \in (mine \cup own) \ page : s.at <= e.at /\ e.text <= r.text
  <2>1. PICK e \in External(links, q) : page \in Merged(e, own, q.limit)
    BY DEF ListCases, own
  <2>2. e \in Cuts(mine, q.limit, ByTime(mine))
    BY <1>13, <2>1
  <2> QED BY <1>1, <1>5, <1>7, <1>9, <2>1, <2>2, CutTwice
<1>16. ASSUME NEW page \in ListCases(links, applications, q), NEW r \in page \cap links
       PROVE  GetCase(links, r.id, q.tenant) = {r}
  <2>1. r \in mine \cup own
    BY <1>15
  <2>2. r \notin own
    <3> SUFFICES ASSUME r \in own PROVE FALSE
      OBVIOUS
    <3>1. PICK a \in applications : r = LegacySummary(a)
      BY <1>3
    <3> QED BY <1>2, <1>16, <3>1
  <2> QED BY <1>6, <2>1, <2>2 DEF GetCase
<1> QED BY <1>12, <1>14, <1>15, <1>16 DEF PageIsCurrent, wide

\* The lane a manager is shown with a request is of the assessment the gate
\* judges it by, or of one with a higher number and an earlier date
\* (_ENRICH_SELECT, latest_verdict_for_action), where a request names what its
\* action is about and no customer has the number of a loan or application:
\* for any assessments, numbered and dated in whatever order.
THEOREM LaneIsAlwaysCurrent ==
  ASSUME NEW asked, NEW loans, NEW applications, NEW customers, NEW assessments, NEW tenant,
         asked.action \in {"disburse", "ops_disburse"},
         asked.action = "disburse" => asked.application = NoOwner,
         asked.action = "ops_disburse" => asked.loan = NoOwner,
         \A l \in loans : l.id # NoOwner,
         \A a \in applications : a.id # NoOwner,
         asked.loan \notin customers, asked.application \notin customers,
         IsFiniteSet(assessments), \A a \in assessments : a.id \in Nat /\ a.at \in Nat,
         \A a, b \in assessments : a.id = b.id => a = b
  PROVE  LaneIsCurrent(asked, loans, applications, customers, assessments, tenant)
<1>1. DisplayedOwner(asked, loans, applications, customers) = JudgedOwner(asked, loans, applications)
  <2>1. OwnerIn(loans, NoOwner) = NoOwner /\ OwnerIn(applications, NoOwner) = NoOwner
    BY DEF OwnerIn
  <2>2. Coalesce(asked.loan, asked.application) \notin customers
    BY DEF Coalesce
  <2>3. CASE asked.action = "disburse"
    <3>1. JudgedOwner(asked, loans, applications) = OwnerIn(loans, asked.loan)
      BY <2>3 DEF JudgedOwner
    <3>2. OwnerIn(applications, asked.application) = NoOwner
      BY <2>1, <2>3
    <3> QED BY <2>2, <3>1, <3>2 DEF DisplayedOwner, Coalesce
  <2>4. CASE asked.action = "ops_disburse"
    <3>1. JudgedOwner(asked, loans, applications) = OwnerIn(applications, asked.application)
      BY <2>4 DEF JudgedOwner
    <3>2. OwnerIn(loans, asked.loan) = NoOwner
      BY <2>1, <2>4
    <3> QED BY <2>2, <3>1, <3>2 DEF DisplayedOwner, Coalesce
  <2> QED BY <2>3, <2>4
<1> DEFINE mine == Assessed(assessments, JudgedOwner(asked, loans, applications), tenant)
<1> DEFINE shown   == Last(mine, {p \in mine \X mine : p[1].id < p[2].id})
           judging == Last(mine, {p \in mine \X mine :
                                     p[1].at < p[2].at \/ (p[1].at = p[2].at /\ p[1].id < p[2].id)})
<1>2. /\ Displayed(asked, loans, applications, customers, assessments, tenant) = shown
      /\ JudgedBy(asked, loans, applications, assessments, tenant) = judging
  BY <1>1 DEF Displayed, JudgedBy
<1>3. /\ IsFiniteSet(mine) /\ \A r \in mine : r.id \in Nat /\ r.at \in Nat
      /\ \A r, o \in mine : r.id = o.id => r = o
  <2>1. mine \subseteq assessments
    BY DEF Assessed
  <2> QED BY <2>1, FS_Subset
<1> HIDE DEF mine
<1>4. /\ \A d \in shown : d \in mine /\ \A o \in mine \ {d} : o.id < d.id
      /\ \A d \in mine : (\A o \in mine \ {d} : o.id < d.id) => d \in shown
  BY DEF Last
<1>5. /\ \A j \in judging : j \in mine /\ \A o \in mine \ {j} : o.at < j.at \/ (o.at = j.at /\ o.id < j.id)
      /\ \A j \in mine : (\A o \in mine \ {j} : o.at < j.at \/ (o.at = j.at /\ o.id < j.id))
                         => j \in judging
  BY DEF Last
<1> HIDE DEF shown, judging
<1>6. ASSUME mine # {} PROVE shown # {} /\ judging # {}
  <2> DEFINE number == [r \in mine |-> r.id]
             date   == [r \in mine |-> r.at]
  <2>1. PICK d \in mine : \A o \in mine : number[o] <= number[d]
    <3>1. \A r \in mine : number[r] \in Int
      BY <1>3
    <3> HIDE DEF number
    <3> QED BY <1>3, <1>6, <3>1, LastRow
  <2>2. \A o \in mine \ {d} : o.id < d.id
    BY <1>3, <2>1
  <2>3. PICK m \in mine : \A o \in mine : date[o] <= date[m]
    <3>1. \A r \in mine : date[r] \in Int
      BY <1>3
    <3> HIDE DEF date
    <3> QED BY <1>3, <1>6, <3>1, LastRow
  <2> DEFINE late == {r \in mine : r.at = m.at}
  <2>4. PICK l \in late : \A o \in late : number[o] <= number[l]
    <3>1. late # {} /\ IsFiniteSet(late) /\ \A r \in late : number[r] \in Int
      BY <1>3, FS_Subset
    <3> HIDE DEF late, number
    <3> QED BY <3>1, LastRow
  <2>5. \A o \in mine \ {l} : o.at < l.at \/ (o.at = l.at /\ o.id < l.id)
    <3> SUFFICES ASSUME NEW o \in mine, o # l PROVE o.at < l.at \/ (o.at = l.at /\ o.id < l.id)
      OBVIOUS
    <3>1. l \in mine /\ l.at = m.at /\ o.at <= m.at
      BY <2>3, <2>4
    <3>2. o.at = m.at => o.id <= l.id
      BY <2>4
    <3>3. o.id # l.id
      BY <1>3, <3>1
    <3> QED BY <1>3, <3>1, <3>2, <3>3
  <2> QED BY <1>4, <1>5, <2>2, <2>4, <2>5
<1>7. ASSUME NEW d \in shown, NEW j \in judging PROVE d = j \/ (j.id < d.id /\ d.at < j.at)
  <2> SUFFICES ASSUME d # j PROVE j.id < d.id /\ d.at < j.at
    OBVIOUS
  <2>1. d \in mine /\ j \in mine /\ j.id < d.id
    BY <1>4, <1>5
  <2>2. d.at < j.at \/ (d.at = j.at /\ d.id < j.id)
    BY <1>5, <2>1
  <2> QED BY <1>3, <2>1, <2>2
<1>8. shown = {} <=> judging = {}
  <2>1. mine = {} => shown = {} /\ judging = {}
    BY <1>4, <1>5
  <2> QED BY <1>6, <2>1
<1> QED BY <1>2, <1>7, <1>8 DEF LaneIsCurrent

LEMMA OneMore ==
  ASSUME NEW S, IsFiniteSet(S), NEW x, NEW k \in Nat, Cardinality(S) <= k
  PROVE  IsFiniteSet(S \cup {x}) /\ Cardinality(S \cup {x}) <= k + 1
<1>1. /\ IsFiniteSet(S \cup {x})
      /\ Cardinality(S \cup {x}) = Cardinality(S) \/ Cardinality(S \cup {x}) = Cardinality(S) + 1
  BY FS_AddElement
<1>2. Cardinality(S) \in Nat
  BY FS_CardinalityType
<1> QED BY <1>1, <1>2

\* What the desks of the runs show is as current as DeskIsCurrent says (list_cases,
\* get_case, _ENRICH_SELECT, latest_verdict_for_action), whatever the banks are called.
THEOREM DeskIsAlwaysCurrent == Spec => []DeskIsCurrent
<1>1. ASSUME CaseOK, case.what = "cases", NEW t \in {DefaultTenant, OtherTenant},
             NEW source \in {AnySource, "core", "internal_operations"},
             NEW status \in {AnyStatus, "received", "ready_for_handover", "needs_specialist"}
      PROVE  PageIsCurrent(case.links, case.applications,
                 [tenant |-> t, source |-> source, status |-> status, limit |-> case.limit], 6)
  <2>0. PICK n \in 1 .. 3, l \in LinkSets, o \in OwnSets :
             case = [what |-> "cases", limit |-> n, links |-> l, applications |-> o]
    <3>1. case \in CaseLists
      BY <1>1, CaseIs
    <3> QED BY <3>1 DEF CaseLists
  <2>1. PICK t1 \in {DefaultTenant, OtherTenant}, t2 \in {DefaultTenant, OtherTenant},
             s1 \in {"received", "ready_for_handover"}, s2 \in {"received", "ready_for_handover"},
             s3 \in {"received", "needs_specialist"}, ahead \in {0, 1, 4} :
             l = LinksOf(t1, t2, s1, s2, s3, ahead)
    BY DEF LinkSets
  <2>12. PICK p1 \in {"disbursed", "reviewing"}, p2 \in {"disbursed", "rejected"}, dated \in BOOLEAN :
             o = OwnOf(p1, p2, dated)
    BY DEF OwnSets
  <2>2. case.links = LinksOf(t1, t2, s1, s2, s3, ahead)
        /\ case.applications = OwnOf(p1, p2, dated) /\ case.limit = n
    BY <2>0, <2>1, <2>12
  <2> DEFINE names == {AnySource, "core", "portal", "internal_operations", "received",
                       "ready_for_handover", "needs_specialist", "disbursed", "reviewing", "rejected"}
             q == [tenant |-> t, source |-> source, status |-> status, limit |-> case.limit]
             l1 == Link(1, 1, t1, s1, ahead)
             l2 == Link(2, 3, t2, s2, ahead)
             l3 == Link(3, 5, OtherTenant, s3, ahead)
             l4 == Link(4, 6, t1, s3, ahead)
             a1 == [id |-> 5, at |-> 2, text |-> 2, dated |-> TRUE, status |-> p1]
             a2 == [id |-> 6, at |-> 4, text |-> 3, dated |-> dated, status |-> p2]
  <2>3. q \in Query(names)
    BY <2>2 DEF Query, AnySource, AnyStatus
  <2>4. l1 \in LinkRow(names) /\ l2 \in LinkRow(names) /\ l3 \in LinkRow(names) /\ l4 \in LinkRow(names)
    BY DEF LinkRow, Link
  <2>5. l1.id = 1 /\ l2.id = 2 /\ l3.id = 3 /\ l4.id = 4
    BY DEF Link
  <2>6. a1 \in OwnRow(names) /\ a2 \in OwnRow(names) /\ a1.id = 5 /\ a2.id = 6
    BY DEF OwnRow
  <2>7. case.links = {l1, l2, l3, l4} /\ case.applications = {a1, a2}
    BY <2>2 DEF LinksOf, OwnOf
  <2> HIDE DEF names, q, l1, l2, l3, l4, a1, a2
  <2>8. /\ IsFiniteSet(case.links) /\ Cardinality(case.links) <= 4 /\ Cardinality(case.links) \in Nat
        /\ IsFiniteSet(case.applications) /\ Cardinality(case.applications) <= 2
        /\ Cardinality(case.applications) \in Nat
    <3>1. IsFiniteSet({l1}) /\ Cardinality({l1}) <= 1 /\ IsFiniteSet({a1}) /\ Cardinality({a1}) <= 1
      <4>1. \A x : IsFiniteSet({x}) /\ Cardinality({x}) = 1
        BY FS_Singleton
      <4>2. Cardinality({l1}) = 1 /\ Cardinality({a1}) = 1 /\ IsFiniteSet({l1}) /\ IsFiniteSet({a1})
        BY <4>1
      <4> QED BY <4>2
    <3>2. {l1, l2} = {l1} \cup {l2} /\ {l1, l2, l3} = {l1, l2} \cup {l3}
          /\ {l1, l2, l3, l4} = {l1, l2, l3} \cup {l4} /\ {a1, a2} = {a1} \cup {a2}
      OBVIOUS
    <3>3. IsFiniteSet({l1, l2}) /\ Cardinality({l1, l2}) <= 2
      <4>1. IsFiniteSet({l1} \cup {l2}) /\ Cardinality({l1} \cup {l2}) <= 1 + 1
        BY <3>1, OneMore
      <4> QED BY <3>2, <4>1
    <3>4. IsFiniteSet({l1, l2, l3}) /\ Cardinality({l1, l2, l3}) <= 3
      <4>1. IsFiniteSet({l1, l2} \cup {l3}) /\ Cardinality({l1, l2} \cup {l3}) <= 2 + 1
        BY <3>3, OneMore
      <4> QED BY <3>2, <4>1
    <3>5. IsFiniteSet({l1, l2, l3, l4}) /\ Cardinality({l1, l2, l3, l4}) <= 4
      <4>1. IsFiniteSet({l1, l2, l3} \cup {l4}) /\ Cardinality({l1, l2, l3} \cup {l4}) <= 3 + 1
        BY <3>4, OneMore
      <4> QED BY <3>2, <4>1
    <3>6. IsFiniteSet({a1, a2}) /\ Cardinality({a1, a2}) <= 2
      <4>1. IsFiniteSet({a1} \cup {a2}) /\ Cardinality({a1} \cup {a2}) <= 1 + 1
        BY <3>1, OneMore
      <4> QED BY <3>2, <4>1
    <3> QED BY <2>7, <3>5, <3>6, FS_CardinalityType
  <2>9. /\ \A e, f \in case.links : e.id = f.id => e = f
        /\ \A e \in case.links, a \in case.applications : e.id # a.id
        /\ case.links \in SUBSET LinkRow(names) /\ case.applications \in SUBSET OwnRow(names)
    BY <2>4, <2>5, <2>6, <2>7
  <2>10. Cardinality(case.links) + Cardinality(case.applications) <= 6 /\ 6 \in Nat
    BY <2>8
  <2>11. PageIsCurrent(case.links, case.applications, q, 6)
    BY <2>3, <2>8, <2>9, <2>10, PageIsAlwaysCurrent
  <2> QED BY <2>11 DEF q
<1>2. ASSUME CaseOK, case.what = "lane", NEW t \in {DefaultTenant, OtherTenant}
      PROVE  LaneIsCurrent(case.asked, ToyLoans, ToyApplications, {7, 8}, case.assessments, t)
  <2>1. PICK a \in Asked, x \in Assessments(1), y \in Assessments(2) :
             case = [what |-> "lane", asked |-> a, assessments |-> {x, y}]
    <3>1. case \in Judged
      BY <1>2, CaseIs
    <3> QED BY <3>1 DEF Judged
  <2>2. case.asked = a /\ case.assessments = {x, y}
    BY <2>1
  <2>3. /\ a.action \in {"disburse", "ops_disburse"}
        /\ a.action = "disburse" => a.application = 0
        /\ a.action = "ops_disburse" => a.loan = 0
        /\ a.loan \notin {7, 8} /\ a.application \notin {7, 8}
    BY DEF Asked
  <2>4. /\ \A l \in ToyLoans : l.id # 0
        /\ \A b \in ToyApplications : b.id # 0
    BY DEF ToyLoans, ToyApplications
  <2>5. x.id = 1 /\ y.id = 2 /\ x.at \in Nat /\ y.at \in Nat
    BY DEF Assessments
  <2>6. /\ \A b \in {x, y} : b.id \in Nat /\ b.at \in Nat
        /\ \A b, c \in {x, y} : b.id = c.id => b = c
    BY <2>5
  <2>7. LaneIsCurrent(a, ToyLoans, ToyApplications, {7, 8}, {x, y}, t)
    <3> HIDE DEF ToyLoans, ToyApplications
    <3>1. IsFiniteSet({x, y})
      <4>1. IsFiniteSet({x}) /\ {x, y} = {x} \cup {y}
        BY FS_Singleton
      <4> QED BY <4>1, FS_AddElement
    <3> QED BY <2>3, <2>4, <2>6, <3>1, LaneIsAlwaysCurrent DEF NoOwner
  <2> QED BY <2>2, <2>7
<1>3. CaseOK => DeskIsCurrent
  BY <1>1, <1>2 DEF DeskIsCurrent
<1> QED BY <1>3, CaseStays, PTL

-------------------------------------------------------------------------------
(* Powers: the functions from n places to b values, counted                  *)

Words(b, n) == [1 .. n -> 1 .. b]

\* A word is its last letter and the rest.
LEMMA WordsAreLonger ==
  ASSUME NEW b \in Nat, NEW n \in Nat \ {0}
  PROVE  ExistsBijection((1 .. b) \X Words(b, n - 1), Words(b, n))
<1> DEFINE S == (1 .. b) \X Words(b, n - 1)
           join == [p \in S |-> [i \in 1 .. n |-> IF i = n THEN p[1] ELSE p[2][i]]]
<1>1. \A i \in 1 .. n : i # n => i \in 1 .. (n - 1)
  OBVIOUS
<1>1a. \A i \in 1 .. (n - 1) : i \in 1 .. n /\ i # n
  OBVIOUS
<1>2. ASSUME NEW p \in S PROVE join[p] \in Words(b, n)
  <2>1. p[1] \in 1 .. b /\ p[2] \in [1 .. (n - 1) -> 1 .. b]
    BY DEF Words
  <2>2. \A i \in 1 .. n : (IF i = n THEN p[1] ELSE p[2][i]) \in 1 .. b
    BY <1>1, <2>1
  <2> QED BY <2>2 DEF Words
<1>3. ASSUME NEW p \in S, NEW q \in S, join[p] = join[q] PROVE p = q
  <2>1. /\ p[2] \in [1 .. (n - 1) -> 1 .. b] /\ q[2] \in [1 .. (n - 1) -> 1 .. b]
        /\ p = <<p[1], p[2]>> /\ q = <<q[1], q[2]>>
    BY DEF Words
  <2>2. n \in 1 .. n /\ join[p][n] = p[1] /\ join[q][n] = q[1]
    OBVIOUS
  <2>3. ASSUME NEW i \in 1 .. (n - 1) PROVE p[2][i] = q[2][i]
    <3>1. i \in 1 .. n /\ i # n
      BY <1>1a
    <3>2. join[p][i] = p[2][i] /\ join[q][i] = q[2][i]
      BY <3>1
    <3> QED BY <1>3, <3>2
  <2>4. p[2] = q[2]
    BY <2>1, <2>3
  <2> QED BY <1>3, <2>1, <2>2, <2>4
<1>4. ASSUME NEW w \in Words(b, n) PROVE \E p \in S : join[p] = w
  <2> DEFINE p == <<w[n], [i \in 1 .. (n - 1) |-> w[i]]>>
  <2>1. w \in [1 .. n -> 1 .. b] /\ n \in 1 .. n
    BY DEF Words
  <2>2. w[n] \in 1 .. b /\ \A i \in 1 .. (n - 1) : w[i] \in 1 .. b
    BY <1>1a, <2>1
  <2>3. p \in S
    BY <2>2 DEF Words
  <2>4. \A i \in 1 .. n : join[p][i] = w[i]
    BY <1>1, <2>3
  <2>5. join[p] \in [1 .. n -> 1 .. b]
    BY <1>2, <2>3 DEF Words
  <2> HIDE DEF join, p, S
  <2>6. join[p] = w
    BY <2>1, <2>4, <2>5
  <2> QED BY <2>3, <2>6
<1>5. join \in Bijection(S, Words(b, n))
  <2>1. join \in [S -> Words(b, n)]
    BY <1>2
  <2>0. \A p, q \in S : join[p] = join[q] => p = q
    BY <1>3
  <2> HIDE DEF join, S
  <2>2. join \in Injection(S, Words(b, n))
    BY <2>0, <2>1 DEF Injection, IsInjective
  <2>3. join \in Surjection(S, Words(b, n))
    BY <1>4, <2>1 DEF Surjection
  <2> QED BY <2>2, <2>3 DEF Bijection
<1> QED BY <1>5 DEF ExistsBijection

LEMMA WordsAreFinite ==
  ASSUME NEW b \in Nat, NEW n \in Nat
  PROVE  IsFiniteSet(Words(b, n))
<1> DEFINE T == {m \in Nat : ~IsFiniteSet(Words(b, m))}
<1> SUFFICES ASSUME n \in T PROVE FALSE
  OBVIOUS
<1>1. PICK m \in T : \A k \in T : ~(k < m)
  <2>1. T \in SUBSET Nat /\ T # {}
    OBVIOUS
  <2> HIDE DEF T
  <2> QED BY <2>1, LeastOf
<1>2. CASE m = 0
  <2>1. Words(b, m) \subseteq {[i \in {} |-> 0]}
    <3>1. 1 .. m = {}
      BY <1>2
    <3> QED BY <3>1 DEF Words
  <2>2. IsFiniteSet({[i \in {} |-> 0]})
    BY FS_Singleton
  <2> QED BY <2>1, <2>2, FS_Subset, <1>1
<1>3. CASE m # 0
  <2>1. m - 1 \in Nat /\ m - 1 < m
    BY <1>1, <1>3
  <2>2. IsFiniteSet(Words(b, m - 1))
    BY <1>1, <2>1
  <2>3. IsFiniteSet(1 .. b)
    BY FS_Interval
  <2>4. IsFiniteSet((1 .. b) \X Words(b, m - 1))
    BY <2>2, <2>3, FS_Product
  <2>5. m \in Nat \ {0}
    BY <1>1, <1>3
  <2>6. IsFiniteSet(Words(b, m))
    BY <2>4, <2>5, WordsAreLonger, FS_Bijection
  <2> QED BY <1>1, <2>6
<1> QED BY <1>2, <1>3

LEMMA WordsMultiply ==
  ASSUME NEW b \in Nat, NEW n \in Nat
  PROVE  Cardinality(Words(b, n)) = IF n = 0 THEN 1 ELSE b * Cardinality(Words(b, n - 1))
<1>1. CASE n = 0
  <2>1. 1 .. n = {}
    BY <1>1
  <2>2. Words(b, n) = {[i \in {} |-> 0]}
    BY <2>1 DEF Words
  <2> QED BY <1>1, <2>2, FS_Singleton
<1>2. CASE n # 0
  <2>1. n \in Nat \ {0} /\ n - 1 \in Nat
    BY <1>2
  <2>2. IsFiniteSet(1 .. b) /\ Cardinality(1 .. b) = b
    BY FS_Interval
  <2>3. IsFiniteSet(Words(b, n - 1))
    BY <2>1, WordsAreFinite
  <2>4. /\ IsFiniteSet((1 .. b) \X Words(b, n - 1))
        /\ Cardinality((1 .. b) \X Words(b, n - 1)) = b * Cardinality(Words(b, n - 1))
    BY <2>2, <2>3, FS_Product
  <2>5. Cardinality(Words(b, n)) = Cardinality((1 .. b) \X Words(b, n - 1))
    BY <2>1, <2>4, WordsAreLonger, FS_Bijection
  <2> QED BY <1>2, <2>4, <2>5
<1> QED BY <1>1, <1>2

\* b to the power n, as the code's ** computes it, is the number of words.
LEMMA PowerIs ==
  ASSUME NEW b \in Nat, NEW n \in Nat
  PROVE  Power(b, n) = Cardinality(Words(b, n))
<1> DEFINE P == [i \in 0 .. n |-> Cardinality(Words(b, i))]
           Step(f) == [i \in 0 .. n |-> IF i = 0 THEN 1 ELSE b * f[i - 1]]
           R == CHOOSE f : f = Step(f)
<1>1. \A i \in 0 .. n : i \in Nat /\ (i # 0 => i - 1 \in 0 .. n /\ i - 1 < i)
  OBVIOUS
<1>2. P = Step(P)
  <2>1. ASSUME NEW i \in 0 .. n
        PROVE  P[i] = IF i = 0 THEN 1 ELSE b * P[i - 1]
    <3>1. P[i] = Cardinality(Words(b, i)) /\ (i # 0 => P[i - 1] = Cardinality(Words(b, i - 1)))
      BY <1>1
    <3> QED BY <1>1, <3>1, WordsMultiply
  <2> QED BY <2>1
<1>3. R = Step(R)
  <2> HIDE DEF P, Step
  <2> QED BY <1>2
<1>4. Power(b, n) = R[n]
  BY DEF Power
<1> HIDE DEF R
<1>5. \A i \in 0 .. n : R[i] = IF i = 0 THEN 1 ELSE b * R[i - 1]
  BY <1>3
<1> DEFINE T == {i \in 0 .. n : R[i] # Cardinality(Words(b, i))}
<1> SUFFICES ASSUME n \in T PROVE FALSE
  BY <1>4
<1>6. PICK m \in T : \A k \in T : ~(k < m)
  <2>1. T \in SUBSET Nat /\ T # {}
    OBVIOUS
  <2> HIDE DEF T
  <2> QED BY <2>1, LeastOf
<1>7. R[m] = Cardinality(Words(b, m))
  <2>1. m \in 0 .. n /\ m \in Nat
    BY <1>6
  <2>2. CASE m = 0
    BY <1>5, <2>1, <2>2, WordsMultiply
  <2>3. CASE m # 0
    <3>1. m - 1 \in 0 .. n /\ m - 1 < m
      BY <1>1, <2>1, <2>3
    <3>2. R[m - 1] = Cardinality(Words(b, m - 1))
      BY <1>6, <3>1
    <3> QED BY <1>5, <2>1, <2>3, <3>2, WordsMultiply
  <2> QED BY <2>2, <2>3
<1> QED BY <1>6, <1>7

LEMMA PowersGrow ==
  ASSUME NEW b \in Nat, NEW n \in Nat \ {0}
  PROVE  Power(b, n) \in Nat /\ Power(b + 1, n) \in Nat /\ Power(b, n) < Power(b + 1, n)
<1>1. b + 1 \in Nat /\ n \in Nat /\ 1 \in 1 .. n /\ b + 1 \in 1 .. (b + 1) /\ b + 1 \notin 1 .. b
  OBVIOUS
<1>2. Words(b, n) \subseteq Words(b + 1, n)
  BY DEF Words
<1>3. [i \in 1 .. n |-> b + 1] \in Words(b + 1, n)
  BY <1>1 DEF Words
<1>4. [i \in 1 .. n |-> b + 1] \notin Words(b, n)
  <2> SUFFICES ASSUME [i \in 1 .. n |-> b + 1] \in [1 .. n -> 1 .. b] PROVE FALSE
    BY DEF Words
  <2>1. [i \in 1 .. n |-> b + 1][1] \in 1 .. b
    BY <1>1
  <2> QED BY <1>1, <2>1
<1>5. IsFiniteSet(Words(b + 1, n)) /\ IsFiniteSet(Words(b, n))
  BY <1>1, WordsAreFinite
<1>6. Cardinality(Words(b + 1, n)) \in Nat /\ Cardinality(Words(b, n)) \in Nat
  BY <1>5, FS_CardinalityType
<1>7. /\ Cardinality(Words(b, n)) <= Cardinality(Words(b + 1, n))
      /\ Cardinality(Words(b + 1, n)) # Cardinality(Words(b, n))
  BY <1>2, <1>3, <1>4, <1>5, FS_Subset
<1>8. Power(b, n) = Cardinality(Words(b, n)) /\ Power(b + 1, n) = Cardinality(Words(b + 1, n))
  BY <1>1, PowerIs
<1> QED BY <1>6, <1>7, <1>8

-------------------------------------------------------------------------------
(* Quotients                                                                 *)

LEMMA QuotientIs ==
  ASSUME NEW n \in Nat, NEW d \in Nat \ {0}
  PROVE  n \div d \in Nat /\ d * (n \div d) <= n /\ n < d * (n \div d) + d
<1>0. n \in Nat /\ d \in Nat /\ d > 0
  OBVIOUS
<1>1. n \div d \in Int /\ n % d \in 0 .. (d - 1)
  BY ONLY <1>0
<1>2. n = d * (n \div d) + (n % d)
  BY ONLY <1>0
<1>3. d * (n \div d) \in Int
  BY <1>1
<1> QED BY ONLY <1>0, <1>1, <1>2, <1>3

LEMMA ProductsGrow ==
  ASSUME NEW a \in Nat, NEW b \in Nat, NEW c \in Nat, a <= b
  PROVE  /\ c * a \in Nat /\ c * b \in Nat /\ a * c \in Nat /\ b * c \in Nat
         /\ c * a <= c * b /\ a * c <= b * c
OBVIOUS

\* Dividing more by less gives more.
LEMMA QuotientsGrow ==
  ASSUME NEW m \in Nat, NEW n \in Nat, NEW d \in Nat \ {0}, NEW e \in Nat \ {0}, m <= n, e <= d
  PROVE  m \div d <= n \div e
<1> DEFINE q == m \div d
           r == n \div e
<1>1. q \in Nat /\ d * q <= m
  BY QuotientIs
<1>2. r \in Nat /\ n < e * r + e
  BY QuotientIs
<1> HIDE DEF q, r
<1> SUFFICES ASSUME q > r PROVE FALSE
  BY <1>1, <1>2 DEF q, r
<1>3. r + 1 \in Nat /\ r + 1 <= q
  BY <1>1, <1>2
<1>4. e * (r + 1) = e * r + e
  BY <1>2
<1>5. e * (r + 1) <= e * q /\ e * q <= d * q
  BY <1>1, <1>3, ProductsGrow
<1>6. e * (r + 1) \in Nat /\ e * q \in Nat /\ d * q \in Nat
  BY <1>1, <1>3
<1> QED BY <1>1, <1>2, <1>4, <1>5, <1>6

\* A ratio, rounded to the nearest, as well.
LEMMA ThousandthsGrow ==
  ASSUME NEW m \in Nat, NEW n \in Nat, NEW d \in Nat \ {0}, NEW e \in Nat \ {0}, m <= n, e <= d
  PROVE  Thousandths(m, d) \in Nat /\ Thousandths(m, d) <= Thousandths(n, e)
<1> DEFINE q == (2000 * m + d) \div (2 * d)
           r == (2000 * n + e) \div (2 * e)
<1>1. 2 * d \in Nat \ {0} /\ 2 * e \in Nat \ {0} /\ 2000 * m + d \in Nat /\ 2000 * n + e \in Nat
  OBVIOUS
<1>0. \A x \in Nat, y \in Nat \ {0} : x \div y \in Nat /\ y * (x \div y) <= x /\ x < y * (x \div y) + y
  BY QuotientIs
<1>2. q \in Nat /\ (2 * d) * q <= 2000 * m + d
  BY ONLY <1>0, <1>1
<1>3. r \in Nat /\ 2000 * n + e < (2 * e) * r + 2 * e
  <2> DEFINE x == 2000 * n + e
             y == 2 * e
  <2>1. x \in Nat /\ y \in Nat \ {0} /\ r = x \div y
    BY <1>1
  <2> HIDE DEF x, y, r
  <2>2. r \in Nat /\ x < y * r + y
    BY ONLY <1>0, <2>1
  <2> QED BY ONLY <2>2 DEF x, y
<1>4. Thousandths(m, d) = q /\ Thousandths(n, e) = r
  BY DEF Thousandths
<1> HIDE DEF q, r
<1>5. q <= r
  <2> SUFFICES ASSUME q > r PROVE FALSE
    BY <1>2, <1>3
  <2>1. d * q \in Nat /\ e * q \in Nat /\ e * r \in Nat /\ (2 * d) * q = 2 * (d * q) /\ (2 * e) * r = 2 * (e * r)
    BY <1>2, <1>3
  <2>2. e * (r + 1) <= e * q /\ e * (r + 1) = e * r + e
    BY <1>2, <1>3, ProductsGrow
  <2>3. PICK f \in Nat : d = e + f
    <3>1. d - e \in Nat /\ d = e + (d - e)
      OBVIOUS
    <3> QED BY <3>1
  <2>4. d * q = e * q + f * q /\ f * q \in Nat /\ f <= f * q
    <3>1. q >= 1
      BY <1>2, <1>3
    <3>2. f * 1 <= f * q
      BY <1>2, <3>1, ProductsGrow
    <3> QED BY <1>2, <2>3, <3>2
  <2> QED BY <1>2, <1>3, <2>1, <2>2, <2>3, <2>4
<1> QED BY <1>2, <1>4, <1>5

LEMMA AnnuitiesGrow ==
  ASSUME NEW p \in Nat, NEW q \in Nat, p <= q, NEW k \in Nat, NEW n \in Nat \ {0}
  PROVE  Annuity(p, k, n) \in Nat /\ Annuity(p, k, n) <= Annuity(q, k, n)
<1>1. CASE k = 0
  <2>1. p \div n <= q \div n /\ p \div n \in Nat
    BY QuotientsGrow, QuotientIs
  <2> QED BY <1>1, <2>1 DEF Annuity
<1>2. CASE k # 0
  <2> DEFINE up == Power(k + 1, n)
             low == Power(k, n)
  <2>1. up \in Nat /\ low \in Nat /\ low < up
    BY PowersGrow
  <2>2. /\ Annuity(p, k, n) = (p * up) \div (k * (up - low))
        /\ Annuity(q, k, n) = (q * up) \div (k * (up - low))
    BY <1>2 DEF Annuity
  <2> HIDE DEF up, low
  <2>3. up - low \in Nat \ {0}
    BY <2>1
  <2>4. k * (up - low) \in Nat \ {0}
    BY <1>2, <2>3
  <2>5. p * up \in Nat /\ q * up \in Nat /\ p * up <= q * up
    BY <2>1, ProductsGrow
  <2>6. (p * up) \div (k * (up - low)) <= (q * up) \div (k * (up - low))
    BY <2>4, <2>5, QuotientsGrow
  <2>7. (p * up) \div (k * (up - low)) \in Nat
    BY <2>4, <2>5, QuotientIs
  <2> QED BY <2>2, <2>6, <2>7
<1> QED BY <1>1, <1>2

-------------------------------------------------------------------------------
(* Facts that are there and that nobody would call better                    *)

NoBetterCic(g, h)        == g = h \/ h = 1 \/ g = 3
NoBetterValue(m, n)      == m = n \/ (0 < m /\ m <= n)
NoBetterCollateral(c, d) == c = d \/ c = "foreign"
NoBetterDocs(d, e)       == d = e \/ e = "nothing" \/ d = "mandatory"
NoBetterPurpose(u, v)    == u = v \/ u = "banned" \/ v \in {"none", "not_restricted"}
NoBetterJob(e, f)        == e = f \/ e = NoRecord \/ (e # NoRecord /\ e.status = "expired")
NoBetterPolice(q, r)     ==
    \/ q = r
    \/ r = CleanPolice
    \/ q # NoRecord /\ CriminalLevel(q) = "red"
    \/ r # NoRecord /\ q = [r EXCEPT !.match = FALSE]

\* Application b is no better than a, in any number of facts: those the credit
\* expert looks at, and all of them.
NoBetterCredit(b, a) ==
    /\ b.kind = a.kind /\ b.type = a.type
    /\ b.income <= a.income /\ b.paying >= a.paying /\ b.asked >= a.asked
    /\ NoBetterCollateral(b.collateral, a.collateral)
    /\ NoBetterValue(b.value, a.value)
    /\ b.docs_status = a.docs_status \/ b.docs_status = "incomplete"
    /\ NoBetterCic(b.cic, a.cic)
NoBetter(b, a) ==
    /\ NoBetterCredit(b, a)
    /\ b.income = a.income
    /\ b.dispute = a.dispute \/ b.dispute = "disputed"
    /\ b.zoning = a.zoning \/ b.zoning = "planning_zone"
    /\ NoBetterDocs(b.docs, a.docs)
    /\ NoBetterPurpose(b.purpose, a.purpose)
    /\ NoBetterJob(b.employment, a.employment)
    /\ NoBetterPolice(b.police, a.police)

LEMMA ApplicationHas ==
  ASSUME NEW a \in Application
  PROVE  /\ a.kind \in OwnerKinds /\ a.income \in Nat /\ a.override = NoOverride
         /\ a.paying \in Nat /\ a.asked \in Nat /\ a.asked > 0 /\ a.type \in AskedTypes /\ a.term = 0
         /\ a.collateral \in CollateralKinds /\ a.value \in Nat /\ a.docs_status \in PaperStates
         /\ a.cic \in 0 .. 3 /\ AsAsked(a) = a
<1>1. a.asked \in Nat \ {0} /\ a.cic \in 0 .. 3 /\ a.override = NoOverride /\ a.term = 0
  BY DEF Application, AskedAmounts, CicGroups
<1>2. AsAsked(a) = a
  BY <1>1 DEF AsAsked, Application
<1> QED BY <1>1, <1>2 DEF Application

LEMMA CreditBounds ==
  /\ CicBlock \in Int /\ DscrMin \in Int /\ LtvMax \in Int /\ CustomerCap \in Int /\ BadDebt = 3
BY AssumptionsAreNumbers DEF CicBlock, DscrMin, LtvMax, CustomerCap, BadDebt

LEMMA RefusalIs ==
  ASSUME NEW a \in Application
  PROVE  /\ a.collateral = "foreign" <=> CreditRefusal(a) = "collateral_owner_mismatch"
         /\ CreditRefusal(a) = "ok" <=> a.collateral \in {"none", "own"}
<1>1. /\ a.override = NoOverride /\ a.asked > 0 /\ a.asked \in Nat /\ a.term = 0
      /\ a.type \in LoanTypes \cup {"none"} /\ a.kind # "none"
      /\ a.collateral \in {"none", "unknown", "foreign", "own"}
  BY ApplicationHas DEF AskedTypes, OwnerKinds, CollateralKinds
<1>2. ~(a.asked < 0 \/ a.term < 0)
  BY <1>1
<1> QED BY <1>1, <1>2 DEF CreditRefusal

\* What has to be paid every month grows with what is owed and asked for.
LEMMA PaymentsGrow ==
  ASSUME NEW a \in Application, NEW b \in Application, a.type = b.type, a.collateral = b.collateral,
         b.paying >= a.paying, b.asked >= a.asked
  PROVE  TotalPayment(a) \in Nat /\ TotalPayment(b) \in Nat /\ TotalPayment(a) <= TotalPayment(b)
<1> DEFINE type == EffectiveType(a)
           n    == Term(type)
           x    == Annuity(a.asked, Rates[type], n)
           y    == Annuity(b.asked, Rates[type], n)
<1>1. type \in LoanTypes /\ EffectiveType(b) = type
  BY DEF EffectiveType, LoanTypes
<1>2. n \in Nat \ {0} /\ Rates[type] \in Nat
  BY <1>1, LoanAssumption
<1>3. /\ a.asked \in Nat /\ b.asked \in Nat /\ a.paying \in Nat /\ b.paying \in Nat
      /\ a.asked > 0 /\ b.asked > 0 /\ a.term = 0 /\ b.term = 0
  BY ApplicationHas
<1> HIDE DEF type, n
<1>4. x \in Nat /\ y \in Nat /\ x <= y
  BY <1>2, <1>3, AnnuitiesGrow
<1>5. NewPayment(a) = x /\ NewPayment(b) = y
  BY <1>1, <1>3 DEF NewPayment, type, n
<1> HIDE DEF x, y
<1> QED BY <1>3, <1>4, <1>5 DEF TotalPayment

LEMMA ReasonsGrow ==
  ASSUME NEW a \in Application, NEW b \in Application, NoBetterCredit(b, a), a.collateral = b.collateral
  PROVE  CreditReasons(a) \subseteq CreditReasons(b)
<1>1. /\ a.asked \in Nat /\ b.asked \in Nat /\ a.asked > 0 /\ b.asked >= a.asked
      /\ a.income \in Nat /\ b.income \in Nat /\ b.income <= a.income
      /\ a.value \in Nat /\ b.value \in Nat /\ a.override = NoOverride /\ b.override = NoOverride
      /\ a.type = b.type /\ b.paying >= a.paying /\ a.cic \in 0 .. 3 /\ b.cic \in 0 .. 3
      /\ NoBetterValue(b.value, a.value) /\ NoBetterCic(b.cic, a.cic)
  BY ApplicationHas DEF NoBetterCredit
<1>2. DscrFails(a) => DscrFails(b)
  <2> SUFFICES ASSUME DscrFails(a) PROVE DscrFails(b)
    OBVIOUS
  <2>1. TotalPayment(a) \in Nat /\ TotalPayment(b) \in Nat /\ TotalPayment(a) <= TotalPayment(b)
    BY <1>1, PaymentsGrow
  <2>2. MonthlyIncome(a) = a.income /\ MonthlyIncome(b) = b.income
    BY <1>1 DEF MonthlyIncome
  <2>3. TotalPayment(a) > 0 /\ Thousandths(a.income, TotalPayment(a)) < DscrMin
    BY <2>2 DEF DscrFails
  <2>4. TotalPayment(a) \in Nat \ {0} /\ TotalPayment(b) \in Nat \ {0} /\ TotalPayment(b) > 0
    BY <2>1, <2>3
  <2>5. /\ Thousandths(b.income, TotalPayment(b)) \in Nat
        /\ Thousandths(b.income, TotalPayment(b)) <= Thousandths(a.income, TotalPayment(a))
        /\ Thousandths(a.income, TotalPayment(a)) \in Nat
    BY <1>1, <2>1, <2>4, ThousandthsGrow
  <2> QED BY <2>2, <2>3, <2>4, <2>5, CreditBounds DEF DscrFails
<1>3. LtvFails(a) => LtvFails(b)
  <2> SUFFICES ASSUME LtvFails(a) PROVE LtvFails(b)
    OBVIOUS
  <2>1. a.collateral = "own" /\ a.value > 0 /\ Thousandths(a.asked, a.value) > LtvMax
    BY DEF LtvFails
  <2>2. b.value > 0 /\ b.value <= a.value
    BY <1>1, <2>1 DEF NoBetterValue
  <2>3. a.value \in Nat \ {0} /\ b.value \in Nat \ {0}
    BY <1>1, <2>1, <2>2
  <2>4. /\ Thousandths(a.asked, a.value) \in Nat
        /\ Thousandths(a.asked, a.value) <= Thousandths(b.asked, b.value)
        /\ Thousandths(b.asked, b.value) \in Nat
    BY <1>1, <2>2, <2>3, ThousandthsGrow
  <2> QED BY <2>1, <2>2, <2>4, CreditBounds DEF LtvFails
<1>4. a.asked > CustomerCap => b.asked > CustomerCap
  BY <1>1, CreditBounds
<1>5. a.cic >= BadDebt => b.cic >= BadDebt
  BY <1>1, CreditBounds DEF NoBetterCic
<1>6. ~(a.asked <= 0) /\ ~(b.asked <= 0)
  BY <1>1
<1> QED BY <1>2, <1>3, <1>4, <1>5, <1>6 DEF CreditReasons, Flag

LEMMA MissingGrows ==
  ASSUME NEW a \in Application, NEW b \in Application, NoBetterCredit(b, a), a.collateral = b.collateral
  PROVE  CreditMissing(a) \subseteq CreditMissing(b)
<1>1. /\ a.asked \in Nat /\ b.asked \in Nat /\ a.asked > 0 /\ b.asked > 0
      /\ a.income \in Nat /\ b.income \in Nat /\ b.income <= a.income
      /\ a.override = NoOverride /\ b.override = NoOverride /\ a.type = b.type
      /\ b.docs_status = a.docs_status \/ b.docs_status = "incomplete"
  BY ApplicationHas DEF NoBetterCredit
<1>2. EffectiveType(a) = EffectiveType(b)
  BY <1>1 DEF EffectiveType
<1>3. MonthlyIncome(a) <= 0 => MonthlyIncome(b) <= 0
  BY <1>1 DEF MonthlyIncome
<1> QED BY <1>1, <1>2, <1>3 DEF CreditMissing, Flag

LEMMA VerdictIs ==
  ASSUME NEW a \in Application
  PROVE  /\ CreditVerdict(a) = "ineligible" <=> CreditReasons(a) # {}
         /\ CreditVerdict(a) = "eligible" <=> CreditReasons(a) = {} /\ CreditMissing(a) = {}
         /\ CreditVerdict(a) \in {"ineligible", "needs_info", "eligible"}
<1>1. a.asked > 0
  BY ApplicationHas
<1> QED BY <1>1 DEF CreditVerdict

\* No fact that is worse for the bank improves the credit verdict.
LEMMA CreditFalls ==
  ASSUME NEW a \in Application, NEW b \in Application, NoBetterCredit(b, a)
  PROVE  CreditRank(b) <= CreditRank(a)
<1>0. ASSUME NEW c \in Application
      PROVE  /\ CreditRank(c) \in 0 .. 2
             /\ CreditRank(c) = 2 <=> /\ c.collateral \in {"none", "own"}
                                      /\ CreditReasons(c) = {} /\ CreditMissing(c) = {}
             /\ CreditRank(c) = 0 <=> \/ c.collateral \notin {"none", "own"}
                                      \/ CreditReasons(c) # {}
  BY VerdictIs, RefusalIs DEF CreditRank, Rank
<1>1. CASE b.collateral \notin {"none", "own"}
  <2>1. CreditRank(b) = 0
    BY <1>0, <1>1
  <2> QED BY <1>0, <2>1
<1>2. CASE b.collateral \in {"none", "own"}
  <2>1. a.collateral = b.collateral
    BY <1>2 DEF NoBetterCredit, NoBetterCollateral
  <2>2. CreditReasons(a) \subseteq CreditReasons(b) /\ CreditMissing(a) \subseteq CreditMissing(b)
    BY <2>1, ReasonsGrow, MissingGrows
  <2>3. CreditRank(b) = 2 => CreditRank(a) = 2
    BY <1>0, <1>2, <2>1, <2>2
  <2>4. CreditRank(a) = 0 => CreditRank(b) = 0
    BY <1>0, <1>2, <2>1, <2>2
  <2> QED BY <1>0, <2>3, <2>4
<1> QED BY <1>1, <1>2

-------------------------------------------------------------------------------
(* The lane of an application that is worse                                  *)

\* What makes a lane red, and what keeps it from being green.
Blocks(a) ==
    \/ a.police # NoRecord /\ CriminalLevel(a.police) = "red"
    \/ a.cic # 0 /\ a.cic >= CicBlock
    \/ a.collateral = "foreign"
    \/ a.collateral = "own" /\ a.dispute = "disputed"
    \/ a.purpose = "banned"
    \/ CreditRank(a) = 0 /\ a.collateral \in {"none", "own"}
Delays(a) ==
    \/ a.police = NoRecord
    \/ a.police # NoRecord /\ (~a.police.match \/ CriminalLevel(a.police) # "pass")
    \/ a.cic \in {0, 2}
    \/ a.kind = "business" \/ a.employment = NoRecord \/ EmploymentFlags(a.income, a.employment) # {}
    \/ a.collateral = "unknown"
    \/ a.docs = "mandatory"
    \/ CollateralFlags(a) # {}
    \/ a.purpose = "conditional"
    \/ CreditRank(a) # 2

LEMMA LevelsOfBoth ==
  ASSUME NEW A, NEW B
  PROVE  LevelsOf(A \cup B) = LevelsOf(A) \cup LevelsOf(B)
BY DEF LevelsOf

LEMMA PoliceLevels ==
  ASSUME NEW a
  PROVE  /\ "red" \in LevelsOf(PoliceCriteria(a))
                <=> a.police # NoRecord /\ CriminalLevel(a.police) = "red"
         /\ "yellow" \in LevelsOf(PoliceCriteria(a)) \/ "red" \in LevelsOf(PoliceCriteria(a))
                <=> \/ a.police = NoRecord
                    \/ a.police # NoRecord /\ (~a.police.match \/ CriminalLevel(a.police) # "pass")
<1>1. CASE a.police = NoRecord
  <2>1. PoliceCriteria(a) = Criterion("identity", "yellow") \cup Criterion("criminal", "yellow")
    BY <1>1 DEF PoliceCriteria
  <2>2. /\ LevelsOf(Criterion("identity", "yellow")) = {"yellow"}
        /\ LevelsOf(Criterion("criminal", "yellow")) = {"yellow"}
    BY LevelOfOne
  <2>3. LevelsOf(PoliceCriteria(a)) = {"yellow"}
    BY <2>1, <2>2, LevelsOfBoth
  <2> QED BY <1>1, <2>3
<1>2. CASE a.police # NoRecord
  <2> DEFINE one == IF a.police.match THEN "pass" ELSE "yellow"
             two == CriminalLevel(a.police)
  <2>1. PoliceCriteria(a) = Criterion("identity", one) \cup Criterion("criminal", two)
    BY <1>2 DEF PoliceCriteria
  <2>2. one \in {"pass", "yellow"} /\ (one = "yellow" <=> ~a.police.match)
    OBVIOUS
  <2>3. two \in {"pass", "yellow", "red"}
    BY DEF CriminalLevel
  <2> HIDE DEF one, two
  <2>4. LevelsOf(PoliceCriteria(a)) = {one} \cup {two}
    <3>1. LevelsOf(Criterion("identity", one)) = {one} /\ LevelsOf(Criterion("criminal", two)) = {two}
      BY LevelOfOne
    <3> QED BY <2>1, <3>1, LevelsOfBoth
  <2>5. two = CriminalLevel(a.police)
    BY DEF two
  <2> QED BY <1>2, <2>2, <2>3, <2>4, <2>5
<1> QED BY <1>1, <1>2

LEMMA CicLevels ==
  ASSUME NEW a \in Application
  PROVE  /\ "red" \in LevelsOf(CicCriterion(a)) <=> a.cic # 0 /\ a.cic >= CicBlock
         /\ "yellow" \in LevelsOf(CicCriterion(a)) \/ "red" \in LevelsOf(CicCriterion(a))
                <=> a.cic \in {0, 2} \/ (a.cic # 0 /\ a.cic >= CicBlock)
<1>1. a.cic \in 0 .. 3 /\ CicBlock \in Int
  BY ApplicationHas, CreditBounds
<1>2. CASE a.cic = 0
  <2>1. CicCriterion(a) = Criterion("cic", "yellow")
    BY <1>2 DEF CicCriterion
  <2> QED BY <1>2, <2>1, LevelOfOne
<1>3. CASE a.cic # 0 /\ a.cic >= CicBlock
  <2>1. CicCriterion(a) = Criterion("cic", "red")
    BY <1>1, <1>3 DEF CicCriterion
  <2> QED BY <1>3, <2>1, LevelOfOne
<1>4. CASE a.cic # 0 /\ ~(a.cic >= CicBlock) /\ a.cic = 2
  <2>1. a.cic < CicBlock
    BY <1>1, <1>4
  <2>2. CicCriterion(a) = Criterion("cic", "yellow")
    BY <1>4, <2>1 DEF CicCriterion
  <2> QED BY <1>4, <2>2, LevelOfOne
<1>5. CASE a.cic # 0 /\ ~(a.cic >= CicBlock) /\ a.cic # 2
  <2>1. CicCriterion(a) = Criterion("cic", "pass")
    BY <1>5 DEF CicCriterion
  <2> QED BY <1>5, <2>1, LevelOfOne
<1> QED BY <1>2, <1>3, <1>4, <1>5

LEMMA EmploymentLevels ==
  ASSUME NEW a
  PROVE  /\ "red" \notin LevelsOf(EmploymentCriterion(a))
         /\ "yellow" \in LevelsOf(EmploymentCriterion(a))
                <=> \/ a.kind = "business" \/ a.employment = NoRecord
                    \/ EmploymentFlags(a.income, a.employment) # {}
<1> DEFINE doubt == \/ a.kind = "business"
                    \/ a.employment = NoRecord
                    \/ EmploymentFlags(a.income, a.employment) # {}
<1>1. EmploymentCriterion(a) = Criterion("employment", IF doubt THEN "yellow" ELSE "pass")
  BY DEF EmploymentCriterion
<1>2. LevelsOf(EmploymentCriterion(a)) = {IF doubt THEN "yellow" ELSE "pass"}
  BY <1>1, LevelOfOne
<1> QED BY <1>2

LEMMA DocsLevels ==
  ASSUME NEW a \in Application
  PROVE  /\ "red" \in LevelsOf(DocsCriterion(a))
                <=> a.collateral = "foreign" \/ (a.collateral = "own" /\ a.dispute = "disputed")
         /\ "yellow" \in LevelsOf(DocsCriterion(a)) \/ "red" \in LevelsOf(DocsCriterion(a))
                <=> \/ a.collateral \in {"foreign", "unknown"} \/ a.docs = "mandatory"
                    \/ CollateralFlags(a) # {}
<1>1. a.collateral # "own" => CollateralFlags(a) = {}
  BY DEF CollateralFlags
<1>2. "collateral_disputed" \in CollateralFlags(a) <=> a.collateral = "own" /\ a.dispute = "disputed"
  BY DEF CollateralFlags, Flag
<1>3. CASE a.collateral = "foreign"
  <2>1. DocsCriterion(a) = Criterion("collateral_ownership", "red")
    BY <1>3 DEF DocsCriterion
  <2> QED BY <1>3, <2>1, LevelOfOne
<1>4. CASE a.collateral = "unknown"
  <2>1. DocsCriterion(a) = Criterion("docs", "yellow")
    BY <1>4 DEF DocsCriterion
  <2> QED BY <1>1, <1>4, <2>1, LevelOfOne
<1>5. CASE a.collateral \notin {"foreign", "unknown"}
  <2> DEFINE level == CASE DocsVerdict(a) = "clear" -> "pass"
                        [] DocsVerdict(a) = "needs_docs" -> "yellow"
                        [] DocsVerdict(a) = "blocked" -> "red"
  <2>1. DocsCriterion(a) = Criterion("docs", level)
    BY <1>5 DEF DocsCriterion
  <2>2. LevelsOf(DocsCriterion(a)) = {level}
    <3> HIDE DEF level
    <3> QED BY <2>1, LevelOfOne
  <2>3. CASE "collateral_disputed" \in CollateralFlags(a)
    <3>1. DocsVerdict(a) = "blocked"
      BY <2>3 DEF DocsVerdict
    <3>2. level = "red"
      BY <3>1
    <3> QED BY <1>2, <2>2, <2>3, <3>2
  <2>4. CASE "collateral_disputed" \notin CollateralFlags(a)
              /\ (a.docs = "mandatory" \/ CollateralFlags(a) # {})
    <3>1. DocsVerdict(a) = "needs_docs"
      BY <2>4 DEF DocsVerdict
    <3>2. level = "yellow"
      BY <3>1
    <3> QED BY <1>2, <1>5, <2>2, <2>4, <3>2
  <2>5. CASE ~(a.docs = "mandatory" \/ CollateralFlags(a) # {})
    <3>1. DocsVerdict(a) = "clear"
      BY <2>5 DEF DocsVerdict
    <3>2. level = "pass"
      BY <3>1
    <3> QED BY <1>2, <1>5, <2>2, <2>5, <3>2
  <2> QED BY <2>3, <2>4, <2>5
<1> QED BY <1>3, <1>4, <1>5

LEMMA PurposeLevels ==
  ASSUME NEW a \in Application
  PROVE  /\ "red" \in LevelsOf(PurposeCriterion(a)) <=> a.purpose = "banned"
         /\ "yellow" \in LevelsOf(PurposeCriterion(a)) <=> a.purpose = "conditional"
<1>1. a.purpose \in {"none", "not_restricted", "conditional", "banned"}
  BY DEF Application, PurposeKinds
<1>2. CASE a.purpose = "none"
  <2>1. PurposeCriterion(a) = {}
    BY <1>2 DEF PurposeCriterion
  <2> QED BY <1>2, <2>1 DEF LevelsOf
<1>3. CASE a.purpose = "not_restricted"
  <2>1. PurposeCriterion(a) = Criterion("purpose", "pass")
    BY <1>3 DEF PurposeCriterion
  <2> QED BY <1>3, <2>1, LevelOfOne
<1>4. CASE a.purpose = "conditional"
  <2>1. PurposeCriterion(a) = Criterion("purpose", "yellow")
    BY <1>4 DEF PurposeCriterion
  <2> QED BY <1>4, <2>1, LevelOfOne
<1>5. CASE a.purpose = "banned"
  <2>1. PurposeCriterion(a) = Criterion("purpose", "red")
    BY <1>5 DEF PurposeCriterion
  <2> QED BY <1>5, <2>1, LevelOfOne
<1> QED BY <1>1, <1>2, <1>3, <1>4, <1>5

LEMMA CreditLevels ==
  ASSUME NEW a \in Application
  PROVE  /\ "red" \in LevelsOf(CreditCriterion(a))
                <=> a.collateral = "foreign" \/ (CreditRank(a) = 0 /\ a.collateral \in {"none", "own"})
         /\ "yellow" \in LevelsOf(CreditCriterion(a)) \/ "red" \in LevelsOf(CreditCriterion(a))
                <=> CreditRank(a) # 2
<1>1. AsAsked(a) = a /\ a.collateral \in {"none", "unknown", "foreign", "own"}
  BY ApplicationHas DEF CollateralKinds
<1>2. CASE a.collateral = "foreign"
  <2>1. CreditRefusal(a) = "collateral_owner_mismatch" /\ CreditRefusal(a) # "ok"
    BY <1>2, RefusalIs
  <2>2. CreditCriterion(a) = Criterion("collateral_ownership", "red")
    BY <1>1, <2>1 DEF CreditCriterion
  <2> QED BY <1>2, <2>1, <2>2, LevelOfOne DEF CreditRank
<1>3. CASE a.collateral = "unknown"
  <2>1. CreditRefusal(a) \notin {"ok", "collateral_owner_mismatch"}
    BY <1>3, RefusalIs
  <2>2. CreditCriterion(a) = Criterion("credit", "yellow")
    BY <1>1, <2>1 DEF CreditCriterion
  <2> QED BY <1>3, <2>1, <2>2, LevelOfOne DEF CreditRank
<1>4. CASE a.collateral \in {"none", "own"}
  <2>1. CreditRefusal(a) = "ok"
    BY <1>4, RefusalIs
  <2> DEFINE level == CASE CreditVerdict(a) = "eligible" -> "pass"
                        [] CreditVerdict(a) = "ineligible" -> "red"
                        [] OTHER -> "yellow"
  <2>2. CreditCriterion(a) = Criterion("credit", level)
    BY <1>1, <2>1 DEF CreditCriterion
  <2>3. LevelsOf(CreditCriterion(a)) = {level}
    <3> HIDE DEF level
    <3> QED BY <2>2, LevelOfOne
  <2>4. CreditRank(a) = Rank(CreditVerdict(a))
    BY <2>1 DEF CreditRank
  <2>5. CreditVerdict(a) \in {"ineligible", "needs_info", "eligible"}
    BY VerdictIs
  <2>6. CASE CreditVerdict(a) = "eligible"
    <3>1. level = "pass" /\ CreditRank(a) = 2
      BY <2>4, <2>6 DEF Rank
    <3> QED BY <1>4, <2>3, <3>1
  <2>7. CASE CreditVerdict(a) = "ineligible"
    <3>1. level = "red" /\ CreditRank(a) = 0
      BY <2>4, <2>7 DEF Rank
    <3> QED BY <1>4, <2>3, <3>1
  <2>8. CASE CreditVerdict(a) = "needs_info"
    <3>1. level = "yellow" /\ CreditRank(a) = 1
      BY <2>4, <2>8 DEF Rank
    <3> QED BY <1>4, <2>3, <3>1
  <2> QED BY <2>5, <2>6, <2>7, <2>8
<1> QED BY <1>1, <1>2, <1>3, <1>4

\* The lane, by the facts that decide it.
LEMMA LaneIs ==
  ASSUME NEW a \in Application
  PROVE  /\ "red" \in Levels(a) <=> Blocks(a)
         /\ "red" \in Levels(a) \/ "yellow" \in Levels(a) <=> Blocks(a) \/ Delays(a)
<1>1. "red" \in Levels(a) <=> Blocks(a)
  BY LevelsAre, PoliceLevels, CicLevels, EmploymentLevels, DocsLevels, PurposeLevels, CreditLevels
     DEF Blocks
<1>2. "red" \in Levels(a) \/ "yellow" \in Levels(a) <=> Blocks(a) \/ Delays(a)
  <2>1. a.collateral = "unknown" \/ a.collateral = "foreign" => Blocks(a) \/ Delays(a)
    BY DEF Blocks, Delays
  <2> QED BY <2>1, LevelsAre, PoliceLevels, CicLevels, EmploymentLevels, DocsLevels, PurposeLevels,
             CreditLevels DEF Blocks, Delays
<1> QED BY <1>1, <1>2

LEMMA RankOfLane ==
  ASSUME NEW a \in Application
  PROVE  /\ Rank(Lane(a)) \in 0 .. 2
         /\ Rank(Lane(a)) = 0 <=> Blocks(a)
         /\ Rank(Lane(a)) = 2 <=> ~(Blocks(a) \/ Delays(a))
         /\ Lane(a) = "red" <=> Blocks(a)
         /\ Lane(a) = "green" <=> ~(Blocks(a) \/ Delays(a))
         /\ Lane(a) \in Lanes
BY LaneIs DEF Lane, Rank, Lanes

\* Worse facts block what they blocked and delay what they delayed.
LEMMA BlocksStay ==
  ASSUME NEW a \in Application, NEW b \in Application, NoBetter(b, a), CicBlock > 1, Blocks(a)
  PROVE  Blocks(b)
<1>1. CicBlock \in Int /\ a.cic \in 0 .. 3 /\ b.cic \in 0 .. 3
  BY ApplicationHas, CreditBounds
<1>2. CASE a.police # NoRecord /\ CriminalLevel(a.police) = "red"
  <2>1. a.police # CleanPolice
    BY <1>2 DEF CriminalLevel, CleanPolice
  <2>2. CASE b.police = a.police
    BY <1>2, <2>2 DEF Blocks
  <2>3. CASE b.police # NoRecord /\ CriminalLevel(b.police) = "red"
    BY <2>3 DEF Blocks
  <2>4. CASE b.police = [a.police EXCEPT !.match = FALSE]
    <3>1. a.police \in PoliceRecord
      BY <1>2 DEF Application, PoliceFindings
    <3>2. b.police \in PoliceRecord
      BY <2>4, <3>1 DEF PoliceRecord
    <3>3. b.police # NoRecord
      BY <3>2, RecordAssumption DEF PoliceRecord, NoYear
    <3>4. /\ b.police.status = a.police.status /\ b.police.blocked = a.police.blocked
          /\ b.police.age = a.police.age
      BY <2>4, <3>1 DEF PoliceRecord
    <3>5. PoliceFlags(b.police) \cap {"criminal_blocked", "under_investigation"}
             = PoliceFlags(a.police) \cap {"criminal_blocked", "under_investigation"}
      BY <3>4 DEF PoliceFlags, Flag
    <3>6. CriminalLevel(b.police) = CriminalLevel(a.police)
      BY <3>4, <3>5 DEF CriminalLevel
    <3> QED BY <1>2, <3>3, <3>6 DEF Blocks
  <2> QED BY <2>1, <2>2, <2>3, <2>4 DEF NoBetter, NoBetterPolice
<1>3. CASE a.cic # 0 /\ a.cic >= CicBlock
  <2>1. b.cic # 0 /\ b.cic >= CicBlock
    BY <1>1, <1>3 DEF NoBetter, NoBetterCredit, NoBetterCic
  <2> QED BY <2>1 DEF Blocks
<1>4. CASE b.collateral = "foreign"
  BY <1>4 DEF Blocks
<1>5. CASE b.collateral # "foreign"
  <2>1. b.collateral = a.collateral
    BY <1>5 DEF NoBetter, NoBetterCredit, NoBetterCollateral
  <2>2. CASE a.collateral = "own" /\ a.dispute = "disputed"
    BY <2>1, <2>2 DEF Blocks, NoBetter
  <2>3. CASE a.purpose = "banned"
    BY <2>3 DEF Blocks, NoBetter, NoBetterPurpose
  <2>4. CASE CreditRank(a) = 0 /\ a.collateral \in {"none", "own"}
    <3>1. CreditRank(b) <= CreditRank(a)
      BY CreditFalls DEF NoBetter
    <3>2. Rank(CreditVerdict(b)) \in 0 .. 2
      BY VerdictIs DEF Rank
    <3>3. CreditRank(b) \in 0 .. 2
      BY <3>2 DEF CreditRank
    <3>4. CreditRank(b) = 0
      BY <2>4, <3>1, <3>3
    <3> QED BY <2>1, <2>4, <3>4 DEF Blocks
  <2> QED BY <1>2, <1>3, <1>5, <2>1, <2>2, <2>3, <2>4 DEF Blocks
<1> QED BY <1>4, <1>5

LEMMA DelaysStay ==
  ASSUME NEW a \in Application, NEW b \in Application, NoBetter(b, a), CicBlock > 1, Delays(a)
  PROVE  Blocks(b) \/ Delays(b)
<1>1. CicBlock \in Int /\ a.cic \in 0 .. 3 /\ b.cic \in 0 .. 3
  BY ApplicationHas, CreditBounds
<1>2. CASE b.collateral = "foreign"
  BY <1>2 DEF Blocks
<1>3. CASE b.collateral # "foreign"
  <2>1. b.collateral = a.collateral
    BY <1>3 DEF NoBetter, NoBetterCredit, NoBetterCollateral
  <2>2. CASE a.police = NoRecord \/ ~a.police.match \/ CriminalLevel(a.police) # "pass"
    <3>1. CASE b.police = NoRecord
      BY <3>1 DEF Delays
    <3>2. CASE b.police # NoRecord /\ CriminalLevel(b.police) = "red"
      BY <3>2 DEF Blocks
    <3>3. CASE b.police = a.police
      BY <2>2, <3>3 DEF Delays
    <3>4. CASE b.police # NoRecord /\ a.police # NoRecord /\ b.police = [a.police EXCEPT !.match = FALSE]
      <4>1. a.police \in PoliceRecord
        BY <3>4 DEF Application, PoliceFindings
      <4>2. ~b.police.match
        BY <3>4, <4>1 DEF PoliceRecord
      <4> QED BY <3>4, <4>2 DEF Delays
    <3>5. a.police # CleanPolice
      <4>1. CleanPolice # NoRecord
        <5>1. CleanPolice \in PoliceRecord
          BY CleanIsApplication
        <5> QED BY <5>1, RecordAssumption DEF PoliceRecord, NoYear
      <4>2. CleanPolice.match /\ CriminalLevel(CleanPolice) = "pass"
        BY DEF CleanPolice, CriminalLevel
      <4> QED BY <2>2, <4>1, <4>2
    <3> QED BY <3>1, <3>2, <3>3, <3>4, <3>5 DEF NoBetter, NoBetterPolice
  <2>3. CASE a.cic \in {0, 2}
    <3>1. CASE b.cic = a.cic
      BY <2>3, <3>1 DEF Delays
    <3>2. CASE b.cic = 3
      <4>1. "cic_bad_debt" \in CreditReasons(b)
        <5>1. ~(b.asked <= 0)
          BY ApplicationHas
        <5> QED BY <3>2, <5>1, CreditBounds DEF CreditReasons, Flag
      <4>2. CreditRank(b) # 2
        BY <4>1, VerdictIs DEF CreditRank, Rank
      <4> QED BY <4>2 DEF Delays
    <3> QED BY <2>3, <3>1, <3>2 DEF NoBetter, NoBetterCredit, NoBetterCic
  <2>4. CASE \/ a.kind = "business" \/ a.employment = NoRecord
             \/ EmploymentFlags(a.income, a.employment) # {}
    <3>1. b.kind = a.kind /\ b.income = a.income
      BY DEF NoBetter, NoBetterCredit
    <3>2. CASE b.employment = NoRecord
      BY <3>2 DEF Delays
    <3>3. CASE b.employment # NoRecord /\ b.employment.status = "expired"
      <4>1. EmploymentFlags(b.income, b.employment) # {}
        BY <3>3 DEF EmploymentFlags, Flag
      <4> QED BY <4>1 DEF Delays
    <3>4. CASE b.employment = a.employment
      BY <2>4, <3>1, <3>4 DEF Delays
    <3> QED BY <3>2, <3>3, <3>4 DEF NoBetter, NoBetterJob
  <2>5. CASE a.collateral = "unknown"
    BY <2>1, <2>5 DEF Delays
  <2>6. CASE a.docs = "mandatory"
    BY <2>6 DEF Delays, NoBetter, NoBetterDocs
  <2>7. CASE CollateralFlags(a) # {}
    <3>1. CollateralFlags(a) \subseteq CollateralFlags(b)
      BY <2>1 DEF CollateralFlags, Flag, NoBetter, NoBetterCredit
    <3> QED BY <2>7, <3>1 DEF Delays
  <2>8. CASE a.purpose = "conditional"
    BY <2>8 DEF Delays, Blocks, NoBetter, NoBetterPurpose
  <2>9. CASE CreditRank(a) # 2
    <3>1. CreditRank(b) <= CreditRank(a)
      BY CreditFalls DEF NoBetter
    <3>2. Rank(CreditVerdict(a)) \in 0 .. 2
      BY VerdictIs DEF Rank
    <3>3. CreditRank(a) \in 0 .. 2
      BY <3>2 DEF CreditRank
    <3>4. CreditRank(b) # 2
      BY <2>9, <3>1, <3>3
    <3> QED BY <3>4 DEF Delays
  <2> QED BY <2>2, <2>3, <2>4, <2>5, <2>6, <2>7, <2>8, <2>9 DEF Delays
<1> QED BY <1>2, <1>3

\* A rule that pays the larger amount in the worse lane under the lower
\* threshold pays the smaller one (gated_decision).
LEMMA DecisionsFall ==
  ASSUME NEW action, NEW l \in Lanes, NEW lane \in Lanes, Rank(l) <= Rank(lane),
         NEW n \in Nat, NEW amount \in Nat, amount <= n, NEW u \in Nat, NEW t \in Nat, u <= t,
         Decision(action, n, l, u) = "auto"
  PROVE  Decision(action, amount, lane, t) = "auto"
<1>1. u > 0 /\ AutoEligible(action, n, l, u)
  BY DEF Decision
<1>2. t > 0 /\ PolicyThreshold(u) = u /\ PolicyThreshold(t) = t
  BY <1>1 DEF PolicyThreshold
<1>3. amount # NoAmount /\ n # NoAmount
  BY VerdictAssumption
<1>4. (lane = "red" => l = "red") /\ (l = "green" => lane = "green")
  BY DEF Rank, Lanes
<1>5. CASE Tier1(action, n, l, u)
  <2>1. Tier1(action, amount, lane, t)
    BY <1>2, <1>3, <1>4, <1>5 DEF Tier1
  <2> QED BY <1>2, <2>1 DEF Decision, AutoEligible
<1>6. CASE Tier2(action, n, l)
  <2>1. Tier2(action, amount, lane)
    BY <1>3, <1>4, <1>6, VerdictAssumption DEF Tier2
  <2> QED BY <1>2, <2>1 DEF Decision, AutoEligible
<1> QED BY <1>1, <1>5, <1>6 DEF AutoEligible

\* No fact that is there and is worse for the bank helps, in whatever number and
\* measure: not to a better credit verdict or lane, and not from a person's
\* decision to an automatic one under that threshold or a lower one
\* (credit_assess, legal_classify_profile, gated_decision).  The verified income
\* has no better and worse, and what is absent is the subject of
\* AbsentIsSilentOnly.  A bank that blocked the best group
\* of the credit bureau would treat an owner without a record better than one
\* with a good one, and is excepted.
THEOREM WorseIsNeverBetter ==
  ASSUME NEW a \in Application, NEW b \in Application, NoBetter(b, a), CicBlock > 1,
         NEW u \in Nat, NEW t \in Nat, u <= t
  PROVE  /\ CreditRank(b) <= CreditRank(a)
         /\ Rank(Lane(b)) <= Rank(Lane(a))
         /\ Decision("disburse", b.asked, Lane(b), u) = "auto"
               => Decision("disburse", a.asked, Lane(a), t) = "auto"
<1>1. CreditRank(b) <= CreditRank(a)
  BY CreditFalls DEF NoBetter
<1>2. Rank(Lane(b)) <= Rank(Lane(a))
  <2>1. Blocks(a) => Blocks(b)
    BY BlocksStay
  <2>2. Delays(a) => Blocks(b) \/ Delays(b)
    BY DelaysStay
  <2> QED BY <2>1, <2>2, RankOfLane
<1>3. a.asked \in Nat /\ b.asked \in Nat /\ a.asked <= b.asked
  BY ApplicationHas DEF NoBetter, NoBetterCredit
<1>4. Lane(a) \in Lanes /\ Lane(b) \in Lanes
  BY RankOfLane
<1> QED BY <1>1, <1>2, <1>3, <1>4, DecisionsFall

\* Nor does a worse fact open a product (product_suggest), where no product
\* takes owners whose debts went bad.
THEOREM WorseHasNoMoreProducts ==
  ASSUME NEW a \in Application, NEW b \in Application, NoBetterCredit(b, a), b.asked = a.asked,
         NEW products, \A p \in products : p.cic_max \in 0 .. 2 /\ p.income_min \in Nat
  PROVE  Eligible(Enquiry(b), products) \subseteq Eligible(Enquiry(a), products)
<1> DEFINE f == Enquiry(b)
           e == Enquiry(a)
<1>1. /\ f.kind = e.kind /\ f.type = e.type /\ f.asked = e.asked /\ f.segment = e.segment
      /\ f.income = b.income /\ e.income = a.income /\ f.cic = b.cic /\ e.cic = a.cic
  BY DEF Enquiry, NoBetterCredit
<1>2. /\ a.income \in Nat /\ b.income \in Nat /\ b.income <= a.income
      /\ a.cic \in 0 .. 3 /\ b.cic \in 0 .. 3 /\ NoBetterCic(b.cic, a.cic)
  BY ApplicationHas DEF NoBetterCredit
<1> HIDE DEF e, f
<1>3. Offered(f, products) = Offered(e, products)
  BY <1>1 DEF Offered, AllowedTypes
<1>4. ASSUME NEW p \in Offered(e, products)
      PROVE  /\ AmountMisses(e, p) => AmountMisses(f, p)
             /\ IncomeMisses(e, p) => IncomeMisses(f, p)
             /\ CicMisses(e, p) => CicMisses(f, p)
             /\ SegmentMisses(e, p) => SegmentMisses(f, p)
  <2>1. p.cic_max \in 0 .. 2 /\ p.income_min \in Nat
    BY DEF Offered
  <2>2. IncomeMisses(e, p) => IncomeMisses(f, p)
    BY <1>1, <1>2, <2>1 DEF IncomeMisses
  <2>3. CicMisses(e, p) => CicMisses(f, p)
    BY <1>1, <1>2, <2>1 DEF CicMisses, NoBetterCic
  <2> QED BY <1>1, <2>2, <2>3 DEF AmountMisses, SegmentMisses
<1>5. Eligible(f, products) \subseteq Eligible(e, products)
  BY <1>3, <1>4 DEF Eligible
<1> QED BY <1>5 DEF e, f

-------------------------------------------------------------------------------
(* Facts that are absent                                                     *)

\* The criteria of every check but those of the income and of the credit.
Rest(a) == PoliceCriteria(a) \cup CicCriterion(a) \cup DocsCriterion(a) \cup PurposeCriterion(a)

LEMMA CriteriaAre ==
  ASSUME NEW a
  PROVE  Criteria(a) = Rest(a) \cup EmploymentCriterion(a) \cup CreditCriterion(a)
BY DEF Criteria, Rest

LEMMA RestHas ==
  ASSUME NEW a \in Application, NEW c \in Rest(a)
  PROVE  c.key \notin {"employment", "credit"} /\ c.level \in {"pass", "yellow", "red"}
<1>1. CASE c \in PoliceCriteria(a)
  <2>1. CriminalLevel(a.police) \in {"pass", "yellow", "red"}
    BY DEF CriminalLevel
  <2> QED BY <1>1, <2>1 DEF PoliceCriteria, Criterion
<1>2. CASE c \in CicCriterion(a)
  <2>1. PICK level \in {"pass", "yellow", "red"} : CicCriterion(a) = Criterion("cic", level)
    BY DEF CicCriterion
  <2> QED BY <1>2, <2>1 DEF Criterion
<1>3. CASE c \in DocsCriterion(a)
  <2>1. DocsVerdict(a) \in {"blocked", "needs_docs", "clear"}
    BY DEF DocsVerdict
  <2>2. \/ DocsCriterion(a) = Criterion("collateral_ownership", "red")
        \/ \E level \in {"pass", "yellow", "red"} : DocsCriterion(a) = Criterion("docs", level)
    BY <2>1 DEF DocsCriterion
  <2> QED BY <1>3, <2>2 DEF Criterion
<1>4. CASE c \in PurposeCriterion(a)
  <2>1. \/ PurposeCriterion(a) = {}
        \/ \E level \in {"pass", "yellow", "red"} : PurposeCriterion(a) = Criterion("purpose", level)
    BY DEF PurposeCriterion
  <2> QED BY <1>4, <2>1 DEF Criterion
<1> QED BY <1>1, <1>2, <1>3, <1>4 DEF Rest

LEMMA CreditCriterionIs ==
  ASSUME NEW a \in Application
  PROVE  /\ CreditRefusal(a) # "ok" =>
               \/ CreditCriterion(a) = Criterion("collateral_ownership", "red")
               \/ CreditCriterion(a) = Criterion("credit", "yellow")
         /\ CreditRefusal(a) = "ok" =>
               /\ CreditVerdict(a) = "eligible" => CreditCriterion(a) = Criterion("credit", "pass")
               /\ CreditVerdict(a) = "ineligible" => CreditCriterion(a) = Criterion("credit", "red")
               /\ CreditVerdict(a) = "needs_info" => CreditCriterion(a) = Criterion("credit", "yellow")
<1>1. AsAsked(a) = a
  BY ApplicationHas
<1> QED BY <1>1 DEF CreditCriterion

\* What the credit expert makes of an application depends on these facts.
LEMMA CreditDependsOn ==
  ASSUME NEW a, NEW b,
         b.kind = a.kind, b.income = a.income, b.override = a.override, b.paying = a.paying,
         b.asked = a.asked, b.type = a.type, b.term = a.term, b.collateral = a.collateral,
         b.docs_status = a.docs_status, b.cic = a.cic
  PROVE  /\ CreditRefusal(b) = CreditRefusal(a)
         /\ CreditMissing(b) = CreditMissing(a)
         /\ CreditReasons(b) \ {"ltv_above_max"} = CreditReasons(a) \ {"ltv_above_max"}
         /\ b.value = a.value => CreditReasons(b) = CreditReasons(a)
<1>1. EffectiveType(b) = EffectiveType(a) /\ MonthlyIncome(b) = MonthlyIncome(a)
  BY DEF EffectiveType, MonthlyIncome
<1>2. NewPayment(b) = NewPayment(a)
  BY <1>1 DEF NewPayment
<1>3. DscrFails(b) <=> DscrFails(a)
  BY <1>1, <1>2 DEF DscrFails, TotalPayment
<1>4. b.value = a.value => (LtvFails(b) <=> LtvFails(a))
  BY DEF LtvFails
<1>5. CreditRefusal(b) = CreditRefusal(a)
  BY DEF CreditRefusal
<1>6. CreditMissing(b) = CreditMissing(a)
  BY <1>1 DEF CreditMissing
<1>7. CreditReasons(b) \ {"ltv_above_max"} = CreditReasons(a) \ {"ltv_above_max"}
  BY <1>3 DEF CreditReasons, Flag
<1>8. b.value = a.value => CreditReasons(b) = CreditReasons(a)
  BY <1>3, <1>4 DEF CreditReasons, Flag
<1> QED BY <1>5, <1>6, <1>7, <1>8

\* The lane is better only by being green where it was yellow, or not red where
\* it was.
LEMMA BetterLane ==
  ASSUME NEW a \in Application, NEW b \in Application
  PROVE  Rank(Lane(b)) > Rank(Lane(a))
            <=> \/ "red" \in Levels(a) /\ "red" \notin Levels(b)
                \/ /\ "red" \notin Levels(a) /\ "yellow" \in Levels(a)
                   /\ "red" \notin Levels(b) /\ "yellow" \notin Levels(b)
BY DEF Lane, Rank

\* Without a record the lane is never green (legal_classify_profile).
LEMMA RecordsAreMissed ==
  ASSUME NEW a \in Application, NEW b \in WithoutRecord(a)
  PROVE  Lane(b) # "green"
<1>1. CASE b = [a EXCEPT !.police = NoRecord]
  <2>1. b \in Application /\ b.police = NoRecord
    BY <1>1 DEF Application, PoliceFindings
  <2> QED BY <2>1, RankOfLane DEF Delays
<1>2. CASE b = [a EXCEPT !.employment = NoRecord]
  <2>1. b \in Application /\ b.employment = NoRecord
    BY <1>2 DEF Application, JobFindings
  <2> QED BY <2>1, RankOfLane DEF Delays
<1>3. CASE b = [a EXCEPT !.cic = 0]
  <2>1. b \in Application /\ b.cic = 0
    BY <1>3 DEF Application, CicGroups
  <2> QED BY <2>1, RankOfLane DEF Delays
<1> QED BY <1>1, <1>2, <1>3 DEF WithoutRecord

\* Without a verified income the lane is better exactly where the mismatch was
\* the only objection (legal_verify_employment).
LEMMA UnverifiedIsSilent ==
  ASSUME NEW a \in Application
  PROVE  Rank(Lane(Unverified(a))) > Rank(Lane(a))
         <=> /\ Objections(a) = Criterion("employment", "yellow")
             /\ a.kind = "customer" /\ a.employment # NoRecord
             /\ EmploymentFlags(a.income, a.employment) = {"income_mismatch"}
<1> DEFINE b == Unverified(a)
<1>1. CASE a.employment = NoRecord
  <2>1. b = a
    BY <1>1 DEF Unverified
  <2>2. Rank(Lane(a)) \in 0 .. 2
    BY RankOfLane
  <2> QED BY <1>1, <2>1, <2>2
<1>2. CASE a.employment # NoRecord
  <2>1. a.employment \in JobRecord
    BY <1>2 DEF Application, JobFindings
  <2>2. b = [a EXCEPT !.employment = [a.employment EXCEPT !.verified = 0]]
    BY <1>2 DEF Unverified
  <2>3. [a.employment EXCEPT !.verified = 0] \in JobRecord
    BY <2>1 DEF JobRecord
  <2>4. b \in Application /\ b.employment = [a.employment EXCEPT !.verified = 0]
    BY <2>2, <2>3 DEF Application, JobFindings
  <2>5. /\ b.kind = a.kind /\ b.income = a.income /\ b.override = a.override /\ b.paying = a.paying
        /\ b.asked = a.asked /\ b.type = a.type /\ b.term = a.term /\ b.collateral = a.collateral
        /\ b.docs_status = a.docs_status /\ b.cic = a.cic /\ b.value = a.value
        /\ b.police = a.police /\ b.docs = a.docs /\ b.dispute = a.dispute /\ b.zoning = a.zoning
        /\ b.purpose = a.purpose
    BY <2>2 DEF Application
  <2>6. b.employment.status = a.employment.status /\ b.employment.verified = 0
    BY <2>1, <2>4 DEF JobRecord
  <2>7. b.employment # NoRecord
    <3>1. JobRecord \subseteq [status : {"active", "expired"}, verified : Int]
      BY DEF JobRecord
    <3> QED BY <2>3, <2>4, <3>1, RecordAssumption
  <2> HIDE DEF b
  <2>8. Rest(b) = Rest(a)
    <3>1. PoliceCriteria(b) = PoliceCriteria(a) /\ CicCriterion(b) = CicCriterion(a)
      BY <2>5 DEF PoliceCriteria, CicCriterion
    <3>2. CollateralFlags(b) = CollateralFlags(a)
      BY <2>5 DEF CollateralFlags
    <3>3. DocsVerdict(b) = DocsVerdict(a)
      BY <2>5, <3>2 DEF DocsVerdict
    <3>4. DocsCriterion(b) = DocsCriterion(a) /\ PurposeCriterion(b) = PurposeCriterion(a)
      BY <2>5, <3>3 DEF DocsCriterion, PurposeCriterion
    <3> QED BY <3>1, <3>4 DEF Rest
  <2>9. CreditCriterion(b) = CreditCriterion(a)
    <3>1. AsAsked(a) = a /\ AsAsked(b) = b
      BY <2>4, ApplicationHas
    <3>2. CreditRefusal(b) = CreditRefusal(a)
      BY <2>5, CreditDependsOn
    <3>3. CreditVerdict(b) = CreditVerdict(a)
      BY <2>5, CreditDependsOn DEF CreditVerdict
    <3> QED BY <3>1, <3>2, <3>3 DEF CreditCriterion
  <2> DEFINE others == Rest(a) \cup CreditCriterion(a)
             doubt(x) == x.kind = "business" \/ EmploymentFlags(x.income, x.employment) # {}
  <2>10. \A c \in others : c.key # "employment" /\ c.level \in {"pass", "yellow", "red"}
    <3>1. \A c \in CreditCriterion(a) : c.key # "employment" /\ c.level \in {"pass", "yellow", "red"}
      BY CreditCriterionIs, VerdictIs DEF Criterion
    <3> QED BY <3>1, RestHas
  <2>11. /\ Criteria(a) = others \cup EmploymentCriterion(a)
         /\ Criteria(b) = others \cup EmploymentCriterion(b)
    BY <2>8, <2>9, CriteriaAre
  <2>12. /\ EmploymentCriterion(a) = Criterion("employment", IF doubt(a) THEN "yellow" ELSE "pass")
         /\ EmploymentCriterion(b) = Criterion("employment", IF doubt(b) THEN "yellow" ELSE "pass")
    BY <1>2, <2>7 DEF EmploymentCriterion
  <2> HIDE DEF others
  <2>13. /\ Levels(a) = LevelsOf(others) \cup {IF doubt(a) THEN "yellow" ELSE "pass"}
         /\ Levels(b) = LevelsOf(others) \cup {IF doubt(b) THEN "yellow" ELSE "pass"}
    <3> HIDE DEF doubt
    <3>1. Levels(a) = LevelsOf(Criteria(a)) /\ Levels(b) = LevelsOf(Criteria(b))
      BY DEF Levels, LevelsOf
    <3> DEFINE la == IF doubt(a) THEN "yellow" ELSE "pass"
               lb == IF doubt(b) THEN "yellow" ELSE "pass"
    <3>2. EmploymentCriterion(a) = Criterion("employment", la) /\ EmploymentCriterion(b) = Criterion("employment", lb)
      BY <2>12
    <3> HIDE DEF la, lb
    <3>3. LevelsOf(EmploymentCriterion(a)) = {la} /\ LevelsOf(EmploymentCriterion(b)) = {lb}
      BY <3>2, LevelOfOne
    <3>4. Levels(a) = LevelsOf(others) \cup {la} /\ Levels(b) = LevelsOf(others) \cup {lb}
      BY <2>11, <3>1, <3>3, LevelsOfBoth
    <3> QED BY <3>4 DEF la, lb
  <2>14. doubt(b) <=> a.kind = "business" \/ a.employment.status = "expired"
    BY <2>5, <2>6 DEF EmploymentFlags, IncomeMismatch, Flag
  <2>15. doubt(a) /\ ~doubt(b)
         <=> a.kind = "customer" /\ EmploymentFlags(a.income, a.employment) = {"income_mismatch"}
    <3>1. a.kind \in {"customer", "business"}
      BY DEF Application, OwnerKinds
    <3> QED BY <2>14, <3>1 DEF EmploymentFlags, Flag
  <2>16. Objections(a) = Criterion("employment", "yellow")
         <=> doubt(a) /\ "red" \notin LevelsOf(others) /\ "yellow" \notin LevelsOf(others)
    <3> HIDE DEF doubt
    <3>1. CASE doubt(a)
      <4>1. Criteria(a) = others \cup Criterion("employment", "yellow")
        BY <2>11, <2>12, <3>1
      <4>2. Objections(a) = {c \in others : c.level # "pass"} \cup Criterion("employment", "yellow")
        BY <4>1 DEF Objections, Criterion
      <4>3. \A c \in others : c \notin Criterion("employment", "yellow")
        BY <2>10 DEF Criterion
      <4>4. Objections(a) = Criterion("employment", "yellow") <=> \A c \in others : c.level = "pass"
        BY <4>2, <4>3
      <4> QED BY <2>10, <3>1, <4>4 DEF LevelsOf
    <3>2. CASE ~doubt(a)
      <4>1. Criteria(a) = others \cup Criterion("employment", "pass")
        BY <2>11, <2>12, <3>2
      <4>2. [key |-> "employment", level |-> "yellow"] \notin Objections(a)
        BY <2>10, <4>1 DEF Objections, Criterion
      <4> QED BY <3>2, <4>2 DEF Criterion
    <3> QED BY <3>1, <3>2
  <2>17. Rank(Lane(b)) > Rank(Lane(a))
         <=> doubt(a) /\ ~doubt(b) /\ "red" \notin LevelsOf(others) /\ "yellow" \notin LevelsOf(others)
    <3> HIDE DEF doubt
    <3> QED BY <2>4, <2>13, BetterLane
  <2>18. Rank(Lane(b)) > Rank(Lane(a))
         <=> /\ Objections(a) = Criterion("employment", "yellow")
             /\ a.kind = "customer" /\ EmploymentFlags(a.income, a.employment) = {"income_mismatch"}
    <3> HIDE DEF doubt
    <3> QED BY <2>15, <2>16, <2>17
  <2> QED BY <1>2, <2>18 DEF b
<1> QED BY <1>1, <1>2

\* Without a value of the collateral the credit verdict is better exactly where
\* the loan-to-value ratio was the only reason against the loan, and the lane
\* where that verdict was the only red (credit_assess, legal_classify_profile).
LEMMA UnvaluedIsSilent ==
  ASSUME NEW a \in Application
  PROVE  LET b    == Unvalued(a)
             only == CreditRefusal(a) = "ok" /\ CreditReasons(a) = {"ltv_above_max"}
         IN /\ CreditRank(b) > CreditRank(a) <=> only
            /\ Rank(Lane(b)) > Rank(Lane(a))
               <=> only /\ {c \in Criteria(a) : c.level = "red"} = Criterion("credit", "red")
<1> DEFINE b    == Unvalued(a)
           only == CreditRefusal(a) = "ok" /\ CreditReasons(a) = {"ltv_above_max"}
<1>1. b \in Application /\ b.value = 0
  BY DEF Unvalued, Application
<1>2. /\ b.kind = a.kind /\ b.income = a.income /\ b.override = a.override /\ b.paying = a.paying
      /\ b.asked = a.asked /\ b.type = a.type /\ b.term = a.term /\ b.collateral = a.collateral
      /\ b.docs_status = a.docs_status /\ b.cic = a.cic /\ b.employment = a.employment
      /\ b.police = a.police /\ b.docs = a.docs /\ b.dispute = a.dispute /\ b.zoning = a.zoning
      /\ b.purpose = a.purpose
  BY DEF Unvalued, Application
<1> HIDE DEF b
<1>3. /\ CreditRefusal(b) = CreditRefusal(a) /\ CreditMissing(b) = CreditMissing(a)
      /\ CreditReasons(b) \ {"ltv_above_max"} = CreditReasons(a) \ {"ltv_above_max"}
  BY <1>2, CreditDependsOn
<1>4. "ltv_above_max" \notin CreditReasons(b)
  BY <1>1 DEF CreditReasons, LtvFails, Flag
<1>5. CreditReasons(b) = CreditReasons(a) \ {"ltv_above_max"}
  BY <1>3, <1>4
<1>6. ASSUME NEW c \in Application
      PROVE  /\ CreditRank(c) \in 0 .. 2
             /\ CreditRank(c) = 2 <=> /\ CreditRefusal(c) = "ok"
                                      /\ CreditReasons(c) = {} /\ CreditMissing(c) = {}
             /\ CreditRank(c) = 0 <=> CreditRefusal(c) # "ok" \/ CreditReasons(c) # {}
  BY VerdictIs DEF CreditRank, Rank
<1>7. CreditRank(b) > CreditRank(a) <=> only
  <2>1. ASSUME only PROVE CreditRank(b) > CreditRank(a)
    <3>1. CreditRank(a) = 0
      BY <1>6, <2>1
    <3>2. CreditRank(b) # 0
      BY <1>1, <1>3, <1>5, <1>6, <2>1
    <3> QED BY <1>1, <1>6, <3>1, <3>2
  <2>2. ASSUME ~only, CreditRefusal(a) = "ok", "ltv_above_max" \in CreditReasons(a)
        PROVE  ~(CreditRank(b) > CreditRank(a))
    <3>1. CreditReasons(b) # {}
      BY <1>5, <2>2
    <3>2. CreditRank(b) = 0
      BY <1>1, <1>6, <3>1
    <3> QED BY <1>6, <3>2
  <2>3. ASSUME "ltv_above_max" \notin CreditReasons(a) PROVE ~(CreditRank(b) > CreditRank(a))
    <3>1. CreditReasons(b) = CreditReasons(a)
      BY <1>5, <2>3
    <3>2. CreditRank(b) = CreditRank(a)
      BY <1>3, <3>1 DEF CreditRank, CreditVerdict, Rank
    <3> QED BY <1>6, <3>2
  <2>4. ASSUME CreditRefusal(a) # "ok" PROVE ~(CreditRank(b) > CreditRank(a))
    <3>1. CreditRank(b) = 0
      BY <1>1, <1>3, <1>6, <2>4
    <3> QED BY <1>6, <3>1
  <2> QED BY <2>1, <2>2, <2>3, <2>4
<1>8. Rest(b) = Rest(a) /\ EmploymentCriterion(b) = EmploymentCriterion(a)
  <2>1. PoliceCriteria(b) = PoliceCriteria(a) /\ CicCriterion(b) = CicCriterion(a)
    BY <1>2 DEF PoliceCriteria, CicCriterion
  <2>2. CollateralFlags(b) = CollateralFlags(a)
    BY <1>2 DEF CollateralFlags
  <2>3. DocsVerdict(b) = DocsVerdict(a)
    BY <1>2, <2>2 DEF DocsVerdict
  <2>4. DocsCriterion(b) = DocsCriterion(a) /\ PurposeCriterion(b) = PurposeCriterion(a)
    BY <1>2, <2>3 DEF DocsCriterion, PurposeCriterion
  <2>5. EmploymentCriterion(b) = EmploymentCriterion(a)
    BY <1>2 DEF EmploymentCriterion
  <2> QED BY <2>1, <2>4, <2>5 DEF Rest
<1> DEFINE others == Rest(a) \cup EmploymentCriterion(a)
<1>9. /\ Criteria(a) = others \cup CreditCriterion(a)
      /\ Criteria(b) = others \cup CreditCriterion(b)
  BY <1>8, CriteriaAre
<1>10. \A c \in others : c.key # "credit"
  <2>1. \A c \in EmploymentCriterion(a) : c.key = "employment"
    BY DEF EmploymentCriterion, Criterion
  <2> QED BY <2>1, RestHas
<1> HIDE DEF others
<1>11. /\ Levels(a) = LevelsOf(others) \cup LevelsOf(CreditCriterion(a))
       /\ Levels(b) = LevelsOf(others) \cup LevelsOf(CreditCriterion(b))
  <2>1. Levels(a) = LevelsOf(Criteria(a)) /\ Levels(b) = LevelsOf(Criteria(b))
    BY DEF Levels, LevelsOf
  <2> QED BY <1>9, <2>1, LevelsOfBoth
<1>12. CASE only
  <2>1. CreditCriterion(a) = Criterion("credit", "red")
    BY <1>12, CreditCriterionIs, VerdictIs
  <2>2. /\ LevelsOf(CreditCriterion(a)) = {"red"}
        /\ {c \in CreditCriterion(a) : c.level = "red"} = Criterion("credit", "red")
    <3>1. LevelsOf(CreditCriterion(a)) = {"red"}
      BY <2>1, LevelOfOne
    <3>2. \A c \in CreditCriterion(a) : c.level = "red"
      BY <2>1 DEF Criterion
    <3> QED BY <2>1, <3>1, <3>2
  <2>3. LevelsOf(CreditCriterion(b)) \subseteq {"pass", "yellow"}
    <3>1. CreditRefusal(b) = "ok" /\ CreditReasons(b) = {}
      BY <1>3, <1>5, <1>12
    <3>2. CreditVerdict(b) \in {"eligible", "needs_info"}
      BY <1>1, <3>1, VerdictIs
    <3>3. CreditCriterion(b) = Criterion("credit", "pass") \/ CreditCriterion(b) = Criterion("credit", "yellow")
      BY <1>1, <3>1, <3>2, CreditCriterionIs
    <3> QED BY <3>3, LevelOfOne
  <2>4. Rank(Lane(b)) > Rank(Lane(a)) <=> "red" \notin LevelsOf(others)
    BY <1>1, <1>11, <2>2, <2>3, BetterLane
  <2>5. {c \in Criteria(a) : c.level = "red"} = {c \in others : c.level = "red"} \cup Criterion("credit", "red")
    BY <1>9, <2>2
  <2>6. \A c \in others : c \notin Criterion("credit", "red")
    BY <1>10 DEF Criterion
  <2>7. {c \in Criteria(a) : c.level = "red"} = Criterion("credit", "red") <=> "red" \notin LevelsOf(others)
    BY <2>5, <2>6 DEF LevelsOf
  <2> QED BY <1>7, <1>12, <2>4, <2>7 DEF b
<1>13. CASE ~only
  <2>1. LevelsOf(CreditCriterion(b)) = LevelsOf(CreditCriterion(a))
    <3>1. CASE "ltv_above_max" \notin CreditReasons(a)
      <4>1. CreditVerdict(b) = CreditVerdict(a)
        BY <1>2, <1>3, <1>5, <3>1 DEF CreditVerdict
      <4>2. AsAsked(a) = a /\ AsAsked(b) = b
        BY <1>1, ApplicationHas
      <4> QED BY <1>3, <4>1, <4>2 DEF CreditCriterion
    <3>2. CASE "ltv_above_max" \in CreditReasons(a) /\ CreditRefusal(a) = "ok"
      <4>1. CreditReasons(a) # {} /\ CreditReasons(b) # {}
        BY <1>5, <1>13, <3>2
      <4>2. CreditVerdict(a) = "ineligible" /\ CreditVerdict(b) = "ineligible"
        BY <1>1, <4>1, VerdictIs
      <4> QED BY <1>1, <1>3, <3>2, <4>2, CreditCriterionIs
    <3>3. CASE CreditRefusal(a) # "ok"
      <4>1. AsAsked(a) = a /\ AsAsked(b) = b
        BY <1>1, ApplicationHas
      <4> QED BY <1>3, <3>3, <4>1 DEF CreditCriterion
    <3> QED BY <3>1, <3>2, <3>3
  <2>2. Levels(b) = Levels(a)
    BY <1>11, <2>1
  <2>3. ~(Rank(Lane(b)) > Rank(Lane(a)))
    BY <1>1, <2>2, BetterLane
  <2> QED BY <1>7, <1>13, <2>3 DEF b
<1> QED BY <1>12, <1>13

\* What is absent silences the check it belongs to and no other: for every
\* application, whatever the bank's assumptions are.
THEOREM AbsentIsSilentOnly ==
  ASSUME NEW a \in Application
  PROVE  AbsentSilencesItsCheck(a)
BY RecordsAreMissed, UnverifiedIsSilent, UnvaluedIsSilent DEF AbsentSilencesItsCheck

-------------------------------------------------------------------------------
(* The applications of the runs                                              *)

LEMMA ProductsAre == \A p \in Products : p.cic_max \in 0 .. 2 /\ p.income_min \in Nat
BY DEF Products

LEMMA GraveIsRed ==
  ASSUME NEW r \in Grave
  PROVE  r \in PoliceRecord /\ r # NoRecord /\ CriminalLevel(r) = "red"
<1>1. r \in PoliceCases /\ r # NoRecord /\ (r.blocked \/ r.status = "under_investigation")
  BY DEF Grave
<1>2. r \in PoliceRecord
  BY <1>1, PoliceCasesAre DEF PoliceFindings
<1>3. r.status # "criminal_record" => ~r.blocked
  BY <1>1 DEF PoliceCases
<1>4. r.status \in {"clean", "under_investigation", "criminal_record"} /\ r.blocked \in BOOLEAN
  BY <1>2 DEF PoliceRecord
<1>5. CASE r.status = "under_investigation"
  <2>1. "under_investigation" \in PoliceFlags(r)
    BY <1>5 DEF PoliceFlags
  <2> QED BY <1>1, <1>2, <1>5, <2>1 DEF CriminalLevel
<1>6. CASE r.status # "under_investigation"
  <2>1. r.status = "criminal_record" /\ r.blocked
    BY <1>1, <1>3, <1>6
  <2>2. "criminal_blocked" \in PoliceFlags(r)
    BY <2>1 DEF PoliceFlags
  <2> QED BY <1>1, <1>2, <2>1, <2>2 DEF CriminalLevel
<1> QED BY <1>5, <1>6

LEMMA WorsePoliceIs ==
  ASSUME NEW r \in PoliceFindings, NEW q \in WorsePolice(r)
  PROVE  q \in PoliceFindings /\ NoBetterPolice(q, r)
<1>1. NoRecord \notin PoliceRecord
  BY RecordAssumption DEF PoliceRecord, NoYear
<1>2. CASE q \in Grave
  BY <1>2, GraveIsRed DEF NoBetterPolice, PoliceFindings
<1>3. CASE q \notin Grave
  <2>1. r # NoRecord
    <3>1. CleanPolice # NoRecord
      BY <1>1, CleanIsApplication
    <3> QED BY <1>3, <3>1 DEF WorsePolice
  <2>2. CASE r = CleanPolice
    <3>1. q \in PoliceCases
      BY <2>1, <2>2 DEF WorsePolice
    <3> QED BY <2>2, <3>1, PoliceCasesAre DEF NoBetterPolice
  <2>3. CASE r # CleanPolice
    <3>1. q = [r EXCEPT !.match = FALSE]
      BY <1>3, <2>1, <2>3 DEF WorsePolice
    <3>2. q \in PoliceRecord
      BY <2>1, <3>1 DEF PoliceFindings, PoliceRecord
    <3> QED BY <2>1, <3>1, <3>2 DEF NoBetterPolice, PoliceFindings
  <2> QED BY <2>2, <2>3
<1> QED BY <1>2, <1>3

LEMMA WorseJobIs ==
  ASSUME NEW f \in JobFindings, NEW e \in WorseJob(f)
  PROVE  e \in JobFindings /\ NoBetterJob(e, f)
<1>1. f \in JobRecord /\ f # NoRecord
  BY DEF WorseJob, JobFindings
<1>2. CASE e = NoRecord
  BY <1>2 DEF NoBetterJob, JobFindings
<1>3. CASE e = [f EXCEPT !.status = "expired"]
  <2>1. e \in JobRecord /\ e.status = "expired"
    BY <1>1, <1>3 DEF JobRecord
  <2> QED BY <2>1 DEF NoBetterJob, JobFindings
<1> QED BY <1>1, <1>2, <1>3 DEF WorseJob

LEMMA WorseFactsAre ==
  /\ \A g \in CicGroups : \A h \in WorseCic(g) : h \in CicGroups /\ NoBetterCic(h, g)
  /\ \A d \in DocsStates : \A e \in WorseDocs(d) : e \in DocsStates /\ NoBetterDocs(e, d)
  /\ \A u \in PurposeKinds : \A v \in WorsePurpose(u) : v \in PurposeKinds /\ NoBetterPurpose(v, u)
<1>1. \A g \in CicGroups : \A h \in WorseCic(g) : h \in CicGroups /\ NoBetterCic(h, g)
  BY DEF CicGroups, WorseCic, NoBetterCic
<1>2. \A d \in DocsStates : \A e \in WorseDocs(d) : e \in DocsStates /\ NoBetterDocs(e, d)
  BY DEF DocsStates, WorseDocs, NoBetterDocs
<1>3. \A u \in PurposeKinds : \A v \in WorsePurpose(u) : v \in PurposeKinds /\ NoBetterPurpose(v, u)
  BY DEF PurposeKinds, WorsePurpose, NoBetterPurpose
<1> QED BY <1>1, <1>2, <1>3

\* An application is no better than itself.
LEMMA NoBetterThanItself ==
  ASSUME NEW a \in Application
  PROVE  NoBetter(a, a)
<1>1. a.income \in Nat /\ a.paying \in Nat /\ a.asked \in Nat
  BY ApplicationHas
<1> QED BY <1>1 DEF NoBetter, NoBetterCredit, NoBetterCic, NoBetterValue, NoBetterCollateral,
               NoBetterDocs, NoBetterPurpose, NoBetterJob, NoBetterPolice

LEMMA WorseIsNoBetter ==
  ASSUME NEW a \in Application, NEW b \in Worse(a)
  PROVE  b \in Application /\ NoBetter(b, a)
<1>1. /\ a.paying \in Nat /\ a.asked \in AskedAmounts /\ a.docs_status \in PaperStates /\ a.value \in Nat
      /\ a.income \in Nat /\ a.asked \in Nat
      /\ a.collateral \in CollateralKinds /\ a.cic \in CicGroups /\ a.police \in PoliceFindings
      /\ a.employment \in JobFindings /\ a.docs \in DocsStates /\ a.purpose \in PurposeKinds
  BY ApplicationHas DEF Application
<1>2. CASE b = [a EXCEPT !.paying = a.paying + 2]
  <2>1. a.paying + 2 \in Nat /\ a.paying + 2 >= a.paying
    BY <1>1
  <2>2. b \in Application
    BY <1>2, <2>1 DEF Application
  <2> QED BY <1>2, <2>1, <2>2, NoBetterThanItself DEF NoBetter, NoBetterCredit, Application
<1>3. CASE b = [a EXCEPT !.asked = a.asked + 1]
  <2>1. a.asked + 1 \in AskedAmounts /\ a.asked + 1 >= a.asked
    BY <1>1 DEF AskedAmounts
  <2>2. b \in Application
    BY <1>3, <2>1 DEF Application
  <2> QED BY <1>3, <2>1, <2>2, NoBetterThanItself DEF NoBetter, NoBetterCredit, Application
<1>4. CASE b = [a EXCEPT !.docs_status = "incomplete"]
  <2>1. "incomplete" \in PaperStates
    BY DEF PaperStates
  <2>2. b \in Application
    BY <1>4, <2>1 DEF Application
  <2> QED BY <1>4, <2>1, <2>2, NoBetterThanItself DEF NoBetter, NoBetterCredit, Application
<1>5. CASE b = [a EXCEPT !.dispute = "disputed"]
  <2>1. b \in Application
    BY <1>5 DEF Application
  <2> QED BY <1>5, <2>1, NoBetterThanItself DEF NoBetter, NoBetterCredit, Application
<1>6. CASE b = [a EXCEPT !.zoning = "planning_zone"]
  <2>1. b \in Application
    BY <1>6 DEF Application
  <2> QED BY <1>6, <2>1, NoBetterThanItself DEF NoBetter, NoBetterCredit, Application
<1>7. CASE b = [a EXCEPT !.value = IF a.value = 20 THEN 6 ELSE a.value]
  <2> DEFINE v == IF a.value = 20 THEN 6 ELSE a.value
  <2>1. v \in Nat /\ NoBetterValue(v, a.value)
    BY <1>1 DEF NoBetterValue
  <2> HIDE DEF v
  <2>2. b = [a EXCEPT !.value = v]
    BY <1>7 DEF v
  <2>3. b \in Application
    BY <2>1, <2>2 DEF Application
  <2> QED BY <2>1, <2>2, <2>3, NoBetterThanItself DEF NoBetter, NoBetterCredit, Application
<1>8. CASE b = [a EXCEPT !.collateral = IF a.collateral = "own" THEN "foreign" ELSE a.collateral]
  <2> DEFINE c == IF a.collateral = "own" THEN "foreign" ELSE a.collateral
  <2>1. c \in CollateralKinds /\ NoBetterCollateral(c, a.collateral)
    BY <1>1 DEF NoBetterCollateral, CollateralKinds
  <2> HIDE DEF c
  <2>2. b = [a EXCEPT !.collateral = c]
    BY <1>8 DEF c
  <2>3. b \in Application
    BY <2>1, <2>2 DEF Application
  <2> QED BY <2>1, <2>2, <2>3, NoBetterThanItself DEF NoBetter, NoBetterCredit, Application
<1>9. ASSUME NEW g \in WorseCic(a.cic), b = [a EXCEPT !.cic = g]
      PROVE  b \in Application /\ NoBetter(b, a)
  <2>1. g \in CicGroups /\ NoBetterCic(g, a.cic)
    BY <1>1, WorseFactsAre
  <2>2. b \in Application
    BY <1>9, <2>1 DEF Application
  <2> QED BY <1>9, <2>1, <2>2, NoBetterThanItself DEF NoBetter, NoBetterCredit, Application
<1>10. ASSUME NEW r \in WorsePolice(a.police), b = [a EXCEPT !.police = r]
       PROVE  b \in Application /\ NoBetter(b, a)
  <2>1. r \in PoliceFindings /\ NoBetterPolice(r, a.police)
    BY <1>1, WorsePoliceIs
  <2>2. b \in Application
    BY <1>10, <2>1 DEF Application
  <2> QED BY <1>10, <2>1, <2>2, NoBetterThanItself DEF NoBetter, NoBetterCredit, Application
<1>11. ASSUME NEW e \in WorseJob(a.employment), b = [a EXCEPT !.employment = e]
       PROVE  b \in Application /\ NoBetter(b, a)
  <2>1. e \in JobFindings /\ NoBetterJob(e, a.employment)
    BY <1>1, WorseJobIs
  <2>2. b \in Application
    BY <1>11, <2>1 DEF Application
  <2> QED BY <1>11, <2>1, <2>2, NoBetterThanItself DEF NoBetter, NoBetterCredit, Application
<1>12. ASSUME NEW d \in WorseDocs(a.docs), b = [a EXCEPT !.docs = d]
       PROVE  b \in Application /\ NoBetter(b, a)
  <2>1. d \in DocsStates /\ NoBetterDocs(d, a.docs)
    BY <1>1, WorseFactsAre
  <2>2. b \in Application
    BY <1>12, <2>1 DEF Application
  <2> QED BY <1>12, <2>1, <2>2, NoBetterThanItself DEF NoBetter, NoBetterCredit, Application
<1>13. ASSUME NEW u \in WorsePurpose(a.purpose), b = [a EXCEPT !.purpose = u]
       PROVE  b \in Application /\ NoBetter(b, a)
  <2>1. u \in PurposeKinds /\ NoBetterPurpose(u, a.purpose)
    BY <1>1, WorseFactsAre
  <2>2. b \in Application
    BY <1>13, <2>1 DEF Application
  <2> QED BY <1>13, <2>1, <2>2, NoBetterThanItself DEF NoBetter, NoBetterCredit, Application
<1> QED BY <1>2, <1>3, <1>4, <1>5, <1>6, <1>7, <1>8, <1>9, <1>10, <1>11, <1>12, <1>13 DEF Worse

\* No worse fact and no larger amount helps, and an absent one silences its own
\* check only, in any state of the runs' behaviours, whatever the bank's figures
\* are.
THEOREM WorseNeverHelpsAnywhere ==
  ASSUME CicBlock > 1
  PROVE  Spec => []WorseNeverHelps
<1>1. ASSUME CaseOK, case.what = "table", case.amount # NoAmount,
             NEW n \in case.amount .. 12, NEW l \in Lanes, NEW t \in Thresholds,
             Rank(l) <= Rank(case.lane), t <= case.threshold, Decision(case.action, n, l, t) = "auto"
      PROVE  Decision(case.action, case.amount, case.lane, case.threshold) = "auto"
  <2>1. case \in Table
    BY <1>1, CaseIs
  <2>2. case.amount \in 0 .. 12 /\ case.lane \in Lanes /\ case.threshold \in Thresholds
    BY <1>1, <2>1 DEF Table
  <2>3. case.amount \in Nat /\ n \in Nat /\ case.amount <= n
    BY <2>2
  <2>4. t \in Nat /\ case.threshold \in Nat
    BY <2>2 DEF Thresholds
  <2> QED BY <1>1, <2>2, <2>3, <2>4, DecisionsFall
<1>2. ASSUME CaseOK, case.what = "application"
      PROVE  /\ \A b \in Worse(case) :
                   /\ CreditRank(b) <= CreditRank(case)
                   /\ b.asked = case.asked
                      => Eligible(Enquiry(b), Products) \subseteq Eligible(Enquiry(case), Products)
                   /\ Rank(Lane(b)) <= Rank(Lane(case))
                   /\ \A t, u \in Thresholds :
                         u <= t /\ Decision("disburse", b.asked, Lane(b), u) = "auto"
                         => Decision("disburse", case.asked, Lane(case), t) = "auto"
             /\ AbsentSilencesItsCheck(case)
             /\ CreditRank([case EXCEPT !.income = IF case.income > 4 THEN 4 ELSE 0]) <= CreditRank(case)
  <2>1. case \in Application
    BY <1>2, CaseIs, CasesAreApplications
  <2>2. ASSUME NEW b \in Worse(case)
        PROVE  /\ CreditRank(b) <= CreditRank(case)
               /\ b.asked = case.asked
                  => Eligible(Enquiry(b), Products) \subseteq Eligible(Enquiry(case), Products)
               /\ Rank(Lane(b)) <= Rank(Lane(case))
               /\ \A t, u \in Thresholds :
                     u <= t /\ Decision("disburse", b.asked, Lane(b), u) = "auto"
                     => Decision("disburse", case.asked, Lane(case), t) = "auto"
    <3>1. b \in Application /\ NoBetter(b, case)
      BY <2>1, WorseIsNoBetter
    <3>2. Thresholds \subseteq Nat /\ 0 \in Nat
      BY DEF Thresholds
    <3>3. CreditRank(b) <= CreditRank(case) /\ Rank(Lane(b)) <= Rank(Lane(case))
      BY <2>1, <3>1, <3>2, WorseIsNeverBetter
    <3>4. ASSUME NEW t \in Thresholds, NEW u \in Thresholds, u <= t,
                 Decision("disburse", b.asked, Lane(b), u) = "auto"
          PROVE  Decision("disburse", case.asked, Lane(case), t) = "auto"
      BY <2>1, <3>1, <3>2, <3>4, WorseIsNeverBetter
    <3>5. b.asked = case.asked => Eligible(Enquiry(b), Products) \subseteq Eligible(Enquiry(case), Products)
      BY <2>1, <3>1, ProductsAre, WorseHasNoMoreProducts DEF NoBetter
    <3> QED BY <3>3, <3>4, <3>5
  <2>3. CreditRank([case EXCEPT !.income = IF case.income > 4 THEN 4 ELSE 0]) <= CreditRank(case)
    <3> DEFINE i == IF case.income > 4 THEN 4 ELSE 0
               b == [case EXCEPT !.income = i]
    <3>1. case.income \in Nat
      BY <2>1, ApplicationHas
    <3>2. i \in Nat /\ i <= case.income
      BY <3>1
    <3> HIDE DEF i
    <3>3. b \in Application
      BY <2>1, <3>2 DEF Application
    <3>4. NoBetterCredit(b, case)
      <4>1. NoBetterCredit(case, case)
        BY <2>1, NoBetterThanItself DEF NoBetter
      <4> QED BY <2>1, <3>2, <4>1 DEF NoBetterCredit, Application
    <3>5. CreditRank(b) <= CreditRank(case)
      BY <2>1, <3>3, <3>4, CreditFalls
    <3> QED BY <3>5 DEF i
  <2>4. AbsentSilencesItsCheck(case)
    BY <2>1, AbsentIsSilentOnly
  <2> QED BY <2>2, <2>3, <2>4
<1>3. CaseOK => WorseNeverHelps
  BY <1>1, <1>2 DEF WorseNeverHelps
<1> QED BY <1>3, CaseStays, PTL

-------------------------------------------------------------------------------
(* Sums as counts: one coin for each unit of each member                     *)

Coins(c, s) == UNION {{x} \X (1 .. c[x]) : x \in s}

LEMMA CoinsAreFinite ==
  ASSUME NEW s, IsFiniteSet(s), NEW c, \A x \in s : c[x] \in Nat
  PROVE  IsFiniteSet(Coins(c, s))
<1> DEFINE f == [x \in s |-> {x} \X (1 .. c[x])]
<1>1. \A x \in s : IsFiniteSet(f[x])
  <2> SUFFICES ASSUME NEW x \in s PROVE IsFiniteSet({x} \X (1 .. c[x]))
    OBVIOUS
  <2>1. IsFiniteSet({x})
    BY FS_Singleton
  <2>2. 1 \in Int /\ c[x] \in Int
    OBVIOUS
  <2>3. IsFiniteSet(1 .. c[x])
    BY <2>2, FS_Interval
  <2> QED BY <2>1, <2>3, FS_Product
<1>2. Coins(c, s) = UNION {f[x] : x \in s}
  BY DEF Coins
<1>3. DOMAIN f = s /\ f = [x \in s |-> f[x]]
  OBVIOUS
<1> HIDE DEF f
<1>4. IsFiniteSet({f[x] : x \in s})
  BY <1>3, ImageIsFinite
<1> QED BY <1>1, <1>2, <1>4, FS_UNION

LEMMA CoinsOfOne ==
  ASSUME NEW c, NEW x, c[x] \in Nat
  PROVE  IsFiniteSet({x} \X (1 .. c[x])) /\ Cardinality({x} \X (1 .. c[x])) = c[x]
<1>0. \A y : IsFiniteSet({y}) /\ Cardinality({y}) = 1
  BY FS_Singleton
<1>1. IsFiniteSet({x}) /\ Cardinality({x}) = 1 /\ IsFiniteSet(1 .. c[x]) /\ Cardinality(1 .. c[x]) = c[x]
  <2>1. 1 \in Int /\ c[x] \in Int
    OBVIOUS
  <2>2. IsFiniteSet(1 .. c[x]) /\ Cardinality(1 .. c[x]) = IF 1 > c[x] THEN 0 ELSE c[x] - 1 + 1
    BY <2>1, FS_Interval
  <2>3. Cardinality(1 .. c[x]) = c[x]
    BY ONLY <2>2, c[x] \in Nat
  <2> QED BY <1>0, <2>2, <2>3
<1>2. /\ IsFiniteSet({x} \X (1 .. c[x]))
      /\ Cardinality({x} \X (1 .. c[x])) = Cardinality({x}) * Cardinality(1 .. c[x])
  BY <1>1, FS_Product
<1> QED BY <1>1, <1>2

LEMMA CoinsApart ==
  ASSUME NEW c, NEW s, NEW t
  PROVE  /\ Coins(c, s \cup t) = Coins(c, s) \cup Coins(c, t)
         /\ s \cap t = {} => Coins(c, s) \cap Coins(c, t) = {}
         /\ s \subseteq t => Coins(c, s) \subseteq Coins(c, t)
BY DEF Coins

\* The sum of a function of natural numbers is the number of its coins.
LEMMA SumIsCoins ==
  ASSUME NEW G, IsFiniteSet(G), NEW c, \A x \in G : c[x] \in Nat
  PROVE  SumFunctionOnSet(c, G) = Cardinality(Coins(c, G))
<1> DEFINE Step(iter) == [s \in SUBSET G |-> IF s = {} THEN 0
                             ELSE c[CHOOSE x \in s : TRUE] + iter[s \ {CHOOSE x \in s : TRUE}]]
           I == CHOOSE iter : iter = Step(iter)
           F == [s \in SUBSET G |-> Cardinality(Coins(c, s))]
<1>1. SumFunctionOnSet(c, G) = I[G]
  BY Zenon DEF SumFunctionOnSet, FoldFunctionOnSet, MapThenFoldSet
<1>2. \A s \in SUBSET G : s # {} => (CHOOSE x \in s : TRUE) \in s
  OBVIOUS
<1>3. F[{}] = 0
  <2>1. Coins(c, {}) = {}
    BY DEF Coins
  <2>2. F[{}] = Cardinality(Coins(c, {}))
    OBVIOUS
  <2> HIDE DEF F
  <2> QED BY <2>1, <2>2, FS_EmptySet
<1>4. ASSUME NEW s \in SUBSET G, NEW x \in s
      PROVE  F[s] = c[x] + F[s \ {x}]
  <2> DEFINE A == {x} \X (1 .. c[x])
             B == Coins(c, s \ {x})
  <2>1. Coins(c, s) = A \cup B /\ A \cap B = {}
    BY DEF Coins
  <2>2. IsFiniteSet(s \ {x})
    BY FS_Subset
  <2>3. IsFiniteSet(B)
    BY <2>2, CoinsAreFinite
  <2>4. IsFiniteSet(A) /\ Cardinality(A) = c[x]
    BY CoinsOfOne
  <2>5. F[s] = Cardinality(Coins(c, s)) /\ F[s \ {x}] = Cardinality(B)
    OBVIOUS
  <2> HIDE DEF A, B, F
  <2>6. Cardinality(A \cup B) = Cardinality(A) + Cardinality(B) - Cardinality({})
    BY <2>1, <2>3, <2>4, FS_Union
  <2>7. Cardinality({}) = 0 /\ Cardinality(B) \in Nat /\ c[x] \in Nat
    BY <2>3, FS_EmptySet, FS_CardinalityType
  <2> QED BY <2>1, <2>4, <2>5, <2>6, <2>7
<1>5. F = [s \in SUBSET G |-> F[s]]
  OBVIOUS
<1>5a. F[G] = Cardinality(Coins(c, G))
  OBVIOUS
<1> HIDE DEF F
<1>6. F = Step(F)
  <2>1. \A s \in SUBSET G :
           F[s] = IF s = {} THEN 0
                  ELSE c[CHOOSE x \in s : TRUE] + F[s \ {CHOOSE x \in s : TRUE}]
    BY <1>2, <1>3, <1>4
  <2>2. Step(F) = [s \in SUBSET G |-> F[s]]
    BY <2>1
  <2> QED BY <1>5, <2>2
<1>7. I = Step(I)
  <2> HIDE DEF Step
  <2> QED BY <1>6
<1> HIDE DEF I
<1>8. /\ I[{}] = 0
      /\ \A s \in SUBSET G : s # {} =>
            I[s] = c[CHOOSE x \in s : TRUE] + I[s \ {CHOOSE x \in s : TRUE}]
  <2>1. \A s \in SUBSET G :
           I[s] = IF s = {} THEN 0
                  ELSE c[CHOOSE x \in s : TRUE] + I[s \ {CHOOSE x \in s : TRUE}]
    BY <1>7
  <2> QED BY <2>1
<1>9. InSomeWay(I, c, G)
  BY <1>2, <1>8 DEF InSomeWay
<1>10. InEveryWay(F, c, G)
  BY <1>3, <1>4 DEF InEveryWay
<1> HIDE DEF Step
<1>11. I[G] = F[G]
  BY <1>9, <1>10, OneSum
<1> QED BY <1>1, <1>5a, <1>11

LEMMA SumsAreNumbers ==
  ASSUME NEW G, IsFiniteSet(G), NEW c, \A x \in G : c[x] \in Nat
  PROVE  SumFunctionOnSet(c, G) \in Nat
BY SumIsCoins, CoinsAreFinite, FS_CardinalityType

\* More summands, no smaller sum.
LEMMA SumsGrow ==
  ASSUME NEW G, IsFiniteSet(G), NEW c, \A x \in G : c[x] \in Nat, NEW s \in SUBSET G
  PROVE  SumFunctionOnSet(c, s) <= SumFunctionOnSet(c, G)
<1>1. IsFiniteSet(s) /\ \A x \in s : c[x] \in Nat
  BY FS_Subset
<1>2. Coins(c, s) \subseteq Coins(c, G) /\ IsFiniteSet(Coins(c, G))
  BY CoinsApart, CoinsAreFinite
<1>3. Cardinality(Coins(c, s)) <= Cardinality(Coins(c, G))
  BY <1>2, FS_Subset
<1> QED BY <1>1, <1>3, SumIsCoins

\* Two sets that share nothing.
LEMMA SumsJoin ==
  ASSUME NEW s, IsFiniteSet(s), NEW t, IsFiniteSet(t), s \cap t = {},
         NEW c, \A x \in s \cup t : c[x] \in Nat
  PROVE  SumFunctionOnSet(c, s \cup t) = SumFunctionOnSet(c, s) + SumFunctionOnSet(c, t)
<1>1. IsFiniteSet(s \cup t)
  BY FS_Union
<1>2. IsFiniteSet(Coins(c, s)) /\ IsFiniteSet(Coins(c, t))
  BY CoinsAreFinite
<1>3. Coins(c, s \cup t) = Coins(c, s) \cup Coins(c, t) /\ Coins(c, s) \cap Coins(c, t) = {}
  BY CoinsApart
<1>4. Cardinality(Coins(c, s) \cup Coins(c, t))
         = Cardinality(Coins(c, s)) + Cardinality(Coins(c, t)) - Cardinality({})
  BY <1>2, <1>3, FS_Union
<1>5. Cardinality({}) = 0 /\ Cardinality(Coins(c, s)) \in Nat /\ Cardinality(Coins(c, t)) \in Nat
  BY <1>2, FS_EmptySet, FS_CardinalityType
<1>6. /\ SumFunctionOnSet(c, s \cup t) = Cardinality(Coins(c, s \cup t))
      /\ SumFunctionOnSet(c, s) = Cardinality(Coins(c, s))
      /\ SumFunctionOnSet(c, t) = Cardinality(Coins(c, t))
  BY <1>1, SumIsCoins
<1>7. Cardinality(Coins(c, s \cup t)) = Cardinality(Coins(c, s)) + Cardinality(Coins(c, t))
  <2>1. Cardinality(Coins(c, s \cup t)) = Cardinality(Coins(c, s) \cup Coins(c, t))
    BY <1>3
  <2> QED BY ONLY <2>1, <1>4, <1>5
<1> QED BY ONLY <1>6, <1>7

-------------------------------------------------------------------------------
(* Walks over graphs, for every set of links between any nodes               *)

\* What can be reached with one link more.
Further(links, from) == from \cup {l[2] : l \in {l \in links : l[1] \in from}}
Near(links, from, i) ==
    IF i = 0 THEN from
    ELSE IF i = 1 THEN Further(links, from)
    ELSE IF i = 2 THEN Further(links, Further(links, from))
    ELSE Further(links, Further(links, Further(links, from)))

LEMMA ReachedIs ==
  ASSUME NEW links, NEW from, NEW i \in 0 .. 3
  PROVE  Reached(links, from, i) = Near(links, from, i)
<1> DEFINE Step(f) == [j \in 0 .. i |->
                          IF j = 0 THEN from
                          ELSE f[j - 1] \cup {l[2] : l \in {l \in links : l[1] \in f[j - 1]}}]
           R == CHOOSE f : f = Step(f)
           P == [j \in 0 .. i |-> Near(links, from, j)]
<1>1. Reached(links, from, i) = R[i]
  BY Zenon DEF Reached
<1>2. \A j \in 0 .. i : j # 0 => j - 1 \in 0 .. i
  OBVIOUS
<1>3. P = Step(P)
  <2>1. ASSUME NEW j \in 0 .. i
        PROVE  P[j] = IF j = 0 THEN from
                      ELSE P[j - 1] \cup {l[2] : l \in {l \in links : l[1] \in P[j - 1]}}
    <3>1. CASE j = 0
      BY <3>1 DEF Near
    <3>2. CASE j # 0
      <4>1. P[j] = Near(links, from, j) /\ P[j - 1] = Near(links, from, j - 1)
        BY <1>2, <3>2
      <4>2. Near(links, from, j) = Further(links, Near(links, from, j - 1))
        <5>1. j = 1 \/ j = 2 \/ j = 3
          BY <3>2
        <5> QED BY <5>1 DEF Near
      <4> HIDE DEF P
      <4> QED BY <3>2, <4>1, <4>2 DEF Further
    <3> QED BY <3>1, <3>2
  <2> QED BY <2>1
<1>4. R = Step(R)
  <2> HIDE DEF Step, P
  <2> QED BY <1>3
<1> HIDE DEF R
<1>5. \A j \in 0 .. i : R[j] = IF j = 0 THEN from ELSE Further(links, R[j - 1])
  BY <1>4 DEF Further
<1>6. R[0] = Near(links, from, 0)
  BY <1>5 DEF Near
<1>7. i >= 1 => R[1] = Near(links, from, 1)
  BY <1>5, <1>6 DEF Near
<1>8. i >= 2 => R[2] = Near(links, from, 2)
  BY <1>5, <1>7 DEF Near
<1>9. i >= 3 => R[3] = Near(links, from, 3)
  BY <1>5, <1>8 DEF Near
<1> QED BY <1>1, <1>6, <1>7, <1>8, <1>9

\* The links that leave a set of pages, and those that follow a set of links.
LinksFrom(links, S)  == {l \in links : l[1] \in S}
LinksAfter(links, T) == {l \in links : \E t \in T : l[1] = t[2]}

LEMMA LinksFurther ==
  ASSUME NEW links, NEW S
  PROVE  LinksFrom(links, Further(links, S)) = LinksFrom(links, S) \cup LinksAfter(links, LinksFrom(links, S))
BY DEF Further, LinksFrom, LinksAfter

\* The links taken in i rounds are those that leave what i - 1 rounds reached.
LEMMA WalkIs ==
  ASSUME NEW links, NEW page, NEW d \in Int
  PROVE  /\ Depth(d) \in 1 .. 3
         /\ Walk(links, page, d) = LinksFrom(links, Near(links, {page}, Depth(d) - 1))
<1> DEFINE Step(f) == [i \in 1 .. 3 |->
                          IF i = 1 THEN {l \in links : l[1] = page}
                          ELSE f[i - 1] \cup {l \in links : \E t \in f[i - 1] : l[1] = t[2]}]
           R == CHOOSE f : f = Step(f)
           P == [i \in 1 .. 3 |-> LinksFrom(links, Near(links, {page}, i - 1))]
<1>0. Depth(d) \in 1 .. 3
  BY DEF Depth
<1>1. Walk(links, page, d) = R[Depth(d)]
  BY Zenon DEF Walk
<1>4. /\ P[1] = {l \in links : l[1] = page}
      /\ P[2] = P[1] \cup LinksAfter(links, P[1])
      /\ P[3] = P[2] \cup LinksAfter(links, P[2])
  <2>1. /\ P[1] = LinksFrom(links, {page})
        /\ P[2] = LinksFrom(links, Further(links, {page}))
        /\ P[3] = LinksFrom(links, Further(links, Further(links, {page})))
    BY DEF Near
  <2>2. LinksFrom(links, {page}) = {l \in links : l[1] = page}
    BY DEF LinksFrom
  <2> HIDE DEF P
  <2>3. P[2] = P[1] \cup LinksAfter(links, P[1])
    BY LinksFurther, <2>1
  <2>4. P[3] = P[2] \cup LinksAfter(links, P[2])
    BY LinksFurther, <2>1
  <2> QED BY <2>1, <2>2, <2>3, <2>4
<1>5. P = Step(P)
  <2>1. \A i \in 1 .. 3 : P[i] = IF i = 1 THEN {l \in links : l[1] = page}
                                 ELSE P[i - 1] \cup {l \in links : \E t \in P[i - 1] : l[1] = t[2]}
    <3> HIDE DEF P
    <3> SUFFICES ASSUME NEW i \in 1 .. 3
                 PROVE  P[i] = IF i = 1 THEN {l \in links : l[1] = page}
                               ELSE P[i - 1] \cup {l \in links : \E t \in P[i - 1] : l[1] = t[2]}
      OBVIOUS
    <3>0. LinksAfter(links, P[i - 1]) = {l \in links : \E t \in P[i - 1] : l[1] = t[2]}
      BY DEF LinksAfter
    <3>1. CASE i = 1
      BY <1>4, <3>1
    <3>2. CASE i # 1
      <4>1. P[i] = P[i - 1] \cup LinksAfter(links, P[i - 1])
        <5>1. CASE i = 2
          BY <1>4, <5>1
        <5>2. CASE i = 3
          <6>1. i - 1 = 2
            BY <5>2
          <6> QED BY <1>4, <5>2, <6>1
        <5> QED BY <3>2, <5>1, <5>2
      <4> QED BY <3>0, <3>2, <4>1
    <3> QED BY <3>1, <3>2
  <2>2. P = [i \in 1 .. 3 |-> P[i]]
    OBVIOUS
  <2> HIDE DEF P
  <2> QED BY <2>1, <2>2
<1>6. R = Step(R)
  <2> HIDE DEF Step, P
  <2> QED BY <1>5
<1> HIDE DEF R
<1>7. \A i \in 1 .. 3 : R[i] = IF i = 1 THEN {l \in links : l[1] = page}
                               ELSE R[i - 1] \cup LinksAfter(links, R[i - 1])
  BY <1>6 DEF LinksAfter
<1>8. R[1] = P[1] /\ R[2] = P[2] /\ R[3] = P[3]
  <2> HIDE DEF P
  <2>1. R[1] = P[1]
    BY <1>4, <1>7
  <2>2. R[2] = P[2]
    BY <1>4, <1>7, <2>1
  <2>3. R[3] = P[3]
    BY <1>4, <1>7, <2>2
  <2> QED BY <2>1, <2>2, <2>3
<1>9. R[Depth(d)] = P[Depth(d)]
  <2>1. Depth(d) = 1 \/ Depth(d) = 2 \/ Depth(d) = 3
    BY <1>0
  <2> HIDE DEF P
  <2> QED BY <1>8, <2>1
<1> QED BY <1>0, <1>1, <1>9

\* A document graph is what the links reach within the depth, and a depth
\* outside 1 .. 3 is the nearest of them (wiki_related_docs): for every set of
\* links.
THEOREM DocumentsAreReached ==
  ASSUME NEW links, NEW page, NEW d \in Int
  PROVE  Nodes(links, page, d) = Reached(links, {page}, Depth(d))
<1>a. /\ Depth(d) \in 1 .. 3
      /\ Walk(links, page, d) = LinksFrom(links, Near(links, {page}, Depth(d) - 1))
  BY WalkIs
<1>b. Reached(links, {page}, Depth(d)) = Near(links, {page}, Depth(d))
  <2>1. Depth(d) \in 0 .. 3
    BY <1>a
  <2> QED BY <2>1, ReachedIs
<1> DEFINE N(i) == Near(links, {page}, i)
<1>1. Depth(d) \in 1 .. 3 /\ Walk(links, page, d) = LinksFrom(links, N(Depth(d) - 1))
  BY <1>a
<1>2. Reached(links, {page}, Depth(d)) = N(Depth(d))
  BY <1>b
<1>3. N(Depth(d)) = Further(links, N(Depth(d) - 1))
  <2>1. Depth(d) = 1 \/ Depth(d) = 2 \/ Depth(d) = 3
    BY <1>1
  <2> QED BY <2>1 DEF Near
<1>4. ASSUME NEW S, page \in S,
             \A x \in S : x = page \/ \E l \in links : l[1] \in S /\ l[2] = x
      PROVE  /\ {page} \cup UNION {{l[1], l[2]} : l \in LinksFrom(links, S)} = Further(links, S)
             /\ page \in Further(links, S)
             /\ \A x \in Further(links, S) :
                   x = page \/ \E l \in links : l[1] \in Further(links, S) /\ l[2] = x
  BY <1>4 DEF Further, LinksFrom
<1>5. page \in N(0) /\ \A x \in N(0) : x = page \/ \E l \in links : l[1] \in N(0) /\ l[2] = x
  BY DEF Near
<1>6. N(1) = Further(links, N(0)) /\ N(2) = Further(links, N(1))
  BY DEF Near
<1> HIDE DEF N
<1>7. page \in N(1) /\ \A x \in N(1) : x = page \/ \E l \in links : l[1] \in N(1) /\ l[2] = x
  BY <1>4, <1>5, <1>6
<1>8. page \in N(2) /\ \A x \in N(2) : x = page \/ \E l \in links : l[1] \in N(2) /\ l[2] = x
  BY <1>4, <1>6, <1>7
<1>9. /\ page \in N(Depth(d) - 1)
      /\ \A x \in N(Depth(d) - 1) : x = page \/ \E l \in links : l[1] \in N(Depth(d) - 1) /\ l[2] = x
  <2>1. Depth(d) - 1 = 0 \/ Depth(d) - 1 = 1 \/ Depth(d) - 1 = 2
    BY <1>1
  <2> QED BY <1>5, <1>7, <1>8, <2>1
<1>10. Nodes(links, page, d) = Further(links, N(Depth(d) - 1))
  BY <1>1, <1>4, <1>9 DEF Nodes
<1> QED BY <1>2, <1>3, <1>10

\* Two owners that a relation joins, whichever way it was written down.
Joined(rel, n, x) == \E r \in rel : (r[1] = n /\ r[2] = x) \/ (r[1] = x /\ r[2] = n)

LEMMA RelatedAre ==
  ASSUME NEW rel, NEW n, NEW x
  PROVE  x \in Related(rel, n) <=> Joined(rel, n, x)
<1>1. ASSUME x \in Related(rel, n)
      PROVE  Joined(rel, n, x)
  <2>1. PICK r \in rel : n \in {r[1], r[2]} /\ x = IF r[1] = n THEN r[2] ELSE r[1]
    BY <1>1 DEF Related
  <2>2. CASE r[1] = n
    <3>1. x = r[2]
      BY <2>1, <2>2
    <3> QED BY <2>2, <3>1 DEF Joined
  <2>3. CASE r[1] # n
    <3>1. r[2] = n /\ x = r[1]
      BY <2>1, <2>3
    <3> QED BY <3>1 DEF Joined
  <2> QED BY <2>2, <2>3
<1>2. ASSUME Joined(rel, n, x)
      PROVE  x \in Related(rel, n)
  <2>1. PICK r \in rel : (r[1] = n /\ r[2] = x) \/ (r[1] = x /\ r[2] = n)
    BY <1>2 DEF Joined
  <2>2. x = IF r[1] = n THEN r[2] ELSE r[1]
    BY <2>1
  <2>3. n \in {r[1], r[2]}
    BY <2>1
  <2> QED BY <2>2, <2>3 DEF Related
<1> QED BY <1>1, <1>2

LEMMA GroupsAre ==
  ASSUME NEW rel, NEW o, NEW x
  PROVE  x \in Group(rel, o)
            <=> /\ x # o
                /\ Joined(rel, o, x) \/ \E n : Joined(rel, o, n) /\ Joined(rel, n, x)
<1>1. x \in Group(rel, o)
         <=> /\ x # o
             /\ x \in Related(rel, o) \/ \E n \in Related(rel, o) : x \in Related(rel, n)
  BY DEF Group
<1> QED BY <1>1, RelatedAre

LEMMA FurtherBothWays ==
  ASSUME NEW rel, NEW S, NEW x
  PROVE  x \in Further(Symmetric(rel), S) <=> x \in S \/ \E n \in S : Joined(rel, n, x)
<1>1. ASSUME NEW l \in Symmetric(rel), l[1] \in S, l[2] = x
      PROVE  \E n \in S : Joined(rel, n, x)
  <2>1. CASE l \in rel
    <3>1. \E r \in rel : r[1] = l[1] /\ r[2] = x
      BY <1>1, <2>1
    <3>2. Joined(rel, l[1], x)
      BY <3>1 DEF Joined
    <3> QED BY <1>1, <3>2
  <2>2. CASE \E r \in rel : l = <<r[2], r[1]>>
    BY <1>1, <2>2 DEF Joined
  <2> QED BY <1>1, <2>1, <2>2 DEF Symmetric
<1>2. ASSUME NEW n \in S, Joined(rel, n, x)
      PROVE  \E l \in Symmetric(rel) : l[1] \in S /\ l[2] = x
  <2>1. PICK r \in rel : (r[1] = n /\ r[2] = x) \/ (r[1] = x /\ r[2] = n)
    BY <1>2 DEF Joined
  <2>2. r \in Symmetric(rel) /\ <<r[2], r[1]>> \in Symmetric(rel)
    BY DEF Symmetric
  <2>3. CASE r[1] = n /\ r[2] = x
    BY <2>2, <2>3
  <2>4. CASE r[1] = x /\ r[2] = n
    <3>1. <<r[2], r[1]>>[1] = n /\ <<r[2], r[1]>>[2] = x
      BY <2>4
    <3> QED BY <2>2, <3>1
  <2> QED BY <2>1, <2>3, <2>4
<1>3. x \in Further(Symmetric(rel), S) <=> x \in S \/ \E l \in Symmetric(rel) : l[1] \in S /\ l[2] = x
  BY DEF Further
<1> QED BY <1>1, <1>2, <1>3

\* The group of an owner is everyone within two relations, whichever way they
\* were written down, each at the number of relations it is given; and two
\* members count each other (legal_related_exposure): for every set of
\* relations.
THEOREM GroupsAreReached ==
  ASSUME NEW rel, NEW o
  PROVE  /\ Group(rel, o) = Reached(Symmetric(rel), {o}, 2) \ {o}
         /\ \A p \in Group(rel, o) :
               /\ o \in Group(rel, p)
               /\ p \in Reached(Symmetric(rel), {o}, Level(rel, o, p))
<1>1. /\ Reached(Symmetric(rel), {o}, 1) = Further(Symmetric(rel), {o})
      /\ Reached(Symmetric(rel), {o}, 2) = Further(Symmetric(rel), Further(Symmetric(rel), {o}))
  BY ReachedIs DEF Near
<1>2. \A x : x \in Reached(Symmetric(rel), {o}, 1) <=> x = o \/ Joined(rel, o, x)
  BY <1>1, FurtherBothWays
<1>3. \A x : x \in Reached(Symmetric(rel), {o}, 2)
                <=> \/ x \in Reached(Symmetric(rel), {o}, 1)
                    \/ \E n \in Reached(Symmetric(rel), {o}, 1) : Joined(rel, n, x)
  BY <1>1, FurtherBothWays
<1>4. \A x : x \in Group(rel, o) <=> x \in Reached(Symmetric(rel), {o}, 2) \ {o}
  BY <1>2, <1>3, GroupsAre
<1>5. ASSUME NEW p \in Group(rel, o)
      PROVE  /\ o \in Group(rel, p)
             /\ p \in Reached(Symmetric(rel), {o}, Level(rel, o, p))
  <2>1. ASSUME NEW x, NEW y, Joined(rel, x, y)
        PROVE  Joined(rel, y, x)
    <3>1. PICK r \in rel : (r[1] = x /\ r[2] = y) \/ (r[1] = y /\ r[2] = x)
      BY <2>1 DEF Joined
    <3> QED BY <3>1 DEF Joined
  <2>2. p # o /\ (Joined(rel, o, p) \/ \E n : Joined(rel, o, n) /\ Joined(rel, n, p))
    BY <1>5, GroupsAre
  <2>3. o \in Group(rel, p)
    BY <2>1, <2>2, GroupsAre
  <2>4. p \in Reached(Symmetric(rel), {o}, Level(rel, o, p))
    <3>1. CASE p \in Related(rel, o)
      BY <1>2, <3>1, RelatedAre DEF Level
    <3>2. CASE p \notin Related(rel, o)
      BY <1>4, <1>5, <3>2 DEF Level
    <3> QED BY <3>1, <3>2
  <2> QED BY <2>3, <2>4
<1> QED BY <1>4, <1>5

\* A relation less never breaks a cap that held (legal_related_exposure): for
\* every set of relations between finitely many owners, every debt and loan.
THEOREM FewerRelationsFewerDebts ==
  ASSUME NEW owners, IsFiniteSet(owners), NEW rel \in SUBSET (owners \X owners), NEW less \in SUBSET rel,
         NEW debts \in [owners -> Nat], NEW o \in owners, NEW new \in Nat,
         GroupOk(rel, debts, o, new)
  PROVE  GroupOk(less, debts, o, new)
<1> DEFINE many == Group(rel, o) \cup {o}
           few  == Group(less, o) \cup {o}
<1>1. \A x : x \in Group(rel, o) => x \in owners
  <2>1. \A n, x : Joined(rel, n, x) => x \in owners
    BY DEF Joined
  <2> QED BY <2>1, GroupsAre
<1>2. IsFiniteSet(many) /\ \A x \in many : debts[x] \in Nat
  <2>1. many \in SUBSET owners
    BY <1>1
  <2> QED BY <2>1, FS_Subset
<1>3. few \in SUBSET many
  <2>1. \A n, x : Joined(less, n, x) => Joined(rel, n, x)
    BY DEF Joined
  <2>2. \A x : x \in Group(less, o) => x \in Group(rel, o)
    BY <2>1, GroupsAre
  <2> QED BY <2>2
<1>4. IsFiniteSet(few) /\ \A x \in few : debts[x] \in Nat
  BY <1>2, <1>3, FS_Subset
<1> HIDE DEF many, few
<1>5. SumFunctionOnSet(debts, few) <= SumFunctionOnSet(debts, many)
  BY <1>2, <1>3, SumsGrow
<1>6. SumFunctionOnSet(debts, few) \in Nat /\ SumFunctionOnSet(debts, many) \in Nat
  BY <1>2, <1>4, SumsAreNumbers
<1>7. SumFunctionOnSet(debts, many) + new <= GroupCap
  BY DEF GroupOk, Debt, many
<1>8. SumFunctionOnSet(debts, few) + new <= GroupCap
  BY ONLY <1>5, <1>6, <1>7, CapAssumption, new \in Nat
<1> QED BY <1>8 DEF GroupOk, Debt, few

(* The registry of stores, for every catalogue of finitely many names        *)

\* What an alias stands for, one turn of the loop.
Behind(cat, name) == IF IsAlias(cat, name) THEN cat[name].target ELSE name

\* The names a walk of k turns passes.
Passes(cat, name, k, f) ==
    /\ f = [i \in 0 .. k |-> f[i]]
    /\ f[0] = name
    /\ \A i \in 1 .. k : f[i] = Behind(cat, f[i - 1])

LEMMA WalksEnd ==
  ASSUME NEW cat, NEW name
  PROVE  \A k \in Nat : \E f : Passes(cat, name, k, f)
<1> DEFINE T == {k \in Nat : ~\E f : Passes(cat, name, k, f)}
<1> SUFFICES ASSUME T # {} PROVE FALSE
  OBVIOUS
<1>1. T \in SUBSET Nat
  OBVIOUS
<1>2. PICK n \in T : \A m \in T : ~(m < n)
  <2> HIDE DEF T
  <2> QED BY <1>1, LeastOf
<1>3. n \in Nat /\ ~\E f : Passes(cat, name, n, f)
  OBVIOUS
<1>4. CASE n = 0
  <2> DEFINE f == [i \in 0 .. 0 |-> name]
  <2>1. f = [i \in 0 .. 0 |-> f[i]] /\ f[0] = name
    OBVIOUS
  <2>2. \A i \in 1 .. 0 : f[i] = Behind(cat, f[i - 1])
    OBVIOUS
  <2> HIDE DEF f
  <2>3. Passes(cat, name, 0, f)
    BY <2>1, <2>2 DEF Passes
  <2> QED BY <1>3, <1>4, <2>3
<1>5. CASE n # 0
  <2>1. n - 1 \in Nat /\ n - 1 < n
    BY <1>3, <1>5
  <2>2. PICK g : Passes(cat, name, n - 1, g)
    BY <1>2, <2>1
  <2> DEFINE f == [i \in 0 .. n |-> IF i = n THEN Behind(cat, g[n - 1]) ELSE g[i]]
  <2>3. f = [i \in 0 .. n |-> f[i]]
    OBVIOUS
  <2>4. f[0] = name
    BY <1>3, <1>5, <2>2 DEF Passes
  <2>5. ASSUME NEW i \in 1 .. n PROVE f[i] = Behind(cat, f[i - 1])
    <3>1. i - 1 \in 0 .. n /\ i - 1 # n
      BY <1>3
    <3>2. f[i - 1] = g[i - 1]
      BY <3>1
    <3>3. CASE i = n
      BY <1>3, <3>2, <3>3
    <3>4. CASE i # n
      <4>1. i \in 1 .. (n - 1) /\ i \in 0 .. n
        BY <1>3, <3>4
      <4>2. f[i] = g[i]
        BY <3>4, <4>1
      <4> HIDE DEF f
      <4> QED BY <2>2, <3>2, <4>1, <4>2 DEF Passes
    <3> QED BY <3>3, <3>4
  <2> HIDE DEF f
  <2>6. Passes(cat, name, n, f)
    BY <2>3, <2>4, <2>5 DEF Passes
  <2> QED BY <1>3, <2>6
<1> QED BY <1>4, <1>5

LEMMA WalkedPasses ==
  ASSUME NEW cat, IsFiniteSet(DOMAIN cat), NEW name
  PROVE  Passes(cat, name, Cardinality(DOMAIN cat), Walked(cat, name))
<1> DEFINE n == Cardinality(DOMAIN cat)
           Step(f) == [i \in 0 .. n |->
                         IF i = 0 THEN name
                         ELSE IF IsAlias(cat, f[i - 1]) THEN cat[f[i - 1]].target ELSE f[i - 1]]
           R == CHOOSE f : f = Step(f)
<1>1. Walked(cat, name) = R
  BY Zenon DEF Walked
<1>2. n \in Nat
  BY FS_CardinalityType
<1> HIDE DEF n
<1>3. PICK g : Passes(cat, name, n, g)
  BY <1>2, WalksEnd
<1>4. g = Step(g)
  <2>1. ASSUME NEW i \in 0 .. n
        PROVE  g[i] = IF i = 0 THEN name
                      ELSE IF IsAlias(cat, g[i - 1]) THEN cat[g[i - 1]].target ELSE g[i - 1]
    <3>1. CASE i = 0
      BY <1>3, <3>1 DEF Passes
    <3>2. CASE i # 0
      <4>1. i \in 1 .. n
        BY <1>2, <3>2
      <4> QED BY <1>3, <3>2, <4>1 DEF Passes, Behind
    <3> QED BY <3>1, <3>2
  <2>2. g = [i \in 0 .. n |-> g[i]]
    BY <1>3 DEF Passes
  <2> QED BY <2>1, <2>2
<1>5. R = Step(R)
  <2> HIDE DEF Step
  <2> QED BY <1>4
<1> HIDE DEF R
<1>6. R = [i \in 0 .. n |-> R[i]]
  BY <1>5
<1>7. R[0] = name
  <2>1. 0 \in 0 .. n
    BY <1>2
  <2> QED BY <1>5, <2>1
<1>8. \A i \in 1 .. n : R[i] = Behind(cat, R[i - 1])
  <2> SUFFICES ASSUME NEW i \in 1 .. n PROVE R[i] = Behind(cat, R[i - 1])
    OBVIOUS
  <2>1. i \in 0 .. n /\ i # 0
    BY <1>2
  <2> QED BY <1>5, <2>1 DEF Behind
<1>9. Passes(cat, name, n, R)
  BY <1>6, <1>7, <1>8 DEF Passes
<1> QED BY <1>1, <1>9 DEF n

\* A walk that has come to a real store stays there.
LEMMA RealStays ==
  ASSUME NEW cat, NEW name, NEW n \in Nat, NEW f, Passes(cat, name, n, f),
         NEW i \in 0 .. n, ~IsAlias(cat, f[i])
  PROVE  f[n] = f[i]
<1> DEFINE T == {k \in i .. n : f[k] # f[i]}
<1> SUFFICES ASSUME T # {} PROVE FALSE
  <2>1. n \in i .. n
    OBVIOUS
  <2> QED BY <2>1
<1>1. T \in SUBSET Nat
  OBVIOUS
<1>2. PICK k \in T : \A m \in T : ~(m < k)
  <2> HIDE DEF T
  <2> QED BY <1>1, LeastOf
<1>3. k \in i .. n /\ f[k] # f[i]
  OBVIOUS
<1>4. k - 1 \in i .. n /\ k \in 1 .. n /\ k - 1 < k
  BY <1>3
<1>5. f[k - 1] = f[i]
  BY <1>2, <1>4
<1> QED BY <1>3, <1>4, <1>5 DEF Passes, Behind

\* The walk from what an alias stands for is the alias's own, one turn ahead.
LEMMA StepAhead ==
  ASSUME NEW cat, NEW name, NEW n \in Nat, NEW f, NEW g, n > 0,
         Passes(cat, name, n, f), Passes(cat, Behind(cat, name), n, g), ~IsAlias(cat, f[n])
  PROVE  g[n] = f[n]
<1> DEFINE T == {k \in 1 .. n : g[k - 1] # f[k]}
<1>1. ASSUME T # {} PROVE FALSE
  <2>1. T \in SUBSET Nat
    OBVIOUS
  <2>2. PICK k \in T : \A m \in T : ~(m < k)
    <3> HIDE DEF T
    <3> QED BY <1>1, <2>1, LeastOf
  <2>3. k \in 1 .. n /\ g[k - 1] # f[k] /\ f[k] = Behind(cat, f[k - 1])
    BY <2>2 DEF Passes
  <2>4. CASE k = 1
    BY <2>3, <2>4 DEF Passes
  <2>5. CASE k # 1
    <3>1. k - 1 \in 1 .. n /\ k - 1 < k
      BY <2>3, <2>5
    <3>2. g[(k - 1) - 1] = f[k - 1]
      BY <2>2, <3>1
    <3>3. g[k - 1] = Behind(cat, g[(k - 1) - 1])
      BY <3>1 DEF Passes
    <3> QED BY <2>3, <3>2, <3>3
  <2> QED BY <2>4, <2>5
<1>2. n \in 1 .. n
  OBVIOUS
<1>3. g[n - 1] = f[n]
  BY <1>1, <1>2
<1>4. g[n] = Behind(cat, g[n - 1])
  BY <1>2 DEF Passes
<1> QED BY <1>3, <1>4 DEF Behind

\* A registry that was accepted leads each of its names to a store of the file:
\* no walk along its aliases leaves the file or goes round, and an alias leads
\* where its target does (_validate_aliases, DataStoreRegistry.get).
THEOREM AcceptedNamesAreStores ==
  ASSUME NEW cat, IsFiniteSet(DOMAIN cat), ~CatalogueRefused(cat), NEW name \in DOMAIN cat
  PROVE  /\ End(cat, name) \in DOMAIN cat
         /\ ~IsAlias(cat, End(cat, name))
         /\ ~IsAlias(cat, name) => End(cat, name) = name
         /\ IsAlias(cat, name) => End(cat, name) = End(cat, cat[name].target)
<1> DEFINE n == Cardinality(DOMAIN cat)
           W == Walked(cat, name)
<1>1. n \in Nat
  BY FS_CardinalityType
<1>2. Passes(cat, name, n, W)
  BY WalkedPasses
<1>3. End(cat, name) = W[n]
  BY DEF End
<1>0. /\ Passes(cat, cat[name].target, n, Walked(cat, cat[name].target))
      /\ End(cat, cat[name].target) = Walked(cat, cat[name].target)[n]
  BY WalkedPasses DEF End
<1>4. ~LeadsNowhere(cat, name) /\ ~LeadsBack(cat, name)
  BY DEF CatalogueRefused
<1>5. DOMAIN W = 0 .. n /\ W = [i \in 0 .. n |-> W[i]]
  <2>1. W = [i \in 0 .. n |-> W[i]]
    BY <1>2 DEF Passes
  <2> HIDE DEF W, n
  <2> QED BY <2>1
<1>6. W \in [0 .. n -> DOMAIN cat]
  <2>1. \A i \in 0 .. n : W[i] \in DOMAIN cat
    BY <1>4, <1>5 DEF LeadsNowhere
  <2> HIDE DEF W, n
  <2> QED BY <1>5, <2>1
<1>7. \A i, j \in 0 .. n : i < j /\ W[i] = W[j] => ~IsAlias(cat, W[i])
  BY <1>4, <1>5 DEF LeadsBack
<1>8. IsFiniteSet(0 .. n) /\ Cardinality(0 .. n) = n + 1
  <2>1. 0 \in Int /\ n \in Int
    BY <1>1
  <2> HIDE DEF n
  <2>2. IsFiniteSet(0 .. n) /\ Cardinality(0 .. n) = IF 0 > n THEN 0 ELSE n - 0 + 1
    BY <2>1, FS_Interval
  <2> QED BY <1>1, <2>2
<1>9. Cardinality(DOMAIN cat) < Cardinality(0 .. n)
  BY <1>1, <1>8
<1>10. PICK i, j \in 0 .. n : i # j /\ W[i] = W[j]
  <2> HIDE DEF W, n
  <2> QED BY <1>6, <1>8, <1>9, FS_PigeonHole
<1> HIDE DEF W, n
<1>11. \E k \in 0 .. n : ~IsAlias(cat, W[k])
  <2>1. i < j \/ j < i
    BY <1>1, <1>10
  <2> QED BY <1>7, <1>10, <2>1
<1>12. PICK k \in 0 .. n : ~IsAlias(cat, W[k])
  BY <1>11
<1>13. W[n] = W[k]
  BY <1>1, <1>2, <1>12, RealStays
<1>14. W[k] \in DOMAIN cat
  BY <1>6
<1>15. ASSUME ~IsAlias(cat, name)
       PROVE  W[n] = name
  <2>1. 0 \in 0 .. n /\ W[0] = name
    BY <1>1, <1>2 DEF Passes
  <2>2. ~IsAlias(cat, W[0])
    BY <1>15, <2>1
  <2>3. W[n] = W[0]
    BY <1>1, <1>2, <2>1, <2>2, RealStays
  <2> QED BY <2>1, <2>3
<1>16. ASSUME IsAlias(cat, name)
       PROVE  W[n] = End(cat, cat[name].target)
  <2>1. W[0] = name /\ ~IsAlias(cat, W[n])
    BY <1>2, <1>12, <1>13 DEF Passes
  <2>2. n > 0
    BY <1>1, <1>16, <2>1
  <2>3. Behind(cat, name) = cat[name].target
    BY <1>16 DEF Behind
  <2> QED BY <1>0, <1>1, <1>2, <2>1, <2>2, <2>3, StepAhead
<1> QED BY <1>3, <1>12, <1>13, <1>14, <1>15, <1>16

\* What the names of an accepted registry answer: a store of its own just where
\* its adapter can be made, an alias as its target.  Its health check fails for
\* want of an adapter, or where a required alias leads to an optional store
\* (get, healthcheck_required).
THEOREM AcceptedNamesAnswer ==
  ASSUME NEW cat, IsFiniteSet(DOMAIN cat), ~CatalogueRefused(cat)
  PROVE  /\ \A name \in DOMAIN cat :
               /\ ~IsAlias(cat, name) => Store(cat, name) = {r \in {name} : CanBeMade(cat[r])}
               /\ IsAlias(cat, name) => Store(cat, name) = Store(cat, cat[name].target)
         /\ HealthFails(cat) =>
               \E name \in Required(cat) :
                  \/ ~cat[End(cat, name)].adapter
                  \/ IsAlias(cat, name) /\ ~cat[End(cat, name)].required
<1>1. \A name \in DOMAIN cat :
         /\ End(cat, name) \in DOMAIN cat /\ ~IsAlias(cat, End(cat, name))
         /\ ~IsAlias(cat, name) => End(cat, name) = name
         /\ IsAlias(cat, name) => End(cat, name) = End(cat, cat[name].target)
  BY AcceptedNamesAreStores
<1>2. ASSUME NEW name \in Required(cat), Store(cat, name) = {}
      PROVE  \/ ~cat[End(cat, name)].adapter
             \/ IsAlias(cat, name) /\ ~cat[End(cat, name)].required
  <2> DEFINE e == End(cat, name)
  <2>1. name \in DOMAIN cat /\ cat[name].required
    BY DEF Required
  <2>2. ~CanBeMade(cat[e])
    BY <1>2 DEF Store
  <2>3. ~DefinitionRefused(cat[e]) /\ cat[e].driver # "alias"
    BY <1>1, <2>1 DEF CatalogueRefused, IsAlias
  <2>4. cat[e].adapter => ~cat[e].required
    BY <2>2, <2>3 DEF CanBeMade, DefinitionRefused
  <2> QED BY <1>1, <2>1, <2>4
<1>3. \A name \in DOMAIN cat :
         /\ ~IsAlias(cat, name) => Store(cat, name) = {r \in {name} : CanBeMade(cat[r])}
         /\ IsAlias(cat, name) => Store(cat, name) = Store(cat, cat[name].target)
  BY <1>1 DEF Store
<1> QED BY <1>2, <1>3 DEF HealthFails

\* The first name with a capability is asked, and no other (for_capability).
LEMMA FirstIsAsked ==
  ASSUME NEW cat, NEW order, DOMAIN order \subseteq Nat, NEW c
  PROVE  LET able == {i \in DOMAIN order : c \in cat[order[i]].capabilities}
         IN \/ able = {} /\ Provider(cat, order, c) = {}
            \/ \E i \in able : /\ \A j \in able : i <= j
                               /\ Provider(cat, order, c) = Store(cat, order[i])
<1> DEFINE able  == {i \in DOMAIN order : c \in cat[order[i]].capabilities}
           first == {i \in able : \A j \in able : i <= j}
<1>1. Provider(cat, order, c) = UNION {Store(cat, order[i]) : i \in first}
  BY DEF Provider
<1>2. able \in SUBSET Nat
  OBVIOUS
<1>3. CASE able = {}
  <2>1. first = {}
    BY <1>3
  <2> HIDE DEF first
  <2>2. {Store(cat, order[i]) : i \in first} = {}
    BY <2>1
  <2> QED BY <1>1, <1>3, <2>2
<1>4. CASE able # {}
  <2> HIDE DEF able
  <2>1. PICK i \in able : \A m \in able : ~(m < i)
    BY <1>2, <1>4, LeastOf
  <2>2. \A j \in able : i <= j
    BY <1>2, <2>1
  <2>3. first = {i}
    <3>1. i \in first
      BY <2>2
    <3>2. ASSUME NEW k \in first PROVE k = i
      <4>1. k \in able /\ k <= i
        BY <2>1
      <4>2. i <= k /\ i \in Nat /\ k \in Nat
        BY <1>2, <2>2, <4>1
      <4> QED BY <4>1, <4>2
    <3> QED BY <3>1, <3>2
  <2> HIDE DEF first
  <2>4. Provider(cat, order, c) = Store(cat, order[i])
    BY <1>1, <2>3
  <2> QED BY <2>2, <2>4 DEF able
<1> QED BY <1>3, <1>4

\* A health check that does not fail reached the store behind each required
\* name of the file (healthcheck_required).
LEMMA HealthReachesAll ==
  ASSUME NEW cat, NEW order, {order[i] : i \in DOMAIN order} = DOMAIN cat, ~HealthFails(cat)
  PROVE  HealthChecked(cat, order) = {End(cat, name) : name \in Required(cat)}
<1> DEFINE gets(i)  == order[i] \in Required(cat) => Store(cat, order[i]) # {}
           passed == {i \in DOMAIN order : /\ order[i] \in Required(cat)
                                           /\ \A j \in DOMAIN order : j <= i => gets(j)}
<1>1. \A name \in Required(cat) : Store(cat, name) = {End(cat, name)}
  BY DEF HealthFails, Store
<1>2. passed = {i \in DOMAIN order : order[i] \in Required(cat)}
  BY <1>1
<1>3. HealthChecked(cat, order) = UNION {Store(cat, order[i]) : i \in passed}
  BY DEF HealthChecked
<1> HIDE DEF passed
<1>4. \A i \in passed : Store(cat, order[i]) = {End(cat, order[i])} /\ order[i] \in Required(cat)
  BY <1>1, <1>2
<1>5. \A name \in Required(cat) : \E i \in passed : order[i] = name
  BY <1>2 DEF Required
<1>6. UNION {Store(cat, order[i]) : i \in passed} = {End(cat, order[i]) : i \in passed}
  BY <1>4
<1>7. {End(cat, order[i]) : i \in passed} = {End(cat, name) : name \in Required(cat)}
  BY <1>4, <1>5
<1> QED BY <1>3, <1>6, <1>7

\* Walks over every set of relations and links between the owners, and every
\* catalogue of the three names.
THEOREM WalksReachAnywhere == Spec => []WalksReach
<1>1. ASSUME CaseOK, case.what = "graph"
      PROVE  /\ \A o \in Owners : Group(case.edges, o) = Reached(Symmetric(case.edges), {o}, 2) \ {o}
             /\ \A o, p \in Owners : p \in Group(case.edges, o) => o \in Group(case.edges, p)
             /\ \A o \in Owners : \A p \in Group(case.edges, o) :
                   p \in Reached(Symmetric(case.edges), {o}, Level(case.edges, o, p))
             /\ \A o \in Owners, pair \in case.edges :
                   GroupOk(case.edges, ToyDebts, o, 3) => GroupOk(case.edges \ {pair}, ToyDebts, o, 3)
             /\ \A o \in Owners, d \in 0 .. 4 :
                   Nodes(case.edges, o, d) = Reached(case.edges, {o}, Depth(d))
  <2>1. case.edges \in SUBSET (Owners \X Owners)
    <3>1. case \in Graphs
      BY <1>1, CaseIs
    <3>2. Pairs \subseteq Owners \X Owners
      BY DEF Pairs, Owners
    <3> QED BY <3>1, <3>2 DEF Graphs
  <2>2. IsFiniteSet(Owners)
    <3>1. 1 \in Int /\ 4 \in Int
      OBVIOUS
    <3>2. IsFiniteSet(1 .. 4)
      BY <3>1, FS_Interval
    <3> QED BY <3>2 DEF Owners
  <2>3. ToyDebts \in [Owners -> Nat]
    BY DEF ToyDebts
  <2>4. ASSUME NEW o \in Owners, NEW pair \in case.edges, GroupOk(case.edges, ToyDebts, o, 3)
        PROVE  GroupOk(case.edges \ {pair}, ToyDebts, o, 3)
    <3>1. case.edges \ {pair} \in SUBSET case.edges /\ 3 \in Nat
      OBVIOUS
    <3> QED BY <2>1, <2>2, <2>3, <2>4, <3>1, FewerRelationsFewerDebts
  <2>5. ASSUME NEW o \in Owners, NEW d \in 0 .. 4
        PROVE  Nodes(case.edges, o, d) = Reached(case.edges, {o}, Depth(d))
    <3>1. d \in Int
      OBVIOUS
    <3> QED BY <3>1, DocumentsAreReached
  <2>6. \A o : /\ Group(case.edges, o) = Reached(Symmetric(case.edges), {o}, 2) \ {o}
               /\ \A p \in Group(case.edges, o) :
                     /\ o \in Group(case.edges, p)
                     /\ p \in Reached(Symmetric(case.edges), {o}, Level(case.edges, o, p))
    BY GroupsAreReached
  <2> QED BY <2>4, <2>5, <2>6
<1>2. ASSUME CaseOK, case.what = "stores", ~CatalogueRefused(case.cat)
      PROVE  LET cat  == case.cat
                 real == {name \in DOMAIN cat : ~IsAlias(cat, name)}
             IN /\ \A name \in DOMAIN cat :
                      /\ End(cat, name) \in real
                      /\ name \in real => Store(cat, name) = {r \in {name} : CanBeMade(cat[r])}
                      /\ name \notin real => Store(cat, name) = Store(cat, cat[name].target)
                /\ \A c \in {"sql", "core", "cache", "none"} :
                      LET able == {i \in DOMAIN StoreOrder : c \in cat[StoreOrder[i]].capabilities}
                      IN \/ able = {} /\ Provider(cat, StoreOrder, c) = {}
                         \/ \E i \in able : /\ \A j \in able : i <= j
                                            /\ Provider(cat, StoreOrder, c) = Store(cat, StoreOrder[i])
                /\ ~HealthFails(cat) =>
                      HealthChecked(cat, StoreOrder) = {End(cat, name) : name \in Required(cat)}
                /\ HealthFails(cat) =>
                      \E name \in Required(cat) :
                         \/ ~cat[End(cat, name)].adapter
                         \/ IsAlias(cat, name) /\ ~cat[End(cat, name)].required
  <2> DEFINE cat == case.cat
  <2>1. cat \in [{"core", "cache", "vector"} -> Definitions]
    BY <1>2, CaseIs DEF Stores
  <2>2. DOMAIN cat = {"core", "cache", "vector"}
    BY <2>1
  <2>3. IsFiniteSet(DOMAIN cat)
    <3>1. \A x : IsFiniteSet({x})
      BY FS_Singleton
    <3>2. \A x, y : IsFiniteSet({x} \cup {y})
      BY <3>1, FS_Union
    <3>3. \A x, y, z : IsFiniteSet({x} \cup {y} \cup {z})
      BY <3>1, <3>2, FS_Union
    <3>4. IsFiniteSet({"core"} \cup {"cache"} \cup {"vector"})
      BY <3>3
    <3>5. DOMAIN cat = {"core"} \cup {"cache"} \cup {"vector"}
      BY <2>2
    <3> QED BY <3>4, <3>5
  <2>4. ~CatalogueRefused(cat)
    BY <1>2
  <2>5. DOMAIN StoreOrder = 1 .. 3 /\ {StoreOrder[i] : i \in DOMAIN StoreOrder} = DOMAIN cat
    <3>1. DOMAIN StoreOrder = 1 .. 3
      BY DEF StoreOrder
    <3>2. StoreOrder[1] = "core" /\ StoreOrder[2] = "cache" /\ StoreOrder[3] = "vector"
      BY DEF StoreOrder
    <3>3. 1 .. 3 = {1, 2, 3}
      OBVIOUS
    <3> QED BY <2>2, <3>1, <3>2, <3>3
  <2> HIDE DEF cat
  <2>6. \A name \in DOMAIN cat : End(cat, name) \in DOMAIN cat /\ ~IsAlias(cat, End(cat, name))
    BY <2>3, <2>4, AcceptedNamesAreStores
  <2>7. /\ \A name \in DOMAIN cat :
              /\ ~IsAlias(cat, name) => Store(cat, name) = {r \in {name} : CanBeMade(cat[r])}
              /\ IsAlias(cat, name) => Store(cat, name) = Store(cat, cat[name].target)
        /\ HealthFails(cat) =>
              \E name \in Required(cat) :
                 \/ ~cat[End(cat, name)].adapter
                 \/ IsAlias(cat, name) /\ ~cat[End(cat, name)].required
    BY <2>3, <2>4, AcceptedNamesAnswer
  <2>8. \A c \in {"sql", "core", "cache", "none"} :
           LET able == {i \in DOMAIN StoreOrder : c \in cat[StoreOrder[i]].capabilities}
           IN \/ able = {} /\ Provider(cat, StoreOrder, c) = {}
              \/ \E i \in able : /\ \A j \in able : i <= j
                                 /\ Provider(cat, StoreOrder, c) = Store(cat, StoreOrder[i])
    <3>1. DOMAIN StoreOrder \subseteq Nat
      BY <2>5
    <3> QED BY <3>1, FirstIsAsked
  <2>9. ~HealthFails(cat) => HealthChecked(cat, StoreOrder) = {End(cat, name) : name \in Required(cat)}
    BY <2>5, HealthReachesAll
  <2>10. \A name \in DOMAIN cat :
            /\ End(cat, name) \in {n \in DOMAIN cat : ~IsAlias(cat, n)}
            /\ name \in {n \in DOMAIN cat : ~IsAlias(cat, n)}
                  => Store(cat, name) = {r \in {name} : CanBeMade(cat[r])}
            /\ name \notin {n \in DOMAIN cat : ~IsAlias(cat, n)}
                  => Store(cat, name) = Store(cat, cat[name].target)
    BY <2>6, <2>7
  <2> QED BY <2>7, <2>8, <2>9, <2>10 DEF cat
<1>3. CaseOK => WalksReach
  BY <1>1, <1>2 DEF WalksReach
<1> QED BY <1>3, CaseStays, PTL

LEMMA SumOfOne ==
  ASSUME NEW c, NEW x, c[x] \in Nat
  PROVE  SumFunctionOnSet(c, {x}) = c[x]
<1>1. IsFiniteSet({x})
  BY FS_Singleton
<1>2. SumFunctionOnSet(c, {x}) = Cardinality(Coins(c, {x}))
  <2>1. \A y \in {x} : c[y] \in Nat
    OBVIOUS
  <2> QED BY <1>1, <2>1, SumIsCoins
<1>3. Coins(c, {x}) = {x} \X (1 .. c[x])
  BY DEF Coins
<1> QED BY <1>2, <1>3, CoinsOfOne

LEMMA SumOfNone ==
  ASSUME NEW c
  PROVE  SumFunctionOnSet(c, {}) = 0
<1>1. IsFiniteSet({}) /\ \A x \in {} : c[x] \in Nat
  BY FS_EmptySet
<1>2. SumFunctionOnSet(c, {}) = Cardinality(Coins(c, {}))
  BY <1>1, SumIsCoins
<1>3. Coins(c, {}) = {}
  BY DEF Coins
<1> QED BY <1>2, <1>3, FS_EmptySet

\* A sum is of the values on its set, whatever the function is elsewhere.
LEMMA SumsAgree ==
  ASSUME NEW s, IsFiniteSet(s), NEW c, NEW d, \A x \in s : c[x] \in Nat /\ d[x] = c[x]
  PROVE  SumFunctionOnSet(d, s) = SumFunctionOnSet(c, s)
<1>1. Coins(c, s) = Coins(d, s)
  <2>1. \A x \in s : {x} \X (1 .. c[x]) = {x} \X (1 .. d[x])
    OBVIOUS
  <2> QED BY <2>1 DEF Coins
<1>2. \A x \in s : d[x] \in Nat
  OBVIOUS
<1>3. /\ SumFunctionOnSet(c, s) = Cardinality(Coins(c, s))
      /\ SumFunctionOnSet(d, s) = Cardinality(Coins(d, s))
  BY <1>2, SumIsCoins
<1> QED BY <1>1, <1>3

\* To count is to sum ones.
LEMMA CountsAreSums ==
  ASSUME NEW s, IsFiniteSet(s), NEW c, \A x \in s : c[x] = 1
  PROVE  SumFunctionOnSet(c, s) = Cardinality(s)
<1>1. SumFunctionOnSet(c, s) = Cardinality(Coins(c, s))
  <2>1. \A x \in s : c[x] \in Nat
    OBVIOUS
  <2> QED BY <2>1, SumIsCoins
<1>2. Coins(c, s) = s \X {1}
  <2>1. \A x \in s : {x} \X (1 .. c[x]) = {x} \X {1}
    OBVIOUS
  <2> QED BY <2>1 DEF Coins
<1>3. IsFiniteSet({1}) /\ Cardinality({1}) = 1
  BY FS_Singleton
<1>4. Cardinality(s \X {1}) = Cardinality(s) * Cardinality({1})
  BY <1>3, FS_Product
<1>5. Cardinality(s) \in Nat
  BY FS_CardinalityType
<1>6. Cardinality(s) * 1 = Cardinality(s)
  BY ONLY <1>5
<1>7. Cardinality(Coins(c, s)) = Cardinality(s \X {1})
  BY <1>2
<1> QED BY <1>1, <1>3, <1>4, <1>6, <1>7

\* The sums of the parts of a set are its sum.
Parts(P, D, s) ==
    /\ \A b \in D : P[b] \subseteq s
    /\ \A a, b \in D : a # b => P[a] \cap P[b] = {}
    /\ \A x \in s : \E b \in D : x \in P[b]
PartOf(P, d) == UNION {P[b] : b \in d}

LEMMA PartsAddUp ==
  ASSUME NEW s, IsFiniteSet(s), NEW w, \A x \in s : w[x] \in Nat,
         NEW D, IsFiniteSet(D), NEW P, Parts(P, D, s),
         NEW c, \A b \in D : c[b] = SumFunctionOnSet(w, P[b])
  PROVE  SumFunctionOnSet(c, D) = SumFunctionOnSet(w, s)
<1>1. \A b \in D : IsFiniteSet(P[b]) /\ \A x \in P[b] : w[x] \in Nat
  BY FS_Subset DEF Parts
<1>2. \A b \in D : c[b] \in Nat
  BY <1>1, SumsAreNumbers
<1>3. ASSUME NEW d \in SUBSET D
      PROVE  PartOf(P, d) \subseteq s /\ IsFiniteSet(PartOf(P, d)) /\ IsFiniteSet(d)
  <2>1. PartOf(P, d) \in SUBSET s
    BY DEF PartOf, Parts
  <2> QED BY <2>1, FS_Subset
<1> DEFINE T == {d \in SUBSET D : SumFunctionOnSet(c, d) # SumFunctionOnSet(w, PartOf(P, d))}
<1>4. T = {}
  <2> SUFFICES ASSUME T # {} PROVE FALSE
    OBVIOUS
  <2>1. PICK d \in T : \A e \in T : ~(Cardinality(e) < Cardinality(d))
    <3>1. T \in SUBSET SUBSET D
      OBVIOUS
    <3> HIDE DEF T
    <3> QED BY <3>1, SmallestOf
  <2>2. d \in SUBSET D /\ SumFunctionOnSet(c, d) # SumFunctionOnSet(w, PartOf(P, d))
    OBVIOUS
  <2>3. d # {}
    <3>1. PartOf(P, {}) = {}
      BY DEF PartOf
    <3> QED BY <2>2, <3>1, SumOfNone
  <2>4. PICK b \in d : TRUE
    BY <2>3
  <2> DEFINE e == d \ {b}
  <2>5. e \in SUBSET D /\ e \notin T
    <3>1. IsFiniteSet(d)
      BY <1>3
    <3>2. Cardinality(e) = Cardinality(d) - 1 /\ Cardinality(d) \in Nat
      BY <2>4, <3>1, FS_RemoveElement, FS_CardinalityType
    <3>3. Cardinality(e) < Cardinality(d)
      BY <3>2
    <3> HIDE DEF T
    <3>4. e \in SUBSET D
      BY <2>2
    <3> QED BY <2>1, <3>3, <3>4
  <2>6. SumFunctionOnSet(c, e) = SumFunctionOnSet(w, PartOf(P, e))
    BY <2>5
  <2>7. SumFunctionOnSet(c, d) = SumFunctionOnSet(c, e) + SumFunctionOnSet(c, {b})
    <3>1. d = e \cup {b} /\ e \cap {b} = {} /\ IsFiniteSet(e) /\ IsFiniteSet({b})
      BY <1>3, <2>4, <2>5
    <3>2. \A x \in e \cup {b} : c[x] \in Nat
      BY <1>2, <2>2
    <3> HIDE DEF e
    <3> QED BY <3>1, <3>2, SumsJoin
  <2>8. PartOf(P, d) = PartOf(P, e) \cup P[b] /\ PartOf(P, e) \cap P[b] = {}
    BY <2>2, <2>4 DEF PartOf, Parts
  <2>9. SumFunctionOnSet(w, PartOf(P, d)) = SumFunctionOnSet(w, PartOf(P, e)) + SumFunctionOnSet(w, P[b])
    <3>1. IsFiniteSet(PartOf(P, e)) /\ IsFiniteSet(P[b])
      BY <1>1, <1>3, <2>2, <2>5
    <3>2. \A x \in PartOf(P, e) \cup P[b] : w[x] \in Nat
      <4>1. PartOf(P, e) \cup P[b] \subseteq s
        BY <1>3, <2>2, <2>5 DEF Parts
      <4> QED BY <4>1
    <3> HIDE DEF e
    <3>3. SumFunctionOnSet(w, PartOf(P, e) \cup P[b])
             = SumFunctionOnSet(w, PartOf(P, e)) + SumFunctionOnSet(w, P[b])
      BY <2>8, <3>1, <3>2, SumsJoin
    <3> QED BY <2>8, <3>3
  <2>10. SumFunctionOnSet(c, {b}) = SumFunctionOnSet(w, P[b])
    BY <1>2, <2>2, SumOfOne
  <2> HIDE DEF T, e
  <2> QED BY <2>2, <2>6, <2>7, <2>9, <2>10
<1>5. D \notin T
  BY <1>4
<1>6. PartOf(P, D) = s
  BY DEF PartOf, Parts
<1> QED BY <1>5, <1>6

-------------------------------------------------------------------------------
(* What is shown together adds up, for every finite set of rows and turns,   *)
(* and for what two statements see when rows are committed between them      *)

LEMMA CountedIs ==
  ASSUME NEW key, NEW all, NEW r
  PROVE  r \in Counted(key, all) <=> r \in all /\ r \in Counted(key, {r})
<1>1. CASE key = "approved"
  BY <1>1 DEF Counted
<1>2. CASE key = "rejected"
  BY <1>2 DEF Counted
<1>3. CASE key = "auto"
  BY <1>3 DEF Counted
<1>4. CASE key = "conversations"
  BY <1>4 DEF Counted
<1>5. CASE key \notin {"approved", "rejected", "auto", "conversations"}
  BY <1>5 DEF Counted
<1> QED BY <1>1, <1>2, <1>3, <1>4, <1>5

\* A row within a window has a column.
LEMMA ColumnIs ==
  ASSUME NEW start \in Int, NEW end \in Int, NEW r, r.at \in Int, start <= r.at, r.at < end
  PROVE  Column(r, start, end) \in 0 .. SparkBuckets - 1
<1> DEFINE n == r.at - start
           d == end - start
           q == (n * SparkBuckets) \div d
<1>1. SparkBuckets \in Nat \ {0}
  BY FiguresAssumption
<1>2. n \in Nat /\ d \in Nat \ {0} /\ n + 1 <= d
  OBVIOUS
<1> HIDE DEF n, d
<1>3. n * SparkBuckets \in Nat
  BY ONLY <1>1, <1>2
<1>4. q \in Nat /\ d * q <= n * SparkBuckets
  BY <1>2, <1>3, QuotientIs
<1>5. ~(SparkBuckets <= q)
  <2> SUFFICES ASSUME SparkBuckets <= q PROVE FALSE
    OBVIOUS
  <2> HIDE DEF q
  <2>1. (n + 1) * SparkBuckets <= d * SparkBuckets /\ d * SparkBuckets <= d * q
    <3>1. n + 1 \in Nat /\ d \in Nat /\ SparkBuckets \in Nat /\ q \in Nat
      BY <1>1, <1>2, <1>4
    <3> QED BY <1>2, <3>1, ProductsGrow
  <2>2. (n + 1) * SparkBuckets = n * SparkBuckets + SparkBuckets
    BY ONLY <1>1, <1>2
  <2>3. d * SparkBuckets \in Nat /\ d * q \in Nat
    BY ONLY <1>1, <1>2, <1>4
  <2> QED BY ONLY <1>1, <1>3, <1>4, <2>1, <2>2, <2>3
<1>6. q \in 0 .. SparkBuckets - 1
  <2> HIDE DEF q
  <2> QED BY ONLY <1>1, <1>4, <1>5
<1> QED BY <1>6 DEF Column, n, d

\* The columns of a sparkline add up to the figure of the rows its own statement
\* sees (_sparks): for every window, every number of columns and every finite set of rows.
THEOREM SparksAddUp ==
  ASSUME NEW key, NEW all, IsFiniteSet(all), \A r \in all : r.at \in Int,
         NEW start \in Int, NEW end \in Int
  PROVE  SumFunction(Spark(key, all, start, end)) = StatOf(key, all, start, end)
<1> DEFINE s == Shown(key, all, start, end)
           D == 0 .. SparkBuckets - 1
           P == [b \in D |-> {r \in s : Column(r, start, end) = b}]
           w == [r \in s |-> 1]
           c == Spark(key, all, start, end)
<1>1. s \in SUBSET all /\ \A r \in s : start <= r.at /\ r.at < end
  <2>1. \A r \in s : r \in InWindow(all, start, end)
    BY CountedIs DEF Shown
  <2> HIDE DEF s
  <2> QED BY <2>1 DEF InWindow
<1>2. IsFiniteSet(s) /\ \A r \in s : w[r] = 1
  <2> HIDE DEF s
  <2> QED BY <1>1, FS_Subset
<1>3. IsFiniteSet(D)
  <2>1. 0 \in Int /\ SparkBuckets - 1 \in Int
    BY FiguresAssumption
  <2> QED BY <2>1, FS_Interval
<1>4. Parts(P, D, s)
  <2>1. \A r \in s : Column(r, start, end) \in D
    BY <1>1, ColumnIs
  <2> HIDE DEF s, D
  <2> QED BY <2>1 DEF Parts
<1>5. c = [b \in D |-> Cardinality(P[b])]
  BY DEF Spark
<1> HIDE DEF D, c, s
<1>6. \A b \in D : c[b] = SumFunctionOnSet(w, P[b])
  <2> SUFFICES ASSUME NEW b \in D PROVE c[b] = SumFunctionOnSet(w, P[b])
    OBVIOUS
  <2>1. P[b] \in SUBSET s
    OBVIOUS
  <2>2. IsFiniteSet(P[b]) /\ \A r \in P[b] : w[r] = 1
    <3> HIDE DEF P, w
    <3> QED BY <1>2, <2>1, FS_Subset
  <2> HIDE DEF P, w
  <2>3. SumFunctionOnSet(w, P[b]) = Cardinality(P[b])
    BY <2>2, CountsAreSums
  <2> QED BY <1>5, <2>3
<1> HIDE DEF P, w
<1>7. SumFunctionOnSet(c, D) = SumFunctionOnSet(w, s)
  <2>1. \A r \in s : w[r] \in Nat
    BY <1>2
  <2> QED BY <1>2, <1>3, <1>4, <1>6, <2>1, PartsAddUp
<1>8. SumFunctionOnSet(w, s) = Cardinality(s)
  BY <1>2, CountsAreSums
<1>9. SumFunction(c) = SumFunctionOnSet(c, D)
  <2>1. DOMAIN c = D
    BY <1>5
  <2> QED BY <2>1 DEF SumFunction
<1> QED BY <1>7, <1>8, <1>9 DEF c, s, StatOf

\* Two adjacent windows count what the one they make counts (_stat, delta).
THEOREM WindowsAddUp ==
  ASSUME NEW key, NEW all, IsFiniteSet(all), \A r \in all : r.at \in Int,
         NEW start \in Int, NEW mid \in Int, NEW end \in Int, start <= mid, mid <= end
  PROVE  /\ StatOf(key, all, start, mid) + StatOf(key, all, mid, end) = StatOf(key, all, start, end)
         /\ Cardinality(InWindow(all, start, mid)) + Cardinality(InWindow(all, mid, end))
               = Cardinality(InWindow(all, start, end))
<1> DEFINE A == InWindow(all, start, mid)
           B == InWindow(all, mid, end)
           W == InWindow(all, start, end)
<1>1. A \in SUBSET all /\ B \in SUBSET all /\ W = A \cup B /\ A \cap B = {}
  <2>1. \A r \in all : r \in W <=> r \in A \/ r \in B
    BY DEF InWindow
  <2>2. \A r \in all : ~(r \in A /\ r \in B)
    BY DEF InWindow
  <2>3. A \subseteq all /\ B \subseteq all /\ W \subseteq all
    BY DEF InWindow
  <2> HIDE DEF A, B, W
  <2> QED BY <2>1, <2>2, <2>3
<1> HIDE DEF A, B, W
<1>2. ASSUME NEW a, NEW b, a \subseteq A, b \subseteq B
      PROVE  /\ Cardinality(a) \in Nat /\ Cardinality(b) \in Nat
             /\ Cardinality(a \cup b) = Cardinality(a) + Cardinality(b)
  <2>1. a \in SUBSET all /\ b \in SUBSET all /\ a \cap b = {}
    BY <1>1, <1>2
  <2>2. IsFiniteSet(a) /\ IsFiniteSet(b)
    BY <2>1, FS_Subset
  <2>3. Cardinality(a) \in Nat /\ Cardinality(b) \in Nat /\ Cardinality({}) = 0
    BY <2>2, FS_CardinalityType, FS_EmptySet
  <2>4. Cardinality(a \cup b) = Cardinality(a) + Cardinality(b) - Cardinality({})
    BY <2>1, <2>2, FS_Union
  <2> QED BY <2>3, <2>4
<1>3. Cardinality(W) = Cardinality(A) + Cardinality(B)
  BY <1>1, <1>2
<1>4. /\ Counted(key, A) \subseteq A /\ Counted(key, B) \subseteq B
      /\ Counted(key, W) = Counted(key, A) \cup Counted(key, B)
  BY <1>1, CountedIs
<1>5. Cardinality(Counted(key, W)) = Cardinality(Counted(key, A)) + Cardinality(Counted(key, B))
  BY <1>2, <1>4
<1> QED BY <1>3, <1>5 DEF StatOf, Shown, A, B, W

Priced(turns) == IsFiniteSet(turns) /\ \A t \in turns : t.cost \in Nat

LEMMA CostIs ==
  ASSUME NEW turns, Priced(turns), NEW part \in SUBSET turns
  PROVE  /\ Priced(part)
         /\ Cost(part) = SumFunctionOnSet([t \in turns |-> t.cost], part)
         /\ Cost(part) \in Nat
<1> DEFINE w == [t \in turns |-> t.cost]
           v == [t \in part |-> t.cost]
<1>1. Priced(part)
  <2>1. IsFiniteSet(part)
    BY FS_Subset DEF Priced
  <2> QED BY <2>1 DEF Priced
<1>2. \A x \in part : v[x] \in Nat /\ w[x] = v[x]
  BY DEF Priced
<1>3. Cost(part) = SumFunctionOnSet(v, part)
  BY DEF Cost, SumFunction
<1> HIDE DEF v, w
<1>4. IsFiniteSet(part)
  BY <1>1 DEF Priced
<1>5. SumFunctionOnSet(w, part) = SumFunctionOnSet(v, part)
  BY <1>2, <1>4, SumsAgree
<1>6. SumFunctionOnSet(v, part) \in Nat
  BY <1>2, <1>4, SumsAreNumbers
<1> QED BY <1>1, <1>3, <1>5, <1>6 DEF w

\* What two groups of turns cost, and what every turn of a group does.
LEMMA CostsJoin ==
  ASSUME NEW turns, Priced(turns), NEW a, NEW b, turns = a \cup b, a \cap b = {}
  PROVE  Cost(turns) = Cost(a) + Cost(b)
<1> DEFINE w == [t \in turns |-> t.cost]
<1>1. a \in SUBSET turns /\ b \in SUBSET turns /\ turns \in SUBSET turns
  OBVIOUS
<1>2. \A x \in a \cup b : w[x] \in Nat
  BY DEF Priced
<1>3. /\ Cost(a) = SumFunctionOnSet(w, a) /\ Cost(b) = SumFunctionOnSet(w, b)
      /\ Cost(turns) = SumFunctionOnSet(w, turns)
      /\ Priced(a) /\ Priced(b)
  BY <1>1, CostIs
<1> HIDE DEF w
<1>4. SumFunctionOnSet(w, a \cup b) = SumFunctionOnSet(w, a) + SumFunctionOnSet(w, b)
  <2>1. IsFiniteSet(a) /\ IsFiniteSet(b)
    BY <1>3 DEF Priced
  <2> QED BY <1>2, <2>1, SumsJoin
<1> QED BY <1>3, <1>4

LEMMA CostsAddUp ==
  ASSUME NEW turns, Priced(turns), NEW D, IsFiniteSet(D), NEW P, Parts(P, D, turns),
         NEW c, \A b \in D : c[b] = Cost(P[b])
  PROVE  SumFunctionOnSet(c, D) = Cost(turns)
<1> DEFINE w == [t \in turns |-> t.cost]
<1>1. \A x \in turns : w[x] \in Nat
  BY DEF Priced
<1>2. turns \in SUBSET turns /\ \A b \in D : P[b] \in SUBSET turns
  BY DEF Parts
<1>3. Cost(turns) = SumFunctionOnSet(w, turns) /\ \A b \in D : c[b] = SumFunctionOnSet(w, P[b])
  BY <1>2, CostIs
<1> HIDE DEF w
<1>4. IsFiniteSet(turns)
  BY DEF Priced
<1> QED BY <1>1, <1>3, <1>4, PartsAddUp

\* Sums by any key of a turn.
LEMMA CostsByKey ==
  ASSUME NEW turns, Priced(turns), NEW key, key = [t \in turns |-> key[t]],
         NEW c, c = [b \in {key[t] : t \in turns} |-> Cost({t \in turns : key[t] = b})]
  PROVE  SumFunction(c) = Cost(turns)
<1> DEFINE D == {key[t] : t \in turns}
           P == [b \in D |-> {t \in turns : key[t] = b}]
<1>1. IsFiniteSet(D)
  <2>1. IsFiniteSet(turns) /\ DOMAIN key = turns
    BY DEF Priced
  <2> QED BY <2>1, ImageIsFinite
<1>2. Parts(P, D, turns)
  BY DEF Parts
<1>3. \A b \in D : c[b] = Cost(P[b])
  OBVIOUS
<1>4. DOMAIN c = D
  OBVIOUS
<1> HIDE DEF D, P
<1>5. SumFunctionOnSet(c, D) = Cost(turns)
  BY ONLY <1>1, <1>2, <1>3, CostsAddUp, Priced(turns)
<1> QED BY <1>4, <1>5 DEF SumFunction

\* The roles, the models with the turns that name none, and the points of a
\* trend add up to the total cost (_cost_sync, _trend_sync): for every finite
\* set of turns and every width of a bucket.
THEOREM CostsOfAllKinds ==
  ASSUME NEW turns, Priced(turns)
  PROVE  /\ SumFunction(ByRole(turns)) = Cost(turns)
         /\ SumFunction(ByModel(turns)) + Cost({t \in turns : t.model = NoModel}) = Cost(turns)
         /\ \A group \in {"role", "model"} : SumFunction(Trend(turns, group)) = Cost(turns)
<1>1. SumFunction(ByRole(turns)) = Cost(turns)
  <2> DEFINE key == [t \in turns |-> t.role]
  <2>1. key = [t \in turns |-> key[t]]
    OBVIOUS
  <2>2. {key[t] : t \in turns} = {t.role : t \in turns}
    OBVIOUS
  <2>3. \A b : {t \in turns : key[t] = b} = {t \in turns : t.role = b}
    OBVIOUS
  <2> HIDE DEF key
  <2>4. ByRole(turns) = [b \in {key[t] : t \in turns} |-> Cost({t \in turns : key[t] = b})]
    BY <2>2, <2>3 DEF ByRole
  <2> QED BY <2>1, <2>4, CostsByKey
<1>2. SumFunction(ByModel(turns)) + Cost({t \in turns : t.model = NoModel}) = Cost(turns)
  <2> DEFINE named == {t \in turns : t.model # NoModel}
             other == {t \in turns : t.model = NoModel}
             key   == [t \in named |-> t.model]
  <2>1. turns = named \cup other /\ named \cap other = {} /\ named \in SUBSET turns
    OBVIOUS
  <2>2. Priced(named)
    BY <2>1, CostIs
  <2>3. key = [t \in named |-> key[t]]
    OBVIOUS
  <2>4. {key[t] : t \in named} = {t.model : t \in turns} \ {NoModel}
    OBVIOUS
  <2>5. \A b : b # NoModel => {t \in named : key[t] = b} = {t \in turns : t.model = b}
    OBVIOUS
  <2>6. NoModel \notin {key[t] : t \in named}
    OBVIOUS
  <2> HIDE DEF key, named, other
  <2>7. ByModel(turns) = [b \in {key[t] : t \in named} |-> Cost({t \in named : key[t] = b})]
    BY <2>4, <2>5, <2>6 DEF ByModel
  <2>8. SumFunction(ByModel(turns)) = Cost(named)
    BY <2>2, <2>3, <2>7, CostsByKey
  <2>9. Cost(turns) = Cost(named) + Cost(other)
    BY <2>1, CostsJoin
  <2> QED BY <2>8, <2>9 DEF other
<1>3. ASSUME NEW group \in {"role", "model"}
      PROVE  SumFunction(Trend(turns, group)) = Cost(turns)
  <2> DEFINE key == [t \in turns |-> <<t.at \div TrendBucket, NameOf(t, group)>>]
  <2>1. key = [t \in turns |-> key[t]]
    OBVIOUS
  <2>2. {key[t] : t \in turns} = {<<t.at \div TrendBucket, NameOf(t, group)>> : t \in turns}
    OBVIOUS
  <2>3. ASSUME NEW b \in {key[t] : t \in turns}
        PROVE  {t \in turns : key[t] = b}
                  = {t \in turns : t.at \div TrendBucket = b[1] /\ NameOf(t, group) = b[2]}
    <3>1. PICK u \in turns : b = <<u.at \div TrendBucket, NameOf(u, group)>>
      BY <2>3
    <3>2. \A t \in turns : key[t] = b <=> t.at \div TrendBucket = b[1] /\ NameOf(t, group) = b[2]
      BY <3>1
    <3> HIDE DEF key
    <3> QED BY <3>2
  <2> HIDE DEF key
  <2>4. Trend(turns, group) = [b \in {key[t] : t \in turns} |-> Cost({t \in turns : key[t] = b})]
    BY <2>2, <2>3 DEF Trend
  <2> QED BY <2>1, <2>4, CostsByKey
<1> QED BY <1>1, <1>2, <1>3

\* Two sets that were seen one after the other: what the first lost and the
\* second won is the whole difference of their sizes and of their costs.
LEMMA SizesBalance ==
  ASSUME NEW a, IsFiniteSet(a), NEW b, IsFiniteSet(b)
  PROVE  Cardinality(b) + Cardinality(a \ b) = Cardinality(a) + Cardinality(b \ a)
<1>1. ASSUME NEW x, IsFiniteSet(x), NEW y
      PROVE  /\ Cardinality(x) = Cardinality(x \cap y) + Cardinality(x \ y)
             /\ Cardinality(x \cap y) \in Nat /\ Cardinality(x \ y) \in Nat
  <2>1. x \cap y \in SUBSET x /\ x \ y \in SUBSET x
    OBVIOUS
  <2>2. IsFiniteSet(x \cap y) /\ IsFiniteSet(x \ y)
    BY <1>1, <2>1, FS_Subset
  <2>3. /\ Cardinality((x \cap y) \cup (x \ y))
              = Cardinality(x \cap y) + Cardinality(x \ y) - Cardinality((x \cap y) \cap (x \ y))
        /\ Cardinality(x \cap y) \in Nat /\ Cardinality(x \ y) \in Nat
    BY <2>2, FS_Union, FS_CardinalityType
  <2>4. (x \cap y) \cup (x \ y) = x /\ (x \cap y) \cap (x \ y) = {} /\ Cardinality({}) = 0
    BY FS_EmptySet
  <2>5. Cardinality(x) = Cardinality(x \cap y) + Cardinality(x \ y) - 0
    BY <2>3, <2>4
  <2> QED BY <2>3, <2>5
<1>2. /\ Cardinality(a) = Cardinality(a \cap b) + Cardinality(a \ b)
      /\ Cardinality(b) = Cardinality(a \cap b) + Cardinality(b \ a)
      /\ Cardinality(a \cap b) \in Nat /\ Cardinality(a \ b) \in Nat /\ Cardinality(b \ a) \in Nat
  <2>1. b \cap a = a \cap b
    OBVIOUS
  <2> QED BY <1>1, <2>1
<1> QED BY ONLY <1>2

LEMMA CostsBalance ==
  ASSUME NEW a, Priced(a), NEW b, Priced(b)
  PROVE  Cost(b) + Cost(a \ b) = Cost(a) + Cost(b \ a)
<1>1. ASSUME NEW x, Priced(x), NEW y
      PROVE  /\ Cost(x) = Cost(x \cap y) + Cost(x \ y)
             /\ Cost(x \cap y) \in Nat /\ Cost(x \ y) \in Nat
  <2>1. /\ x \cap y \in SUBSET x /\ x \ y \in SUBSET x
        /\ x = (x \cap y) \cup (x \ y) /\ (x \cap y) \cap (x \ y) = {}
    OBVIOUS
  <2>2. Cost(x) = Cost(x \cap y) + Cost(x \ y)
    BY <1>1, <2>1, CostsJoin
  <2> QED BY <1>1, <2>1, <2>2, CostIs
<1>2. /\ Cost(a) = Cost(a \cap b) + Cost(a \ b)
      /\ Cost(b) = Cost(a \cap b) + Cost(b \ a)
      /\ Cost(a \cap b) \in Nat /\ Cost(a \ b) \in Nat /\ Cost(b \ a) \in Nat
  <2>1. b \cap a = a \cap b
    OBVIOUS
  <2> QED BY <1>1, <2>1
<1> QED BY ONLY <1>2

\* A turn that cost something is seen in the total.
LEMMA SomethingSpent ==
  ASSUME NEW turns, Priced(turns), \A t \in turns : t.cost # 0
  PROVE  Cost(turns) = 0 <=> turns = {}
<1>1. ASSUME turns = {}
      PROVE  Cost(turns) = 0
  <2>1. Cost(turns) = SumFunctionOnSet([t \in turns |-> t.cost], turns)
    BY DEF Cost, SumFunction
  <2> QED BY <1>1, <2>1, SumOfNone
<1>2. ASSUME NEW t \in turns
      PROVE  Cost(turns) # 0
  <2> DEFINE w == [u \in turns |-> u.cost]
  <2>1. w[t] \in Nat /\ w[t] # 0
    BY DEF Priced
  <2>2. Cost(turns) = SumFunctionOnSet(w, turns) /\ Cost(turns) \in Nat
    <3>1. turns \in SUBSET turns
      OBVIOUS
    <3> QED BY <3>1, CostIs
  <2>3. SumFunctionOnSet(w, {t}) <= SumFunctionOnSet(w, turns)
    <3>1. IsFiniteSet(turns) /\ {t} \in SUBSET turns /\ \A x \in turns : w[x] \in Nat
      BY DEF Priced
    <3> HIDE DEF w
    <3> QED BY <3>1, SumsGrow
  <2>4. SumFunctionOnSet(w, {t}) = w[t]
    BY <2>1, SumOfOne
  <2> HIDE DEF w
  <2> QED BY <2>1, <2>2, <2>3, <2>4
<1> QED BY <1>1, <1>2

(* No anomaly among few conversations                                        *)

LEMMA SquareOfDifference ==
  ASSUME NEW x \in Nat, NEW v \in Nat
  PROVE  2 * (v * x) <= x * x + v * v
<1> DEFINE d == x - v
<1>1. d \in Int /\ x = v + d
  OBVIOUS
<1> HIDE DEF d
<1>2. d * d >= 0
  BY <1>1
<1>3. x * x = v * v + 2 * (v * d) + d * d
  BY <1>1
<1>4. v * x = v * v + v * d
  BY <1>1
<1>5. v * v \in Int /\ v * d \in Int /\ d * d \in Int
  BY <1>1
<1> QED BY ONLY <1>2, <1>3, <1>4, <1>5

\* One value more: with S the sum of m values and Q that of their squares.
LEMMA OneMoreSquare ==
  ASSUME NEW S \in Nat, NEW Q \in Nat, NEW m \in Nat, NEW x \in Nat, NEW v \in Nat,
         2 * (v * S) <= Q + m * (v * v)
  PROVE  2 * (v * (S + x)) <= (Q + x * x) + (m + 1) * (v * v)
<1>1. v * (S + x) = v * S + v * x
  OBVIOUS
<1>2. (m + 1) * (v * v) = m * (v * v) + v * v
  OBVIOUS
<1>3. 2 * (v * x) <= x * x + v * v
  BY SquareOfDifference
<1>4. v * S \in Nat /\ v * x \in Nat /\ x * x \in Nat /\ v * v \in Nat /\ m * (v * v) \in Nat
  OBVIOUS
<1> QED BY ONLY <1>1, <1>2, <1>3, <1>4, Q \in Nat, 2 * (v * S) <= Q + m * (v * v)

LEMMA OneMoreValue ==
  ASSUME NEW S \in Nat, NEW Q \in Nat, NEW m \in Nat, NEW x \in Nat,
         2 * (x * S) <= Q + m * (x * x), S * S <= m * Q
  PROVE  (S + x) * (S + x) <= (m + 1) * (Q + x * x)
<1>1. (S + x) * (S + x) = S * S + 2 * (x * S) + x * x
  OBVIOUS
<1>2. (m + 1) * (Q + x * x) = m * Q + m * (x * x) + Q + x * x
  <2>1. x * x \in Nat
    OBVIOUS
  <2>2. \A y \in Nat : (m + 1) * (Q + y) = m * Q + m * y + Q + y
    OBVIOUS
  <2> QED BY ONLY <2>1, <2>2
<1>3. S * S \in Nat /\ x * S \in Nat /\ x * x \in Nat /\ m * Q \in Nat /\ m * (x * x) \in Nat
  OBVIOUS
<1> QED BY ONLY <1>1, <1>2, <1>3, Q \in Nat, 2 * (x * S) <= Q + m * (x * x), S * S <= m * Q

\* The distance of a value from the mean, against the spread of all n of them:
\* S and Q are of the m others.
LEMMA FarFromMean ==
  ASSUME NEW S \in Nat, NEW Q \in Nat, NEW m \in Nat, NEW v \in Nat, S * S <= m * Q,
         NEW off, off = (m + 1) * v - (S + v),
         NEW spread, spread = (m + 1) * (Q + v * v) - (S + v) * (S + v)
  PROVE  off \in Int /\ spread \in Int /\ off * off <= m * spread
<1> DEFINE a == m * v
           e == m * Q - S * S
<1>1. a \in Nat /\ e \in Nat
  OBVIOUS
<1>2. off = a - S
  OBVIOUS
<1>3. spread = e + Q + a * v - 2 * (S * v)
  <2>1. (S + v) * (S + v) = S * S + 2 * (S * v) + v * v
    OBVIOUS
  <2>2. (m + 1) * (Q + v * v) = m * Q + m * (v * v) + Q + v * v
    <3>1. v * v \in Nat
      OBVIOUS
    <3>2. \A y \in Nat : (m + 1) * (Q + y) = m * Q + m * y + Q + y
      OBVIOUS
    <3> QED BY ONLY <3>1, <3>2
  <2>3. a * v = m * (v * v)
    OBVIOUS
  <2>4. m * Q = e + S * S
    OBVIOUS
  <2>5. S * S \in Nat /\ S * v \in Nat /\ v * v \in Nat /\ m * (v * v) \in Nat /\ m * Q \in Nat
    OBVIOUS
  <2> HIDE DEF a, e
  <2>6. spread = (m * Q + m * (v * v) + Q + v * v) - (S * S + 2 * (S * v) + v * v)
    BY <2>1, <2>2
  <2> QED BY ONLY <1>1, <2>3, <2>4, <2>5, <2>6, Q \in Nat
<1>4. m * spread = m * e + m * Q + a * a - 2 * (a * S)
  <2>1. m * (a * v) = a * a
    BY <1>1
  <2>2. m * (S * v) = a * S
    BY <1>1
  <2> HIDE DEF a, e
  <2>3. a * v \in Nat /\ S * v \in Nat /\ a * a \in Nat /\ a * S \in Nat
    BY <1>1
  <2> DEFINE p == a * v
             q == S * v
  <2>4. p \in Nat /\ q \in Nat /\ spread = e + Q + p - 2 * q
    BY <1>3, <2>3
  <2> HIDE DEF p, q
  <2>5. m * spread = m * e + m * Q + m * p - 2 * (m * q)
    BY ONLY <1>1, <2>4, m \in Nat, Q \in Nat
  <2> USE DEF p, q
  <2> QED BY <2>1, <2>2, <2>5
<1>5. off * off = a * a - 2 * (a * S) + S * S
  <2> HIDE DEF a
  <2> QED BY <1>1, <1>2
<1>6. m * e \in Nat /\ m * Q = e + S * S
  <2>1. m * Q = e + S * S
    OBVIOUS
  <2> HIDE DEF e
  <2> QED BY <1>1, <2>1
<1>7. off \in Int /\ spread \in Int
  <2>1. a * v \in Nat /\ S * v \in Nat
    OBVIOUS
  <2> HIDE DEF a, e
  <2> QED BY <1>1, <1>2, <1>3, <2>1
<1>8. off * off \in Int /\ m * spread \in Int /\ a * a \in Int /\ a * S \in Int /\ S * S \in Int
  <2> HIDE DEF a, e
  <2> QED BY <1>1, <1>7
<1> HIDE DEF a, e
<1> QED BY ONLY <1>1, <1>4, <1>5, <1>6, <1>7, <1>8

\* z >= 2 needs more than five values.
LEMMA FewAreNear ==
  ASSUME NEW n \in 1 .. 5, NEW off \in Int, NEW spread \in Int, off * off <= (n - 1) * spread,
         n >= 2, spread > 0
  PROVE  ~(off * off * (n - 1) >= 4 * n * spread)
<1> DEFINE o == off * off
<1>1. o \in Int /\ o <= (n - 1) * spread
  OBVIOUS
<1> HIDE DEF o
<1>2. ~(o * (n - 1) >= 4 * n * spread)
  <2>1. CASE n = 2
    BY ONLY <1>1, <2>1, spread \in Int, spread > 0
  <2>2. CASE n = 3
    BY ONLY <1>1, <2>2, spread \in Int, spread > 0
  <2>3. CASE n = 4
    BY ONLY <1>1, <2>3, spread \in Int, spread > 0
  <2>4. CASE n = 5
    BY ONLY <1>1, <2>4, spread \in Int, spread > 0
  <2> QED BY <2>1, <2>2, <2>3, <2>4
<1> QED BY <1>2 DEF o

\* Sums of values and of their squares, on every part of a finite set.
Spread(c, sq, d) ==
    /\ \A v \in Nat : 2 * (v * SumFunctionOnSet(c, d))
                         <= SumFunctionOnSet(sq, d) + Cardinality(d) * (v * v)
    /\ SumFunctionOnSet(c, d) * SumFunctionOnSet(c, d) <= Cardinality(d) * SumFunctionOnSet(sq, d)

LEMMA OneOut ==
  ASSUME NEW d, IsFiniteSet(d), NEW c, \A x \in d : c[x] \in Nat, NEW b \in d
  PROVE  /\ SumFunctionOnSet(c, d) = SumFunctionOnSet(c, d \ {b}) + c[b]
         /\ SumFunctionOnSet(c, d \ {b}) \in Nat
         /\ IsFiniteSet(d \ {b})
         /\ Cardinality(d) = Cardinality(d \ {b}) + 1
         /\ Cardinality(d \ {b}) \in Nat
<1> DEFINE e == d \ {b}
<1>1. d = e \cup {b} /\ e \cap {b} = {}
  OBVIOUS
<1>2. IsFiniteSet(e) /\ IsFiniteSet({b}) /\ Cardinality(e) = Cardinality(d) - 1
  BY FS_RemoveElement, FS_Singleton
<1>3. Cardinality(d) \in Nat /\ Cardinality(e) \in Nat
  BY <1>2, FS_CardinalityType
<1>4. \A x \in e \cup {b} : c[x] \in Nat
  OBVIOUS
<1> HIDE DEF e
<1>5. SumFunctionOnSet(c, e \cup {b}) = SumFunctionOnSet(c, e) + SumFunctionOnSet(c, {b})
  BY <1>1, <1>2, <1>4, SumsJoin
<1>6. SumFunctionOnSet(c, {b}) = c[b]
  BY <1>4, SumOfOne
<1>7. SumFunctionOnSet(c, e) \in Nat
  BY <1>2, <1>4, SumsAreNumbers
<1>8. Cardinality(d) = Cardinality(e) + 1
  BY <1>2, <1>3
<1> QED BY <1>1, <1>2, <1>3, <1>5, <1>6, <1>7, <1>8 DEF e

LEMMA SpreadIs ==
  ASSUME NEW G, IsFiniteSet(G), NEW c, \A x \in G : c[x] \in Nat,
         NEW sq, \A x \in G : sq[x] = c[x] * c[x]
  PROVE  Spread(c, sq, G)
<1>1. \A x \in G : sq[x] \in Nat
  <2> SUFFICES ASSUME NEW x \in G PROVE sq[x] \in Nat
    OBVIOUS
  <2>1. c[x] \in Nat /\ sq[x] = c[x] * c[x]
    OBVIOUS
  <2>2. \A y \in Nat : y * y \in Nat
    OBVIOUS
  <2> QED BY <2>1, <2>2
<1> DEFINE T == {d \in SUBSET G : ~Spread(c, sq, d)}
<1> SUFFICES ASSUME T # {} PROVE FALSE
  OBVIOUS
<1>2. PICK d \in T : \A e \in T : ~(Cardinality(e) < Cardinality(d))
  <2>1. T \in SUBSET SUBSET G
    OBVIOUS
  <2> HIDE DEF T
  <2> QED BY <2>1, SmallestOf
<1>3. d \in SUBSET G /\ ~Spread(c, sq, d)
  OBVIOUS
<1>4. IsFiniteSet(d) /\ \A x \in d : c[x] \in Nat /\ sq[x] \in Nat
  BY <1>1, <1>3, FS_Subset
<1>5. d # {}
  <2> SUFFICES ASSUME d = {} PROVE FALSE
    OBVIOUS
  <2>1. SumFunctionOnSet(c, d) = 0 /\ SumFunctionOnSet(sq, d) = 0 /\ Cardinality(d) = 0
    BY SumOfNone, FS_EmptySet
  <2>2. \A v \in Nat : 2 * (v * 0) <= 0 + 0 * (v * v)
    OBVIOUS
  <2>3. Spread(c, sq, d)
    BY <2>1, <2>2 DEF Spread
  <2> QED BY <1>3, <2>3
<1>6. PICK b \in d : TRUE
  BY <1>5
<1> DEFINE e == d \ {b}
           S == SumFunctionOnSet(c, e)
           Q == SumFunctionOnSet(sq, e)
           m == Cardinality(e)
           x == c[b]
<1>7. /\ SumFunctionOnSet(c, d) = S + x /\ S \in Nat /\ x \in Nat
      /\ Cardinality(d) = m + 1 /\ m \in Nat
  <2>1. IsFiniteSet(d) /\ (\A y \in d : c[y] \in Nat) /\ b \in d
    BY <1>4, <1>6
  <2> QED BY ONLY <2>1, OneOut
<1>8. SumFunctionOnSet(sq, d) = Q + x * x /\ Q \in Nat
  <2>1. sq[b] = c[b] * c[b]
    BY <1>3, <1>6
  <2>2. SumFunctionOnSet(sq, d) = Q + sq[b] /\ Q \in Nat
    BY <1>4, <1>6, OneOut
  <2> QED BY <2>1, <2>2
<1>9. Spread(c, sq, e)
  <2>1. Cardinality(e) < Cardinality(d)
    BY <1>7
  <2>2. e \in SUBSET G
    BY <1>3
  <2>3. e \notin T
    <3> HIDE DEF e, T
    <3> QED BY <1>2, <2>1
  <2> HIDE DEF e
  <2> QED BY <2>2, <2>3
<1>10. (\A v \in Nat : 2 * (v * S) <= Q + m * (v * v)) /\ S * S <= m * Q
  BY <1>9 DEF Spread
<1> HIDE DEF S, Q, m, x, e, T
<1>11. \A v \in Nat : 2 * (v * (S + x)) <= (Q + x * x) + (m + 1) * (v * v)
  BY <1>7, <1>8, <1>10, OneMoreSquare
<1>12. (S + x) * (S + x) <= (m + 1) * (Q + x * x)
  <2>1. 2 * (x * S) <= Q + m * (x * x)
    BY <1>7, <1>10
  <2> QED BY <1>7, <1>8, <1>10, <2>1, OneMoreValue
<1>13. Spread(c, sq, d)
  BY <1>7, <1>8, <1>11, <1>12 DEF Spread
<1> QED BY <1>3, <1>13

\* Among five conversations or fewer none is ever an anomaly, whatever each of
\* them costs: with the standard deviation of a sample, z stays below 2
\* (_cost_sync).
THEOREM FewAreNeverAnomalies ==
  ASSUME NEW costs, IsFiniteSet(DOMAIN costs), Cardinality(DOMAIN costs) <= 5,
         \A k \in DOMAIN costs : costs[k] \in Nat, NEW talk \in DOMAIN costs
  PROVE  ~IsAnomaly(costs, talk)
<1> DEFINE D == DOMAIN costs
           n == Cardinality(D)
           squares == [k \in D |-> costs[k] * costs[k]]
           e == D \ {talk}
           m == Cardinality(e)
           S == SumFunctionOnSet(costs, e)
           Q == SumFunctionOnSet(squares, e)
           v == costs[talk]
           off == n * v - SumFunction(costs)
           spread == n * SumFunction(squares) - SumFunction(costs) * SumFunction(costs)
<1>1. \A k \in D : costs[k] \in Nat /\ squares[k] \in Nat /\ squares[k] = costs[k] * costs[k]
  <2>1. \A y \in Nat : y * y \in Nat
    OBVIOUS
  <2> QED BY <2>1
<1>2. SumFunction(costs) = SumFunctionOnSet(costs, D) /\ SumFunction(squares) = SumFunctionOnSet(squares, D)
  BY DEF SumFunction
<1>3. IsAnomaly(costs, talk) =>
         n >= 2 /\ spread > 0 /\ off * off * (n - 1) >= 4 * n * spread
  BY DEF IsAnomaly
<1>4. /\ SumFunctionOnSet(costs, D) = S + v /\ S \in Nat /\ v \in Nat
      /\ n = m + 1 /\ m \in Nat
  BY <1>1, OneOut
<1> HIDE DEF squares
<1>5. SumFunctionOnSet(squares, D) = Q + v * v /\ Q \in Nat
  <2>1. SumFunctionOnSet(squares, D) = Q + squares[talk] /\ Q \in Nat
    BY <1>1, OneOut
  <2> QED BY <1>1, <2>1
<1>6. S * S <= m * Q
  <2>1. IsFiniteSet(e) /\ \A k \in e : k \in D
    BY FS_Subset
  <2> HIDE DEF e, D
  <2>2. Spread(costs, squares, e)
    BY <1>1, <2>1, SpreadIs
  <2> QED BY <2>2 DEF Spread
<1>7. off = (m + 1) * v - (S + v) /\ spread = (m + 1) * (Q + v * v) - (S + v) * (S + v)
  BY <1>2, <1>4, <1>5
<1>8. n <= 5 /\ talk \in D
  OBVIOUS
<1> HIDE DEF S, Q, m, v, e, n, D, off, spread
<1>9. off \in Int /\ spread \in Int /\ off * off <= m * spread
  BY <1>4, <1>5, <1>6, <1>7, FarFromMean
<1>10. n \in 1 .. 5 /\ n - 1 = m
  BY <1>4, <1>8
<1>11. n >= 2 /\ spread > 0 => ~(off * off * (n - 1) >= 4 * n * spread)
  BY <1>9, <1>10, FewAreNear
<1> QED BY <1>3, <1>11

LEMMA FewAreFinite ==
  /\ \A x, y : IsFiniteSet({x, y})
  /\ \A x, y, z : IsFiniteSet({x, y, z})
<1>1. \A x : IsFiniteSet({x})
  BY FS_Singleton
<1>2. ASSUME NEW x, NEW y PROVE IsFiniteSet({x, y})
  <2>1. IsFiniteSet({x} \cup {y})
    BY <1>1, FS_Union
  <2>2. {x, y} = {x} \cup {y}
    OBVIOUS
  <2> QED BY <2>1, <2>2
<1>3. ASSUME NEW x, NEW y, NEW z PROVE IsFiniteSet({x, y, z})
  <2>1. IsFiniteSet({x, y} \cup {z})
    BY <1>1, <1>2, FS_Union
  <2>2. {x, y, z} = {x, y} \cup {z}
    OBVIOUS
  <2> QED BY <2>1, <2>2
<1> QED BY <1>2, <1>3

\* A total of the sums of one key is no anomaly among few keys.
LEMMA FewConversations ==
  ASSUME NEW turns, Priced(turns), {t.conv : t \in turns} = 1 .. 2
  PROVE  Anomalies(turns) = {}
<1> DEFINE costs == PerConversation(turns)
<1>1. DOMAIN costs = 1 .. 2
  BY DEF PerConversation
<1>2. IsFiniteSet(1 .. 2) /\ Cardinality(1 .. 2) <= 5
  <2>1. 1 \in Int /\ 2 \in Int
    OBVIOUS
  <2>2. IsFiniteSet(1 .. 2) /\ Cardinality(1 .. 2) = IF 1 > 2 THEN 0 ELSE 2 - 1 + 1
    BY <2>1, FS_Interval
  <2> QED BY <2>2
<1>3. \A k \in 1 .. 2 : costs[k] \in Nat
  <2> SUFFICES ASSUME NEW k \in 1 .. 2 PROVE costs[k] \in Nat
    OBVIOUS
  <2>1. costs[k] = Cost({t \in turns : t.conv = k})
    BY DEF PerConversation
  <2>2. {t \in turns : t.conv = k} \in SUBSET turns
    OBVIOUS
  <2> HIDE DEF costs
  <2> QED BY <2>1, <2>2, CostIs
<1> HIDE DEF costs
<1>4. \A k \in 1 .. 2 : ~IsAnomaly(costs, k)
  BY <1>1, <1>2, <1>3, FewAreNeverAnomalies
<1> QED BY <1>4 DEF Anomalies, costs

\* What the dashboard shows together adds up in every state of the services, up
\* to the rows committed between its statements: from the theorems above, which
\* hold for every two finite sets of rows.
THEOREM FiguresAddUpAnywhere == Spec => []FiguresAddUp
<1>1. ASSUME CaseOK, case.what = "rows"
      PROVE  /\ \A key \in SparkKeys :
                    LET figure == Shown(key, case.seen, 1, 5)
                        column == Shown(key, case.now, 1, 5)
                    IN SumFunction(Spark(key, case.now, 1, 5)) + Cardinality(figure \ column)
                          = StatOf(key, case.seen, 1, 5) + Cardinality(column \ figure)
             /\ Cardinality(InWindow(case.now, 1, 5))
                   = 2 * Cardinality(InWindow(case.now, 1, 3)) + Delta(case.now, 3, 5)
  <2>1. case \in Rows
    BY <1>1, CaseIs
  <2>2. PICK x \in RowOf(1) : \E s \in Executed(x), y \in RowOf(2) :
           case.seen = {x} /\ case.now = {[x EXCEPT !.status = s], y}
    BY <2>1 DEF Rows
  <2>11. PICK s \in Executed(x), y \in RowOf(2) :
            case.seen = {x} /\ case.now = {[x EXCEPT !.status = s], y}
    BY <2>2
  <2>3. IsFiniteSet(case.seen) /\ IsFiniteSet(case.now)
    <3> DEFINE u == [x EXCEPT !.status = s]
    <3>1. IsFiniteSet({x}) /\ IsFiniteSet({u, y})
      BY FewAreFinite, FS_Singleton
    <3> QED BY <2>11, <3>1
  <2>4. \A r \in case.now : r.at \in Int
    BY <2>11 DEF RowOf
  <2>5. 1 \in Int /\ 3 \in Int /\ 5 \in Int /\ 1 <= 3 /\ 3 <= 5
    OBVIOUS
  <2>6. ASSUME NEW key \in SparkKeys, NEW figure, figure = Shown(key, case.seen, 1, 5),
               NEW column, column = Shown(key, case.now, 1, 5)
        PROVE  SumFunction(Spark(key, case.now, 1, 5)) + Cardinality(figure \ column)
                  = StatOf(key, case.seen, 1, 5) + Cardinality(column \ figure)
    <3>1. SumFunction(Spark(key, case.now, 1, 5)) = Cardinality(column)
      BY <2>3, <2>4, <2>5, <2>6, SparksAddUp DEF StatOf
    <3>2. StatOf(key, case.seen, 1, 5) = Cardinality(figure)
      BY <2>6 DEF StatOf
    <3>3. ASSUME NEW all, IsFiniteSet(all) PROVE IsFiniteSet(Shown(key, all, 1, 5))
      <4>1. InWindow(all, 1, 5) \in SUBSET all
        BY DEF InWindow
      <4>2. \A r \in Shown(key, all, 1, 5) : r \in InWindow(all, 1, 5)
        BY CountedIs DEF Shown
      <4>3. Shown(key, all, 1, 5) \in SUBSET all
        BY <4>1, <4>2
      <4> QED BY <3>3, <4>3, FS_Subset
    <3>4. IsFiniteSet(figure) /\ IsFiniteSet(column)
      BY <2>3, <2>6, <3>3
    <3>5. Cardinality(column) + Cardinality(figure \ column)
             = Cardinality(figure) + Cardinality(column \ figure)
      BY <3>4, SizesBalance
    <3> QED BY <3>1, <3>2, <3>5
  <2>7. Cardinality(InWindow(case.now, 1, 3)) + Cardinality(InWindow(case.now, 3, 5))
           = Cardinality(InWindow(case.now, 1, 5))
    BY <2>3, <2>4, <2>5, WindowsAddUp
  <2>8. Delta(case.now, 3, 5)
           = Cardinality(InWindow(case.now, 3, 5)) - Cardinality(InWindow(case.now, 1, 3))
    <3>1. 3 - (5 - 3) = 1
      OBVIOUS
    <3> QED BY <3>1 DEF Delta
  <2>9. Cardinality(InWindow(case.now, 3, 5)) \in Nat /\ Cardinality(InWindow(case.now, 1, 3)) \in Nat
    <3>1. \A m, n : InWindow(case.now, m, n) \in SUBSET case.now
      BY DEF InWindow
    <3>2. \A m, n : IsFiniteSet(InWindow(case.now, m, n))
      BY <2>3, <3>1, FS_Subset
    <3> QED BY <3>2, FS_CardinalityType
  <2>10. Cardinality(InWindow(case.now, 1, 5))
            = 2 * Cardinality(InWindow(case.now, 1, 3)) + Delta(case.now, 3, 5)
    BY ONLY <2>7, <2>8, <2>9
  <2> QED BY <2>6, <2>10
<1>2. ASSUME CaseOK, case.what = "turns"
      PROVE  /\ \A parts \in {SumFunction(ByRole(case.now)),
                               SumFunction(ByModel(case.now)) + Cost({t \in case.now : t.model = NoModel})} :
                    parts + Cost(case.seen \ case.now) = Cost(case.seen) + Cost(case.now \ case.seen)
             /\ \A group \in {"role", "model"} : SumFunction(Trend(case.now, group)) = Cost(case.now)
             /\ DeltaPct(case.now, 3, 5) = {} <=> InWindow(case.now, 1, 3) = {}
             /\ Anomalies(case.now) = {}
  <2>1. case \in Turns
    BY <1>2, CaseIs
  <2>2. PICK x \in TurnOf(1), y \in TurnOf(2), n \in 1 .. 3 :
           case.now = {x, y} /\ case.seen = {t \in {x, y} : t.id < n}
    BY <2>1 DEF Turns
  <2>3. \A t \in case.now : t.cost \in Nat /\ t.cost # 0
    BY <2>2 DEF TurnOf
  <2>4. Priced(case.now)
    <3>1. IsFiniteSet({x, y})
      BY FewAreFinite
    <3>2. IsFiniteSet(case.now)
      BY <2>2, <3>1
    <3> QED BY <2>3, <3>2 DEF Priced
  <2>5. {t.conv : t \in case.now} = 1 .. 2
    <3>1. x.conv = 1 /\ y.conv = 2
      BY DEF TurnOf
    <3>2. {t.conv : t \in {x, y}} = {1, 2}
      BY <3>1
    <3> QED BY <2>2, <3>2
  <2>6. DeltaPct(case.now, 3, 5) = {} <=> InWindow(case.now, 1, 3) = {}
    <3>1. 3 - (5 - 3) = 1
      OBVIOUS
    <3>2. DeltaPct(case.now, 3, 5) = {} <=> Cost(InWindow(case.now, 1, 3)) = 0
      BY <3>1 DEF DeltaPct
    <3>3. InWindow(case.now, 1, 3) \in SUBSET case.now
      BY DEF InWindow
    <3>4. Priced(InWindow(case.now, 1, 3))
      BY <2>4, <3>3, CostIs
    <3>5. \A t \in InWindow(case.now, 1, 3) : t.cost # 0
      BY <2>3, <3>3
    <3>6. Cost(InWindow(case.now, 1, 3)) = 0 <=> InWindow(case.now, 1, 3) = {}
      BY <3>4, <3>5, SomethingSpent
    <3> QED BY <3>2, <3>6
  <2>7. Cost(case.now) + Cost(case.seen \ case.now) = Cost(case.seen) + Cost(case.now \ case.seen)
    <3>1. case.seen \in SUBSET case.now
      BY <2>2
    <3>2. Priced(case.seen)
      BY <2>4, <3>1, CostIs
    <3> QED BY <2>4, <3>2, CostsBalance
  <2>8. /\ SumFunction(ByRole(case.now)) = Cost(case.now)
        /\ SumFunction(ByModel(case.now)) + Cost({t \in case.now : t.model = NoModel}) = Cost(case.now)
        /\ \A group \in {"role", "model"} : SumFunction(Trend(case.now, group)) = Cost(case.now)
    BY <2>4, CostsOfAllKinds
  <2>9. \A parts \in {SumFunction(ByRole(case.now)),
                       SumFunction(ByModel(case.now)) + Cost({t \in case.now : t.model = NoModel})} :
           parts + Cost(case.seen \ case.now) = Cost(case.seen) + Cost(case.now \ case.seen)
    BY ONLY <2>7, <2>8
  <2> QED BY <2>4, <2>5, <2>6, <2>8, <2>9, FewConversations
<1>3. ASSUME CaseOK, case.what = "costs", NEW k \in DOMAIN case.costs
      PROVE  ~IsAnomaly(case.costs, k)
  <2>1. case.costs \in [1 .. 5 -> {0, 1, 3, 9}]
    BY <1>3, CaseIs DEF Costs
  <2>2. DOMAIN case.costs = 1 .. 5 /\ \A i \in DOMAIN case.costs : case.costs[i] \in Nat
    BY <2>1
  <2>3. IsFiniteSet(1 .. 5) /\ Cardinality(1 .. 5) <= 5
    <3>1. 1 \in Int /\ 5 \in Int
      OBVIOUS
    <3>2. IsFiniteSet(1 .. 5) /\ Cardinality(1 .. 5) = IF 1 > 5 THEN 0 ELSE 5 - 1 + 1
      BY <3>1, FS_Interval
    <3> QED BY <3>2
  <2> QED BY <2>2, <2>3, FewAreNeverAnomalies
<1>4. CaseOK => FiguresAddUp
  BY <1>1, <1>2, <1>3 DEF FiguresAddUp
<1> QED BY <1>4, CaseStays, PTL
=============================================================================
