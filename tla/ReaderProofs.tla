---------------------------- MODULE ReaderProofs ------------------------------
(***************************************************************************)
(* Theorems about those who read what others are writing.                  *)
(*   EventStream: any browser tabs, cards and turns, any length of a queue *)
(*   and any number of connections.                                        *)
(*   PromptCatalog: any prompts, texts, administrators, synchronisations   *)
(*   and readers, and any time to live.                                    *)
(***************************************************************************)
EXTENDS EventStream, PromptCatalog, SequenceTheorems, FiniteSetTheorems,
        WellFoundedInduction, TLAPS

-------------------------------------------------------------------------------
(* PromptCatalog                                                             *)

AllTexts == Texts \cup {FileText} \cup {RepositoryText[k] : k \in PromptKeys}
Row      == [key : PromptKeys, number : Nat \ {0}, text : AllTexts]
Binds    == [PromptKeys -> Nat]
Looking  == {"find", "number", "insert"}
Found    == {"look", "bind"}
WriterRow ==
    [pc : Looking \cup Found \cup {"next", "idle", "ended", "clear"}, key : PromptKeys \cup {0},
     text : AllTexts, activate : BOOLEAN, number : Nat, new : SUBSET Row, binds : Binds]
ReaderRow == [pc : {"idle", "read", "store"}, key : PromptKeys \cup {0}, since : Nat, text : AllTexts]

PromptTypeOK ==
    /\ clock \in Nat
    /\ versions \subseteq Row
    /\ bound \in Binds
    /\ moved \in Binds
    /\ writer \in [Writers -> WriterRow]
    /\ cache \in [PromptKeys -> [until : Int, text : AllTexts]]
    /\ loading \in [Readers -> ReaderRow]

\* The rows of a key are finitely many and numbered from 1, and neither a
\* number nor a text is there twice.
CountOf(k) == Cardinality(OfKey(versions, k))
Apart(rows) ==
    \A v, x \in rows : v.key = x.key /\ (v.number = x.number \/ v.text = x.text) => v = x
Numbered ==
    /\ Apart(versions)
    /\ \A k \in PromptKeys :
          /\ IsFiniteSet(OfKey(versions, k))
          /\ {v.number : v \in OfKey(versions, k)} = 1 .. CountOf(k)

\* A row that is inserted and not committed has the next number of its key and
\* a new text, and no other transaction has one of that key.
RowsWait ==
    \A w \in Writers :
        /\ \A x \in writer[w].new :
              /\ x.number = CountOf(x.key) + 1
              /\ \A v \in OfKey(versions, x.key) : v.text # x.text
        /\ \A x, y \in writer[w].new : x.key = y.key => x = y
        /\ \A u \in Writers \ {w} : \A x \in writer[w].new, y \in writer[u].new : x.key # y.key

\* A transaction takes the keys in order; a number it counted was the next one
\* when it was counted, and one it found or inserted is that of a row it sees.
Sees(t, k, n) == \E v \in versions \cup t.new : v.key = k /\ v.number = n
Knows(t) ==
    /\ t.pc \in Looking \cup Found \cup {"next"} => t.key \in PromptKeys
    /\ t.pc \in Looking => \A x \in t.new : x.key < t.key
    /\ t.pc \in Found \cup {"next"} => \A x \in t.new : x.key <= t.key
    /\ t.pc = "insert" => t.number \in 1 .. CountOf(t.key) + 1
    /\ t.pc \in Found => Sees(t, t.key, t.number)
    /\ \A k \in PromptKeys : t.binds[k] # 0 => Sees(t, k, t.binds[k])
WritersKnow == \A w \in Writers : Knows(writer[w])

\* The active number is that of a committed row.
BoundIsThere ==
    \A k \in PromptKeys : bound[k] # 0 => \E v \in versions : v.key = k /\ v.number = bound[k]

\* Whoever has read, or stored, after the last change of a binding has the
\* active text; nothing is dated in the future.
Fresh(k, since, text) == moved[k] < since => text \in {ActiveText(k), FileText}
ReadersKnow ==
    /\ \A k \in PromptKeys :
          /\ moved[k] <= clock
          /\ cache[k].until - Ttl <= clock
          /\ Fresh(k, cache[k].until - Ttl, cache[k].text)
    /\ \A r \in Readers :
          /\ loading[r].since <= clock
          /\ loading[r].pc # "idle" => loading[r].key \in PromptKeys
          /\ loading[r].pc = "store" => Fresh(loading[r].key, loading[r].since, loading[r].text)

PromptInv ==
    /\ PromptTypeOK
    /\ Numbered
    /\ RowsWait
    /\ WritersKnow
    /\ BoundIsThere
    /\ ReadersKnow

-------------------------------------------------------------------------------

LEMMA NoRowYet == NoBinds \in Binds /\ \A k \in PromptKeys : NoBinds[k] = 0
  BY DEF NoBinds, Binds

LEMMA ClosedIsRow == Closed \in WriterRow
  BY NoRowYet DEF Closed, WriterRow, AllTexts, FileText

Places == Looking \cup Found \cup {"next", "idle", "ended", "clear"}

LEMMA PutAt ==
  ASSUME NEW t \in WriterRow, NEW pc \in Places
  PROVE  /\ [t EXCEPT !.pc = pc] \in WriterRow
         /\ [t EXCEPT !.pc = pc] =
               [pc |-> pc, key |-> t.key, text |-> t.text, activate |-> t.activate,
                number |-> t.number, new |-> t.new, binds |-> t.binds]
  BY DEF WriterRow, Places

\* A transaction that has ended, or has not begun, knows nothing.
LEMMA ClosedKnows ==
  ASSUME NEW pc \in {"idle", "ended", "clear"}
  PROVE  /\ [Closed EXCEPT !.pc = pc] \in WriterRow
         /\ [Closed EXCEPT !.pc = pc].new = {}
         /\ Knows([Closed EXCEPT !.pc = pc])
<1>0. PICK c \in WriterRow : c = Closed
  BY ClosedIsRow
<1>1. c.binds = NoBinds /\ c.new = {}
  BY <1>0 DEF Closed
<1>2. PICK t \in WriterRow : t = [c EXCEPT !.pc = pc]
  BY PutAt DEF Places
<1>3. t.pc = pc /\ t.new = {} /\ t.binds = NoBinds
  BY <1>1, <1>2, PutAt DEF Places
<1>4. Knows(t)
  BY <1>3, NoRowYet DEF Knows, Looking, Found
<1>5. t = [Closed EXCEPT !.pc = pc]
  BY <1>0, <1>2, Zenon
<1> QED BY <1>3, <1>4, <1>5, Zenon

\* At the start: no rows, or one for each key.
LEMMA PromptInitInv == PromptInit => PromptInv
<1> SUFFICES ASSUME PromptInit PROVE PromptInv OBVIOUS
<1> USE PromptAssumption
<1>1. writer = [w \in Writers |-> Closed] /\ Closed.new = {}
  BY DEF PromptInit, Closed
<1>2. Closed \in WriterRow /\ Knows(Closed)
  <2>1. Closed.pc = "idle" /\ Closed.binds = NoBinds
    BY DEF Closed
  <2> QED BY <2>1, ClosedIsRow, NoRowYet DEF Knows, Looking, Found
<1>3. /\ versions \subseteq Row /\ Numbered
      /\ bound \in Binds /\ BoundIsThere
  <2>1. CASE versions = {} /\ bound = NoBinds
    <3>1. \A k \in PromptKeys : OfKey(versions, k) = {}
      BY <2>1 DEF OfKey
    <3>2. Numbered
      <4>1. Cardinality({}) = 0 /\ IsFiniteSet({})
        BY FS_EmptySet
      <4>2. \A k \in PromptKeys : IsFiniteSet(OfKey(versions, k)) /\ CountOf(k) = 0
        BY <3>1, <4>1 DEF CountOf
      <4> QED BY <2>1, <3>1, <4>2 DEF Numbered, Apart
    <3> QED BY <2>1, <3>2, NoRowYet DEF BoundIsThere, Binds, NoBinds
  <2>2. CASE /\ \E t \in Texts : versions = {[key |-> k, number |-> 1, text |-> t] : k \in PromptKeys}
             /\ bound \in {NoBinds, [k \in PromptKeys |-> 1]}
    <3>1. PICK t \in Texts : versions = {[key |-> k, number |-> 1, text |-> t] : k \in PromptKeys}
      BY <2>2
    <3>2. versions \subseteq Row
      BY <3>1 DEF Row, AllTexts
    <3>3. ASSUME NEW k \in PromptKeys
          PROVE  /\ IsFiniteSet(OfKey(versions, k))
                 /\ {v.number : v \in OfKey(versions, k)} = 1 .. CountOf(k)
      <4> DEFINE r == [key |-> k, number |-> 1, text |-> t]
      <4>0. /\ r \in versions /\ r.key = k
            /\ \A j \in PromptKeys :
                  [key |-> j, number |-> 1, text |-> t].key = k => j = k
        BY <3>1
      <4>1. OfKey(versions, k) = {r}
        BY <3>1, <4>0 DEF OfKey
      <4>2. IsFiniteSet({r}) /\ Cardinality({r}) = 1
        BY FS_Singleton
      <4> QED BY <4>1, <4>2 DEF CountOf
    <3>4. Apart(versions)
      BY <3>1 DEF Apart
    <3>5. bound \in Binds /\ \A k \in PromptKeys : bound[k] \in {0, 1}
      BY <2>2 DEF Binds, NoBinds
    <3>6. ASSUME NEW k \in PromptKeys
          PROVE  \E v \in versions : v.key = k /\ v.number = 1
      <4>1. [key |-> k, number |-> 1, text |-> t] \in versions
        BY <3>1
      <4> QED BY <4>1
    <3>7. BoundIsThere
      BY <3>5, <3>6 DEF BoundIsThere
    <3> QED BY <3>2, <3>3, <3>4, <3>5, <3>7 DEF Numbered
  <2> QED BY <2>1, <2>2 DEF PromptInit
<1>4. PromptTypeOK
  <2>1. NoEntry \in [until : Int, text : AllTexts] /\ NotLoading \in ReaderRow
    BY DEF NoEntry, NotLoading, ReaderRow, AllTexts
  <2> QED BY <1>1, <1>2, <1>3, <2>1 DEF PromptInit, PromptTypeOK, Binds
<1>5. RowsWait
  BY <1>1 DEF RowsWait
<1>6. WritersKnow
  BY <1>1, <1>2 DEF WritersKnow
<1>7. ReadersKnow
  BY DEF PromptInit, ReadersKnow, Fresh, NoEntry, NotLoading
<1> QED BY <1>3, <1>4, <1>5, <1>6, <1>7 DEF PromptInv

-------------------------------------------------------------------------------
(* The transactions *)

\* A step of a transaction that inserts and commits nothing.
LEMMA WriterMoves ==
  ASSUME PromptInv, NEW w \in Writers, NEW row \in WriterRow, Knows(row),
         row.new \subseteq writer[w].new,
         writer' = [writer EXCEPT ![w] = row],
         UNCHANGED <<clock, versions, bound, moved, cache, loading>>
  PROVE  PromptInv'
<1>1. /\ writer \in [Writers -> WriterRow] /\ writer'[w] = row
      /\ \A u \in Writers \ {w} : writer'[u] = writer[u]
  BY DEF PromptInv, PromptTypeOK
<1>2. PromptTypeOK'
  BY <1>1 DEF PromptInv, PromptTypeOK
<1>3. Numbered' /\ BoundIsThere' /\ ReadersKnow'
  <2>1. Numbered' = Numbered
    BY DEF Numbered, Apart, CountOf, OfKey
  <2>2. BoundIsThere' = BoundIsThere
    BY DEF BoundIsThere
  <2>3. ReadersKnow' = ReadersKnow
    BY DEF ReadersKnow, Fresh, ActiveText
  <2> QED BY <2>1, <2>2, <2>3 DEF PromptInv
<1>4. RowsWait'
  <2>1. \A u \in Writers : writer'[u].new \subseteq writer[u].new
    BY <1>1
  <2>2. \A x : CountOf(x)' = CountOf(x) /\ OfKey(versions, x)' = OfKey(versions, x)
    BY DEF CountOf, OfKey
  <2> QED BY <2>1, <2>2 DEF PromptInv, RowsWait
<1>5. WritersKnow'
  <2>1. \A t \in WriterRow : Knows(t) => Knows(t)'
    BY DEF Knows, Sees, CountOf, OfKey
  <2> SUFFICES ASSUME NEW u \in Writers PROVE Knows(writer[u])'
    BY DEF WritersKnow
  <2>2. PICK t \in WriterRow : t = writer'[u] /\ Knows(t)
    BY <1>1 DEF PromptInv, WritersKnow
  <2>3. Knows(t)'
    BY <2>1, <2>2
  <2> QED BY <2>2, <2>3
<1> QED BY <1>2, <1>3, <1>4, <1>5 DEF PromptInv

\* The highest number of a key is its count, also with the transaction's own
\* rows, which are all of earlier keys.
LEMMA NextIsNext ==
  ASSUME Numbered, NEW k \in PromptKeys, NEW rows, OfKey(rows, k) = OfKey(versions, k)
  PROVE  CountOf(k) \in Nat /\ NextVersion(rows, k) = CountOf(k) + 1
<1>1. CountOf(k) \in Nat
  BY FS_CardinalityType DEF Numbered, CountOf
<1>2. {v.number : v \in OfKey(rows, k)} = 1 .. CountOf(k)
  BY DEF Numbered
<1> DEFINE n == CountOf(k)
<1> HIDE DEF n
<1>3. (1 .. n) \cup {0} = 0 .. n
  BY <1>1 DEF n
<1>4. Max(0 .. n) \in 0 .. n /\ \A y \in 0 .. n : Max(0 .. n) >= y
  <2>1. \E x \in 0 .. n : \A y \in 0 .. n : x >= y
    <3>1. n \in 0 .. n /\ \A y \in 0 .. n : n >= y
      BY <1>1 DEF n
    <3> QED BY <3>1
  <2> QED BY <2>1 DEF Max
<1>5. Max(0 .. n) = n
  <2> DEFINE m == Max(0 .. n)
  <2> HIDE DEF m
  <2>1. m \in 0 .. n /\ \A y \in 0 .. n : m >= y
    BY <1>4 DEF m
  <2>2. n \in 0 .. n
    BY <1>1 DEF n
  <2>3. m = n
    BY <1>1, <2>1, <2>2 DEF n
  <2> QED BY <2>3 DEF m
<1>6. NextVersion(rows, k) = Max(0 .. n) + 1
  BY <1>2, <1>3 DEF NextVersion, n
<1> QED BY <1>1, <1>5, <1>6 DEF n

\* A transaction that begins.
LEMMA Begins ==
  ASSUME NEW k \in PromptKeys, NEW text \in AllTexts, NEW activate \in BOOLEAN
  PROVE  \E row \in WriterRow :
            /\ row = [Closed EXCEPT !.pc = "find", !.key = k, !.text = text, !.activate = activate]
            /\ row.new = {} /\ Knows(row)
<1>0. PICK c \in WriterRow : c = Closed
  BY ClosedIsRow
<1>1. c.binds = NoBinds /\ c.new = {}
  BY <1>0 DEF Closed
<1>2. PICK row \in WriterRow :
         row = [c EXCEPT !.pc = "find", !.key = k, !.text = text, !.activate = activate]
  BY DEF WriterRow, Looking
<1>3. row.pc = "find" /\ row.key = k /\ row.binds = NoBinds /\ row.new = {}
  BY <1>1, <1>2 DEF WriterRow
<1>4. Knows(row)
  BY <1>3, NoRowYet DEF Knows, Looking, Found
<1>5. row = [Closed EXCEPT !.pc = "find", !.key = k, !.text = text, !.activate = activate]
  BY <1>0, <1>2, Zenon
<1> QED BY <1>3, <1>4, <1>5, Zenon

LEMMA StartSaveInv ==
  ASSUME PromptInv, NEW w \in Admins, NEW k \in PromptKeys, NEW text \in Texts,
         NEW activate \in BOOLEAN, StartSave(w, k, text, activate)
  PROVE  PromptInv'
<1>1. PICK row \in WriterRow :
         /\ row = [Closed EXCEPT !.pc = "find", !.key = k, !.text = text, !.activate = activate]
         /\ row.new = {} /\ Knows(row)
  <2>1. text \in AllTexts
    BY DEF AllTexts
  <2> QED BY <2>1, Begins, Zenon
<1>2. writer' = [writer EXCEPT ![w] = row]
  BY <1>1, Zenon DEF StartSave
<1> QED BY <1>1, <1>2, WriterMoves DEF StartSave, Writers

LEMMA StartSyncInv ==
  ASSUME PromptInv, NEW w \in Syncs, NEW activate \in BOOLEAN, StartSync(w, activate)
  PROVE  PromptInv'
<1>1. PICK row \in WriterRow :
         /\ row = [Closed EXCEPT !.pc = "find", !.key = 1, !.text = RepositoryText[1],
                                 !.activate = activate]
         /\ row.new = {} /\ Knows(row)
  <2>1. PICK k \in PromptKeys, text \in AllTexts : k = 1 /\ text = RepositoryText[1]
    BY PromptAssumption DEF AllTexts
  <2>2. PICK row \in WriterRow :
           /\ row = [Closed EXCEPT !.pc = "find", !.key = k, !.text = text, !.activate = activate]
           /\ row.new = {} /\ Knows(row)
    BY Begins
  <2> QED BY <2>1, <2>2, Zenon
<1>2. writer' = [writer EXCEPT ![w] = row]
  BY <1>1, Zenon DEF StartSync
<1> QED BY <1>1, <1>2, WriterMoves DEF StartSync, Writers

LEMMA RefuseSaveInv ==
  ASSUME PromptInv, NEW w \in Admins, RefuseSave(w)
  PROVE  PromptInv'
<1>1. PICK t \in WriterRow : t = writer[w] /\ Knows(t) /\ t.pc = "idle"
  BY DEF PromptInv, PromptTypeOK, WritersKnow, RefuseSave, Writers
<1>2. PICK row \in WriterRow : row = [t EXCEPT !.pc = "ended"]
  BY PutAt DEF Places
<1>3. row.pc = "ended" /\ row.new = t.new /\ row.binds = t.binds
  BY <1>2, PutAt DEF Places
<1>4. Knows(row)
  BY <1>1, <1>3 DEF Knows, Sees, Looking, Found
<1>5. writer' = [writer EXCEPT ![w] = row]
  BY <1>1, <1>2 DEF RefuseSave
<1> QED BY <1>1, <1>3, <1>4, <1>5, WriterMoves DEF RefuseSave, Writers

LEMMA AbortInv ==
  ASSUME PromptInv, NEW w \in Writers, AbortPrompts(w)
  PROVE  PromptInv'
<1>1. PICK row \in WriterRow : row = [Closed EXCEPT !.pc = "ended"] /\ Knows(row) /\ row.new = {}
  BY ClosedKnows
<1>2. writer' = [writer EXCEPT ![w] = row]
  BY <1>1 DEF AbortPrompts
<1> QED BY <1>1, <1>2, WriterMoves DEF AbortPrompts

LEMMA FindVersionInv ==
  ASSUME PromptInv, NEW w \in Writers, FindVersion(w)
  PROVE  PromptInv'
<1>1. PICK t \in WriterRow : t = writer[w] /\ Knows(t) /\ t.pc = "find"
  BY DEF PromptInv, PromptTypeOK, WritersKnow, FindVersion
<1> DEFINE same == {v \in OfKey(Seen(w), t.key) : v.text = t.text}
           found == IF same = {} THEN 0 ELSE (CHOOSE v \in same : TRUE).number
           place == IF same = {} THEN "number" ELSE "look"
<1>2. same # {} => \E v \in versions \cup t.new : v.key = t.key /\ v.number = found
  <2> SUFFICES ASSUME same # {} PROVE \E v \in versions \cup t.new : v.key = t.key /\ v.number = found
    OBVIOUS
  <2>1. PICK v \in same : v = CHOOSE x \in same : TRUE
    OBVIOUS
  <2>2. found = v.number
    BY <2>1
  <2> QED BY <1>1, <2>2 DEF OfKey, Seen
<1>3. found \in Nat
  <2>1. versions \cup t.new \subseteq Row
    BY <1>1 DEF PromptInv, PromptTypeOK, WriterRow
  <2> QED BY <1>2, <2>1 DEF Row
<1>4. writer' = [writer EXCEPT ![w] = [t EXCEPT !.number = found, !.pc = place]]
  BY <1>1 DEF FindVersion
<1> HIDE DEF found
<1>5. place \in {"number", "look"} /\ (place = "look" => same # {})
  OBVIOUS
<1> HIDE DEF place, same
<1>6. PICK row \in WriterRow : row = [t EXCEPT !.number = found, !.pc = place]
  BY <1>3, <1>5 DEF WriterRow, Looking, Found
<1>7. row.pc = place /\ row.key = t.key /\ row.number = found /\ row.new = t.new /\ row.binds = t.binds
  BY <1>6 DEF WriterRow
<1>8. Knows(row)
  <2>1. t.key \in Nat /\ \A x \in t.new : x.key \in Nat
    BY <1>1, PromptAssumption DEF Knows, Looking, WriterRow, Row
  <2> QED BY <1>1, <1>2, <1>5, <1>7, <2>1 DEF Knows, Sees, Looking, Found
<1>9. writer' = [writer EXCEPT ![w] = row]
  BY <1>1, <1>4, <1>6, Zenon
<1> QED BY <1>1, <1>7, <1>8, <1>9, WriterMoves DEF FindVersion

LEMMA NumberVersionInv ==
  ASSUME PromptInv, NEW w \in Writers, NumberVersion(w)
  PROVE  PromptInv'
<1>1. PICK t \in WriterRow : t = writer[w] /\ Knows(t) /\ t.pc = "number"
  BY DEF PromptInv, PromptTypeOK, WritersKnow, NumberVersion
<1>2. t.key \in PromptKeys /\ \A x \in t.new : x.key # t.key
  <2>1. t.key \in Nat /\ \A x \in t.new : x.key \in Nat /\ x.key < t.key
    BY <1>1, PromptAssumption DEF Knows, Looking, WriterRow, Row
  <2> QED BY <1>1, <2>1 DEF Knows, Looking
<1>3. OfKey(Seen(w), t.key) = OfKey(versions, t.key)
  BY <1>1, <1>2 DEF OfKey, Seen
<1> DEFINE high == NextVersion(Seen(w), t.key)
<1>4. CountOf(t.key) \in Nat /\ high = CountOf(t.key) + 1
  BY <1>2, <1>3, NextIsNext DEF PromptInv
<1>5. writer' = [writer EXCEPT ![w] = [t EXCEPT !.number = high, !.pc = "insert"]]
  BY <1>1 DEF NumberVersion
<1> HIDE DEF high
<1>5a. high \in Nat
  BY <1>4
<1>6. PICK row \in WriterRow : row = [t EXCEPT !.number = high, !.pc = "insert"]
  BY <1>5a DEF WriterRow, Looking
<1>7. row.pc = "insert" /\ row.key = t.key /\ row.number = high /\ row.new = t.new /\ row.binds = t.binds
  BY <1>6 DEF WriterRow
<1>8. Knows(row)
  BY <1>1, <1>4, <1>7 DEF Knows, Sees, Looking, Found
<1>9. writer' = [writer EXCEPT ![w] = row]
  BY <1>1, <1>5, <1>6, Zenon
<1> QED BY <1>1, <1>7, <1>8, <1>9, WriterMoves DEF NumberVersion

LEMMA LookForBindingInv ==
  ASSUME PromptInv, NEW w \in Writers, LookForBinding(w)
  PROVE  PromptInv'
<1>1. PICK t \in WriterRow : t = writer[w] /\ Knows(t) /\ t.pc = "look"
  BY DEF PromptInv, PromptTypeOK, WritersKnow, LookForBinding
<1>2. PICK place \in {"bind", "next"} : writer' = [writer EXCEPT ![w] = [t EXCEPT !.pc = place]]
  BY <1>1 DEF LookForBinding
<1>3. PICK row \in WriterRow : row = [t EXCEPT !.pc = place]
  BY PutAt DEF Places, Found
<1>4. row.pc = place /\ row.key = t.key /\ row.number = t.number /\ row.new = t.new /\ row.binds = t.binds
  BY <1>3 DEF WriterRow
<1>5. Knows(row)
  BY <1>1, <1>4 DEF Knows, Sees, Looking, Found
<1>6. writer' = [writer EXCEPT ![w] = row]
  BY <1>2, <1>3, Zenon
<1> QED BY <1>1, <1>4, <1>5, <1>6, WriterMoves DEF LookForBinding

LEMMA BindInv ==
  ASSUME PromptInv, NEW w \in Writers, Bind(w)
  PROVE  PromptInv'
<1>1. PICK t \in WriterRow : t = writer[w] /\ Knows(t) /\ t.pc = "bind"
  BY DEF PromptInv, PromptTypeOK, WritersKnow, Bind
<1>2. t.binds \in Binds /\ t.number \in Nat /\ t.key \in PromptKeys
  BY <1>1 DEF WriterRow, Knows, Found
<1>3. PICK binds \in Binds : binds = [t.binds EXCEPT ![t.key] = t.number]
  BY <1>2 DEF Binds
<1>4. writer' = [writer EXCEPT ![w] = [t EXCEPT !.binds = binds, !.pc = "next"]]
  BY <1>1, <1>3 DEF Bind
<1>5. PICK row \in WriterRow : row = [t EXCEPT !.binds = binds, !.pc = "next"]
  BY DEF WriterRow
<1>6. row.pc = "next" /\ row.key = t.key /\ row.number = t.number /\ row.new = t.new /\ row.binds = binds
  BY <1>5 DEF WriterRow
<1>7. \A k \in PromptKeys : binds[k] = IF k = t.key THEN t.number ELSE t.binds[k]
  BY <1>2, <1>3 DEF Binds
<1>8. Knows(row)
  BY <1>1, <1>6, <1>7 DEF Knows, Sees, Looking, Found
<1>9. writer' = [writer EXCEPT ![w] = row]
  BY <1>4, <1>5, Zenon
<1> QED BY <1>1, <1>6, <1>8, <1>9, WriterMoves DEF Bind

LEMMA NextKeyInv ==
  ASSUME PromptInv, NEW w \in Writers, NextKey(w)
  PROVE  PromptInv'
<1>1. PICK t \in WriterRow : t = writer[w] /\ Knows(t) /\ t.pc = "next"
  BY DEF PromptInv, PromptTypeOK, WritersKnow, NextKey
<1>2. PICK k \in PromptKeys : k = t.key + 1
  BY <1>1 DEF NextKey
<1>3. PICK text \in AllTexts : text = RepositoryText[k]
  BY DEF AllTexts
<1>4. writer' = [writer EXCEPT ![w] = [t EXCEPT !.key = k, !.text = text, !.number = 0, !.pc = "find"]]
  BY <1>1, <1>2, <1>3 DEF NextKey
<1>5. PICK row \in WriterRow : row = [t EXCEPT !.key = k, !.text = text, !.number = 0, !.pc = "find"]
  BY DEF WriterRow, Looking
<1>6. row.pc = "find" /\ row.key = k /\ row.new = t.new /\ row.binds = t.binds
  BY <1>5 DEF WriterRow
<1>7. Knows(row)
  <2>1. t.key \in Nat /\ \A x \in t.new : x.key \in Nat
    BY <1>1, PromptAssumption DEF Knows, WriterRow, Row
  <2> QED BY <1>1, <1>2, <1>6, <2>1 DEF Knows, Sees, Looking, Found
<1>8. writer' = [writer EXCEPT ![w] = row]
  BY <1>4, <1>5, Zenon
<1> QED BY <1>1, <1>6, <1>7, <1>8, WriterMoves DEF NextKey

\* An insert that finds a committed row in its way ends the transaction; one
\* that does not has the next number, and nobody else waits with a row of the key.
LEMMA InsertVersionInv ==
  ASSUME PromptInv, NEW w \in Writers, InsertVersion(w)
  PROVE  PromptInv'
<1>1. PICK t \in WriterRow : t = writer[w] /\ Knows(t) /\ t.pc = "insert"
  BY DEF PromptInv, PromptTypeOK, WritersKnow, InsertVersion
<1> DEFINE row == [key |-> t.key, number |-> t.number, text |-> t.text]
<1>2. CASE \E v \in versions : Collide(row, v)
  <2>1. PICK end \in WriterRow : end = [Closed EXCEPT !.pc = "ended"] /\ Knows(end) /\ end.new = {}
    BY ClosedKnows
  <2>2. writer' = [writer EXCEPT ![w] = end]
    BY <1>1, <1>2, <2>1 DEF InsertVersion
  <2> QED BY <2>1, <2>2, WriterMoves DEF InsertVersion
<1>3. CASE ~ \E v \in versions : Collide(row, v)
  <2> DEFINE n == CountOf(t.key)
  <2>1. t.key \in PromptKeys /\ t.number \in 1 .. n + 1 /\ \A x \in t.new : x.key < t.key
    BY <1>1 DEF Knows, Looking
  <2>2. \A x \in t.new : x.key # t.key
    <3>1. t.key \in Nat /\ \A x \in t.new : x.key \in Nat
      BY <1>1, <2>1, PromptAssumption DEF WriterRow, Row
    <3> QED BY <2>1, <3>1
  <2>3. /\ n \in Nat
        /\ {v.number : v \in OfKey(versions, t.key)} = 1 .. n
    BY <2>1, FS_CardinalityType DEF PromptInv, Numbered, CountOf
  <2>4. \A v \in versions : v.key = t.key => v.number # t.number /\ v.text # t.text
    BY <1>3 DEF Collide
  <2>5. t.number = n + 1
    <3>1. t.number \notin 1 .. n
      BY <2>3, <2>4 DEF OfKey
    <3> HIDE DEF n
    <3> QED BY <2>1, <2>3, <3>1
  <2>6. row \in Row
    BY <2>1, <2>3, <2>5 DEF WriterRow, Row
  <2>7. \A u \in Writers \ {w} : \A y \in writer[u].new : y.key # t.key
    <3> SUFFICES ASSUME NEW u \in Writers \ {w}, NEW y \in writer[u].new, y.key = t.key
                 PROVE  FALSE
      OBVIOUS
    <3>1. y.number = n + 1
      BY DEF PromptInv, RowsWait
    <3>2. ~Collide(row, y)
      BY <1>1 DEF InsertVersion, Pending
    <3> QED BY <2>5, <3>1, <3>2 DEF Collide
  <2>8. writer' = [writer EXCEPT ![w] = [t EXCEPT !.new = t.new \cup {row}, !.pc = "look"]]
    BY <1>1, <1>3 DEF InsertVersion
  <2>9. row.key = t.key /\ row.number = t.number /\ row.text = t.text
    OBVIOUS
  <2> HIDE DEF row, n
  <2>10. PICK full \in WriterRow : full = [t EXCEPT !.new = t.new \cup {row}, !.pc = "look"]
    BY <2>6 DEF WriterRow, Found
  <2>11. /\ full.pc = "look" /\ full.key = t.key /\ full.number = t.number
         /\ full.new = t.new \cup {row} /\ full.binds = t.binds
    BY <2>10 DEF WriterRow
  <2>12. /\ writer \in [Writers -> WriterRow] /\ writer' = [writer EXCEPT ![w] = full]
    BY <2>8, <2>10, Zenon DEF PromptInv, PromptTypeOK
  <2>13. writer'[w] = full /\ \A u \in Writers \ {w} : writer'[u] = writer[u]
    BY <2>12
  <2>14. UNCHANGED <<clock, versions, bound, moved, cache, loading>>
    BY DEF InsertVersion
  <2>15. PromptTypeOK'
    BY <2>12, <2>14 DEF PromptInv, PromptTypeOK
  <2>16. Numbered' /\ BoundIsThere' /\ ReadersKnow'
    <3>1. Numbered' = Numbered
      BY <2>14 DEF Numbered, Apart, CountOf, OfKey
    <3>2. BoundIsThere' = BoundIsThere
      BY <2>14 DEF BoundIsThere
    <3>3. ReadersKnow' = ReadersKnow
      BY <2>14 DEF ReadersKnow, Fresh, ActiveText
    <3> QED BY <3>1, <3>2, <3>3 DEF PromptInv
  <2>17. WritersKnow'
    <3>1. \A s \in WriterRow : Knows(s) => Knows(s)'
      BY <2>14 DEF Knows, Sees, CountOf, OfKey
    <3>2. Knows(full)
      <4>1. t.key \in Nat /\ \A x \in t.new : x.key \in Nat
        BY <1>1, <2>1, PromptAssumption DEF WriterRow, Row
      <4> QED BY <1>1, <2>1, <2>9, <2>11, <4>1 DEF Knows, Sees, Looking, Found
    <3> SUFFICES ASSUME NEW u \in Writers PROVE Knows(writer[u])'
      BY DEF WritersKnow
    <3>3. PICK s \in WriterRow : s = writer'[u] /\ Knows(s)
      BY <2>12, <2>13, <3>2 DEF PromptInv, WritersKnow
    <3>4. Knows(s)'
      BY <3>1, <3>3
    <3> QED BY <3>3, <3>4
  <2>18. RowsWait'
    <3>1. \A x : CountOf(x)' = CountOf(x) /\ OfKey(versions, x)' = OfKey(versions, x)
      BY <2>14 DEF CountOf, OfKey
    <3>2. \A u \in Writers \ {w} : writer'[u].new = writer[u].new
      BY <2>13
    <3>3. writer'[w].new = writer[w].new \cup {row}
      BY <1>1, <2>11, <2>13
    <3>4. row.number = CountOf(row.key) + 1
      BY <2>5, <2>9 DEF n
    <3>5. \A v \in OfKey(versions, row.key) : v.text # row.text
      BY <2>4, <2>9 DEF OfKey
    <3>6. ASSUME NEW u \in Writers
          PROVE  /\ \A x \in writer'[u].new :
                       /\ x.number = CountOf(x.key) + 1
                       /\ \A v \in OfKey(versions, x.key) : v.text # x.text
                 /\ \A x, y \in writer'[u].new : x.key = y.key => x = y
      <4>1. CASE u # w
        BY <3>2, <4>1 DEF PromptInv, RowsWait
      <4>2. CASE u = w
        BY <1>1, <2>2, <2>9, <3>3, <3>4, <3>5, <4>2 DEF PromptInv, RowsWait
      <4> QED BY <4>1, <4>2
    <3>7. \A u \in Writers : \A v \in Writers \ {u} :
             \A x \in writer'[u].new, y \in writer'[v].new : x.key # y.key
      BY <2>7, <2>9, <3>2, <3>3 DEF PromptInv, RowsWait
    <3> QED BY <3>1, <3>6, <3>7 DEF RowsWait
  <2> QED BY <2>15, <2>16, <2>17, <2>18 DEF PromptInv
<1> QED BY <1>2, <1>3

LEMMA ChosenRow ==
  ASSUME NEW rows, Apart(rows), NEW v \in rows
  PROVE  (CHOOSE x \in rows : x.key = v.key /\ x.number = v.number) = v
<1> DEFINE c == CHOOSE x \in rows : x.key = v.key /\ x.number = v.number
<1>1. c \in rows /\ c.key = v.key /\ c.number = v.number
  OBVIOUS
<1> HIDE DEF c
<1>2. c = v
  BY <1>1 DEF Apart
<1> QED BY <1>2 DEF c

\* A commit adds to each key nothing, or the one row with its next number.
LEMMA CommitAdds ==
  ASSUME PromptInv, NEW w \in Writers, versions' = versions \cup writer[w].new,
         NEW k \in PromptKeys
  PROVE  \/ /\ \A x \in writer[w].new : x.key # k
            /\ OfKey(versions, k)' = OfKey(versions, k)
            /\ CountOf(k)' = CountOf(k)
         \/ \E row \in writer[w].new :
               /\ row.key = k
               /\ OfKey(versions, k)' = OfKey(versions, k) \cup {row}
               /\ row.number = CountOf(k) + 1
               /\ CountOf(k)' = CountOf(k) + 1
<1>1. CASE \A x \in writer[w].new : x.key # k
  <2>1. OfKey(versions, k)' = OfKey(versions, k)
    BY <1>1 DEF OfKey
  <2> QED BY <1>1, <2>1 DEF CountOf
<1>2. ASSUME NEW row \in writer[w].new, row.key = k
      PROVE  /\ OfKey(versions, k)' = OfKey(versions, k) \cup {row}
             /\ row.number = CountOf(k) + 1
             /\ CountOf(k)' = CountOf(k) + 1
  <2>1. /\ row.number = CountOf(k) + 1
        /\ \A v \in OfKey(versions, k) : v.text # row.text
        /\ \A x \in writer[w].new : x.key = k => x = row
    BY <1>2 DEF PromptInv, RowsWait
  <2>2. OfKey(versions, k)' = OfKey(versions, k) \cup {row}
    BY <1>2, <2>1 DEF OfKey
  <2>3. row \notin OfKey(versions, k) /\ IsFiniteSet(OfKey(versions, k))
    BY <2>1 DEF PromptInv, Numbered
  <2>4. CountOf(k)' = CountOf(k) + 1
    BY <2>2, <2>3, FS_AddElement DEF CountOf
  <2> QED BY <2>1, <2>2, <2>4
<1> QED BY <1>1, <1>2

LEMMA CommitPromptsInv ==
  ASSUME PromptInv, NEW w \in Writers, CommitPrompts(w)
  PROVE  PromptInv'
<1> USE PromptAssumption
<1>1. PICK t \in WriterRow : t = writer[w] /\ Knows(t) /\ t.pc = "next"
  BY DEF PromptInv, PromptTypeOK, WritersKnow, CommitPrompts
<1>2. PICK end \in WriterRow : /\ writer' = [writer EXCEPT ![w] = end]
                               /\ end.new = {} /\ Knows(end)
  <2>1. PICK place \in {"clear", "ended"} :
           writer' = [writer EXCEPT ![w] = [Closed EXCEPT !.pc = place]]
    BY DEF CommitPrompts
  <2>2. PICK end \in WriterRow : end = [Closed EXCEPT !.pc = place] /\ end.new = {} /\ Knows(end)
    BY ClosedKnows
  <2> QED BY <2>1, <2>2, Zenon
<1>3. /\ versions' = versions \cup t.new
      /\ \A k \in PromptKeys : bound'[k] = IF t.binds[k] # 0 THEN t.binds[k] ELSE bound[k]
      /\ \A k \in PromptKeys : moved'[k] = IF bound'[k] # bound[k] THEN clock ELSE moved[k]
      /\ UNCHANGED <<clock, cache, loading>>
  BY <1>1 DEF CommitPrompts, BindsOf
<1>4. writer'[w] = end /\ \A u \in Writers \ {w} : writer'[u] = writer[u]
  BY <1>2 DEF PromptInv, PromptTypeOK
<1>5. \A k \in PromptKeys :
         \/ /\ \A x \in t.new : x.key # k
            /\ OfKey(versions, k)' = OfKey(versions, k)
            /\ CountOf(k)' = CountOf(k)
         \/ \E row \in t.new :
               /\ row.key = k
               /\ OfKey(versions, k)' = OfKey(versions, k) \cup {row}
               /\ row.number = CountOf(k) + 1
               /\ CountOf(k)' = CountOf(k) + 1
  BY <1>1, <1>3, CommitAdds
<1>6. PromptTypeOK'
  <2>1. /\ bound' \in Binds
        /\ moved' \in Binds
    <3>1. \A k \in PromptKeys : t.binds[k] \in Nat /\ bound[k] \in Nat /\ moved[k] \in Nat /\ clock \in Nat
      BY DEF PromptInv, PromptTypeOK, WriterRow, Binds
    <3>2. bound' = [k \in PromptKeys |-> IF t.binds[k] # 0 THEN t.binds[k] ELSE bound[k]]
      BY <1>1 DEF CommitPrompts, BindsOf
    <3>3. bound' \in Binds
      BY <3>1, <3>2 DEF Binds
    <3>4. moved' = [k \in PromptKeys |-> IF bound'[k] # bound[k] THEN clock ELSE moved[k]]
      BY DEF CommitPrompts
    <3>5. moved' \in Binds
      BY <3>1, <3>4 DEF Binds
    <3> QED BY <3>3, <3>5
  <2>2. versions' \subseteq Row
    BY <1>3 DEF PromptInv, PromptTypeOK, WriterRow
  <2> QED BY <1>2, <1>3, <2>1, <2>2 DEF PromptInv, PromptTypeOK
<1>7. Numbered'
  <2>1. Apart(versions')
    <3> SUFFICES ASSUME NEW v \in versions', NEW x \in versions', v.key = x.key,
                        v.number = x.number \/ v.text = x.text
                 PROVE  v = x
      BY DEF Apart
    <3>1. v.key \in PromptKeys
      BY <1>6 DEF PromptTypeOK, Row
    <3>2. CountOf(v.key) \in Nat /\ \A y \in OfKey(versions, v.key) : y.number \in 1 .. CountOf(v.key)
      BY <3>1, FS_CardinalityType DEF PromptInv, Numbered, CountOf
    <3>3. \A y \in t.new : y.key = v.key =>
             /\ y.number = CountOf(v.key) + 1
             /\ \A z \in OfKey(versions, v.key) : z.text # y.text
             /\ \A z \in t.new : z.key = v.key => z = y
      BY <1>1 DEF PromptInv, RowsWait
    <3>4. CASE v \in versions /\ x \in versions
      BY <3>4 DEF PromptInv, Numbered, Apart
    <3>5. CASE v \in t.new /\ x \in t.new
      BY <3>3, <3>5
    <3>6. CASE v \in versions /\ x \in t.new
      <4>1. v \in OfKey(versions, v.key)
        BY <3>6 DEF OfKey
      <4> QED BY <3>2, <3>3, <3>6, <4>1
    <3>7. CASE v \in t.new /\ x \in versions
      <4>1. x \in OfKey(versions, v.key)
        BY <3>7 DEF OfKey
      <4> QED BY <3>2, <3>3, <3>7, <4>1
    <3> QED BY <1>3, <3>4, <3>5, <3>6, <3>7
  <2>2. ASSUME NEW k \in PromptKeys
        PROVE  /\ IsFiniteSet(OfKey(versions', k))
               /\ {v.number : v \in OfKey(versions', k)} = 1 .. CountOf(k)'
    <3>0. OfKey(versions, k)' = OfKey(versions', k)
      BY DEF OfKey
    <3>1. /\ IsFiniteSet(OfKey(versions, k))
          /\ {v.number : v \in OfKey(versions, k)} = 1 .. CountOf(k)
      BY DEF PromptInv, Numbered
    <3>2. CountOf(k) \in Nat
      BY <3>1, FS_CardinalityType DEF CountOf
    <3>3. CASE OfKey(versions, k)' = OfKey(versions, k) /\ CountOf(k)' = CountOf(k)
      BY <3>0, <3>1, <3>3
    <3>4. CASE \E row \in t.new :
                  /\ OfKey(versions, k)' = OfKey(versions, k) \cup {row}
                  /\ row.number = CountOf(k) + 1
                  /\ CountOf(k)' = CountOf(k) + 1
      <4>1. PICK row \in t.new :
                  /\ OfKey(versions, k)' = OfKey(versions, k) \cup {row}
                  /\ row.number = CountOf(k) + 1
                  /\ CountOf(k)' = CountOf(k) + 1
        BY <3>4
      <4>2. IsFiniteSet(OfKey(versions, k) \cup {row})
        BY <3>1, FS_AddElement
      <4> DEFINE S == OfKey(versions, k)
                 n == CountOf(k)
      <4> HIDE DEF S, n
      <4>3. {v.number : v \in S \cup {row}} = {v.number : v \in S} \cup {row.number}
        OBVIOUS
      <4>4. (1 .. n) \cup {n + 1} = 1 .. n + 1
        BY <3>2 DEF n
      <4>5. {v.number : v \in S \cup {row}} = 1 .. n + 1
        BY <3>1, <4>1, <4>3, <4>4 DEF S, n
      <4> QED BY <3>0, <4>1, <4>2, <4>5 DEF S, n
    <3> QED BY <1>5, <3>3, <3>4
  <2>3. \A k : CountOf(k)' = Cardinality(OfKey(versions', k))
    BY DEF CountOf, OfKey
  <2> QED BY <2>1, <2>2, <2>3 DEF Numbered
<1>8. RowsWait'
  <2>1. ASSUME NEW u \in Writers \ {w}, NEW x \in writer[u].new
        PROVE  x.key \in PromptKeys /\ CountOf(x.key)' = CountOf(x.key)
               /\ OfKey(versions, x.key)' = OfKey(versions, x.key)
    <3>1. x.key \in PromptKeys
      BY DEF PromptInv, PromptTypeOK, WriterRow, Row
    <3>2. \A y \in t.new : y.key # x.key
      BY <1>1 DEF PromptInv, RowsWait
    <3>3. PICK k \in PromptKeys : k = x.key
      BY <3>1
    <3>4. CountOf(k)' = CountOf(k) /\ OfKey(versions, k)' = OfKey(versions, k)
      BY <1>5, <3>2, <3>3
    <3> QED BY <3>3, <3>4
  <2>2. \A u \in Writers \ {w} : \A x \in writer'[u].new :
           /\ x.number = CountOf(x.key)' + 1
           /\ \A v \in OfKey(versions, x.key)' : v.text # x.text
    BY <1>4, <2>1 DEF PromptInv, RowsWait
  <2>3. \A u \in Writers : \A x, y \in writer'[u].new : x.key = y.key => x = y
    BY <1>2, <1>4 DEF PromptInv, RowsWait
  <2>4. \A u \in Writers : \A v \in Writers \ {u} :
           \A x \in writer'[u].new, y \in writer'[v].new : x.key # y.key
    BY <1>2, <1>4 DEF PromptInv, RowsWait
  <2>5. writer'[w].new = {}
    BY <1>2, <1>4
  <2> QED BY <2>2, <2>3, <2>4, <2>5 DEF RowsWait
<1>9. \A k \in PromptKeys : CountOf(k)' \in Nat /\ CountOf(k) \in Nat /\ CountOf(k)' >= CountOf(k)
  BY <1>5, FS_CardinalityType DEF PromptInv, Numbered, CountOf
<1>10. WritersKnow'
  <2>1. ASSUME NEW s \in WriterRow, Knows(s)
        PROVE  Knows(s)'
    <3>1. \A k, n : Sees(s, k, n) => Sees(s, k, n)'
      BY <1>3 DEF Sees
    <3>2. s.pc = "insert" => s.number \in 1 .. CountOf(s.key)' + 1
      <4>1. SUFFICES ASSUME s.pc = "insert" PROVE s.number \in 1 .. CountOf(s.key)' + 1
        OBVIOUS
      <4>2. PICK k \in PromptKeys : k = s.key
        BY <2>1, <4>1 DEF Knows, Looking
      <4>3. s.number \in 1 .. CountOf(k) + 1 /\ CountOf(s.key)' = CountOf(k)'
        BY <2>1, <4>1, <4>2 DEF Knows
      <4> QED BY <1>9, <4>3
    <3> QED BY <2>1, <3>1, <3>2 DEF Knows
  <2> SUFFICES ASSUME NEW u \in Writers PROVE Knows(writer[u])'
    BY DEF WritersKnow
  <2>2. PICK s \in WriterRow : s = writer'[u] /\ Knows(s)
    BY <1>2, <1>4 DEF PromptInv, PromptTypeOK, WritersKnow
  <2>3. Knows(s)'
    BY <2>1, <2>2
  <2> QED BY <2>2, <2>3
<1>11. BoundIsThere'
  <2> SUFFICES ASSUME NEW k \in PromptKeys, bound'[k] # 0
               PROVE  \E v \in versions' : v.key = k /\ v.number = bound'[k]
    BY DEF BoundIsThere
  <2>1. CASE t.binds[k] # 0
    BY <1>1, <1>3, <2>1 DEF Knows, Sees
  <2>2. CASE t.binds[k] = 0
    BY <1>3, <2>2 DEF PromptInv, BoundIsThere
  <2> QED BY <2>1, <2>2
<1>12. ReadersKnow'
  <2>1. ASSUME NEW k \in PromptKeys, bound'[k] = bound[k]
        PROVE  ActiveText(k)' = ActiveText(k)
    <3>1. CASE bound[k] = 0
      BY <2>1, <3>1 DEF ActiveText
    <3>2. CASE bound[k] # 0
      <4>1. PICK row \in versions : row.key = k /\ row.number = bound[k]
        BY <3>2 DEF PromptInv, BoundIsThere
      <4>2. (CHOOSE v \in versions : v.key = k /\ v.number = bound[k]) = row
        BY <4>1, ChosenRow DEF PromptInv, Numbered
      <4>3. row \in versions' /\ Apart(versions')
        BY <1>3, <1>7 DEF Numbered
      <4>4. (CHOOSE v \in versions' : v.key = k /\ v.number = bound'[k]) = row
        BY <2>1, <4>1, <4>3, ChosenRow
      <4>5. ActiveText(k) = row.text
        BY <3>2, <4>2, Zenon DEF ActiveText
      <4>6. ActiveText(k)' = row.text
        BY <2>1, <3>2, <4>4, Zenon DEF ActiveText
      <4> QED BY <4>5, <4>6
    <3> QED BY <3>1, <3>2
  <2>2. \A k \in PromptKeys : moved'[k] <= clock
    BY <1>3 DEF PromptInv, PromptTypeOK, ReadersKnow
  <2>3. ASSUME NEW k \in PromptKeys, NEW since \in Int, since <= clock, NEW text, Fresh(k, since, text)
        PROVE  Fresh(k, since, text)'
    <3>1. CASE bound'[k] = bound[k]
      BY <1>3, <2>1, <2>3, <3>1 DEF Fresh
    <3>2. CASE bound'[k] # bound[k]
      <4>1. moved'[k] = clock /\ clock \in Nat
        BY <1>3, <3>2 DEF PromptInv, PromptTypeOK
      <4> QED BY <2>3, <4>1 DEF Fresh
    <3> QED BY <3>1, <3>2
  <2>4. ASSUME NEW k \in PromptKeys
        PROVE  cache[k].until - Ttl <= clock /\ Fresh(k, cache[k].until - Ttl, cache[k].text)'
    <3>1. PICK since \in Int, text \in AllTexts : since = cache[k].until - Ttl /\ text = cache[k].text
      BY DEF PromptInv, PromptTypeOK
    <3>2. since <= clock /\ Fresh(k, since, text)
      BY <3>1 DEF PromptInv, ReadersKnow
    <3>3. Fresh(k, since, text)'
      BY <2>3, <3>2
    <3> QED BY <1>3, <3>1, <3>2, <3>3
  <2>5. ASSUME NEW r \in Readers
        PROVE  /\ loading[r].since <= clock
               /\ loading[r].pc # "idle" => loading[r].key \in PromptKeys
               /\ loading[r].pc = "store" => Fresh(loading[r].key, loading[r].since, loading[r].text)'
    <3>1. /\ loading[r].since <= clock /\ loading[r].since \in Nat /\ loading[r].text \in AllTexts
          /\ loading[r].pc # "idle" => loading[r].key \in PromptKeys
          /\ loading[r].pc = "store" => Fresh(loading[r].key, loading[r].since, loading[r].text)
      BY DEF PromptInv, PromptTypeOK, ReaderRow, ReadersKnow
    <3>2. ASSUME loading[r].pc = "store"
          PROVE  Fresh(loading[r].key, loading[r].since, loading[r].text)'
      <4>0. PICK k \in PromptKeys : k = loading[r].key
        BY <3>1, <3>2
      <4>1. PICK since \in Int, text \in AllTexts : since = loading[r].since /\ text = loading[r].text
        BY <3>1
      <4>2. since <= clock /\ Fresh(k, since, text)
        BY <3>1, <3>2, <4>0, <4>1
      <4>3. Fresh(k, since, text)'
        BY <2>3, <4>2
      <4> QED BY <1>3, <4>0, <4>1, <4>3
    <3> QED BY <3>1, <3>2
  <2> QED BY <1>3, <2>2, <2>4, <2>5 DEF ReadersKnow
<1> QED BY <1>6, <1>7, <1>8, <1>10, <1>11, <1>12 DEF PromptInv

-------------------------------------------------------------------------------
(* The cache and its readers *)

\* A step that writes no row and no binding: what is left to show is what the
\* readers have.
LEMMA ReadersMove ==
  ASSUME PromptInv, UNCHANGED <<versions, bound, moved>>,
         writer' = writer \/ \E w \in Writers : writer' = [writer EXCEPT ![w].pc = "ended"],
         PromptTypeOK', ReadersKnow'
  PROVE  PromptInv'
<1>1. Numbered' = Numbered
  BY DEF Numbered, Apart, CountOf, OfKey
<1>2. BoundIsThere' = BoundIsThere
  BY DEF BoundIsThere
<1>3. \A x : CountOf(x)' = CountOf(x) /\ OfKey(versions, x)' = OfKey(versions, x)
  BY DEF CountOf, OfKey
<1>4. \A t \in WriterRow : Knows(t) => Knows(t)'
  BY DEF Knows, Sees, CountOf, OfKey
<1>5. \A u \in Writers :
         /\ writer'[u] \in WriterRow
         /\ writer'[u] = writer[u] \/ (writer'[u].pc = "ended" /\ writer'[u].new = writer[u].new
                                       /\ writer'[u].binds = writer[u].binds)
  BY DEF PromptInv, PromptTypeOK, WriterRow
<1>6. RowsWait'
  <2>1. \A u \in Writers : writer'[u].new = writer[u].new
    BY <1>5
  <2> QED BY <1>3, <2>1 DEF PromptInv, RowsWait
<1>7. WritersKnow'
  <2> SUFFICES ASSUME NEW u \in Writers PROVE Knows(writer[u])'
    BY DEF WritersKnow
  <2>1. PICK t \in WriterRow : t = writer'[u]
    BY <1>5
  <2>2. Knows(t)
    <3>1. CASE t = writer[u]
      BY <3>1 DEF PromptInv, WritersKnow
    <3>2. CASE t.pc = "ended" /\ t.new = writer[u].new /\ t.binds = writer[u].binds
      BY <3>2 DEF PromptInv, WritersKnow, Knows, Sees, Looking, Found
    <3> QED BY <1>5, <2>1, <3>1, <3>2
  <2>3. Knows(t)'
    BY <1>4, <2>2
  <2> QED BY <2>1, <2>3
<1> QED BY <1>1, <1>2, <1>6, <1>7 DEF PromptInv

LEMMA TimePassesInv ==
  ASSUME PromptInv, TimePasses
  PROVE  PromptInv'
<1>1. \A k, since, text : Fresh(k, since, text)' = Fresh(k, since, text)
  BY DEF TimePasses, Fresh, ActiveText
<1>2. PromptTypeOK'
  BY DEF PromptInv, PromptTypeOK, TimePasses
<1>3. ReadersKnow'
  <2>1. clock \in Nat /\ clock' = clock + 1 /\ UNCHANGED <<moved, cache, loading>>
    BY DEF PromptInv, PromptTypeOK, TimePasses
  <2>2. \A k \in PromptKeys : moved[k] \in Nat /\ cache[k].until - Ttl \in Int
    BY PromptAssumption DEF PromptInv, PromptTypeOK, Binds
  <2>3. \A r \in Readers : loading[r].since \in Nat
    BY DEF PromptInv, PromptTypeOK, ReaderRow
  <2>4. \A n \in Int : n <= clock => n <= clock'
    BY <2>1
  <2> QED BY <1>1, <2>1, <2>2, <2>3, <2>4 DEF PromptInv, ReadersKnow
<1> QED BY <1>2, <1>3, ReadersMove DEF TimePasses

LEMMA ClearCacheInv ==
  ASSUME PromptInv, NEW w \in Writers, ClearCache(w)
  PROVE  PromptInv'
<1>1. \A k, since, text : Fresh(k, since, text)' = Fresh(k, since, text)
  BY DEF ClearCache, Fresh, ActiveText
<1>2. \A k \in PromptKeys : cache'[k] = NoEntry
  BY DEF ClearCache
<1>3. PromptTypeOK'
  <2>1. writer' \in [Writers -> WriterRow]
    BY DEF PromptInv, PromptTypeOK, ClearCache, WriterRow
  <2>2. cache' \in [PromptKeys -> [until : Int, text : AllTexts]]
    BY DEF ClearCache, NoEntry, AllTexts
  <2> QED BY <2>1, <2>2 DEF PromptInv, PromptTypeOK, ClearCache
<1>4. ReadersKnow'
  <2>1. \A k \in PromptKeys : cache'[k].until - Ttl <= clock /\ Fresh(k, cache'[k].until - Ttl, cache'[k].text)
    BY <1>2, PromptAssumption DEF NoEntry, Fresh, PromptInv, PromptTypeOK, Binds
  <2> QED BY <1>1, <2>1 DEF PromptInv, ReadersKnow, ClearCache
<1> QED BY <1>3, <1>4, ReadersMove DEF ClearCache

LEMMA MissCacheInv ==
  ASSUME PromptInv, NEW r \in Readers, NEW k \in PromptKeys, MissCache(r, k)
  PROVE  PromptInv'
<1> DEFINE row == [pc |-> "read", key |-> k, since |-> clock, text |-> FileText]
<1>1. \A j, since, text : Fresh(j, since, text)' = Fresh(j, since, text)
  BY DEF MissCache, Fresh, ActiveText
<1>2. row \in ReaderRow
  BY DEF PromptInv, PromptTypeOK, ReaderRow, AllTexts
<1>3. /\ loading'[r] = row
      /\ \A q \in Readers \ {r} : loading'[q] = loading[q]
  BY DEF MissCache, PromptInv, PromptTypeOK
<1>4. PromptTypeOK'
  BY <1>2 DEF MissCache, PromptInv, PromptTypeOK
<1>5. ReadersKnow'
  <2>1. row.since <= clock /\ row.key \in PromptKeys /\ row.pc # "store"
    BY DEF PromptInv, PromptTypeOK
  <2> HIDE DEF row
  <2> QED BY <1>1, <1>3, <2>1 DEF MissCache, PromptInv, ReadersKnow
<1> QED BY <1>4, <1>5, ReadersMove DEF MissCache

LEMMA ReadActiveInv ==
  ASSUME PromptInv, NEW r \in Readers, ReadActive(r)
  PROVE  PromptInv'
<1>1. \A k, since, text : Fresh(k, since, text)' = Fresh(k, since, text)
  BY DEF ReadActive, Fresh, ActiveText
<1>2. PICK t \in ReaderRow : t = loading[r] /\ t.pc = "read" /\ t.key \in PromptKeys /\ t.since <= clock
  BY DEF PromptInv, PromptTypeOK, ReadersKnow, ReadActive
<1>3. PICK text \in {ActiveText(t.key), FileText} :
         loading' = [loading EXCEPT ![r] = [t EXCEPT !.pc = "store", !.text = text]]
  BY <1>2 DEF ReadActive
<1>4. text \in AllTexts
  <2>1. CASE bound[t.key] = 0 \/ text = FileText
    BY <2>1 DEF ActiveText, AllTexts
  <2>2. CASE bound[t.key] # 0 /\ text = ActiveText(t.key)
    <3>1. PICK row \in versions : row.key = t.key /\ row.number = bound[t.key]
      BY <1>2, <2>2 DEF PromptInv, BoundIsThere
    <3>2. (CHOOSE v \in versions : v.key = t.key /\ v.number = bound[t.key]) = row
      BY <3>1, ChosenRow DEF PromptInv, Numbered
    <3>3. text = row.text
      BY <2>2, <3>2, Zenon DEF ActiveText
    <3> QED BY <3>3 DEF PromptInv, PromptTypeOK, Row
  <2> QED BY <1>3, <2>1, <2>2
<1>5. PICK row \in ReaderRow : row = [t EXCEPT !.pc = "store", !.text = text]
  BY <1>4 DEF ReaderRow
<1>6. row.pc = "store" /\ row.key = t.key /\ row.since = t.since /\ row.text = text
  BY <1>5 DEF ReaderRow
<1>7. Fresh(row.key, row.since, row.text)
  BY <1>3, <1>6 DEF Fresh
<1>8. loading' = [loading EXCEPT ![r] = row]
  BY <1>3, <1>5, Zenon
<1>9. loading'[r] = row /\ \A q \in Readers \ {r} : loading'[q] = loading[q]
  BY <1>8 DEF PromptInv, PromptTypeOK
<1>10. PromptTypeOK'
  BY <1>8 DEF PromptInv, PromptTypeOK, ReadActive
<1>11. ReadersKnow'
  BY <1>1, <1>2, <1>6, <1>7, <1>9 DEF PromptInv, ReadersKnow, ReadActive
<1> QED BY <1>10, <1>11, ReadersMove DEF ReadActive

LEMMA StoreEntryInv ==
  ASSUME PromptInv, NEW r \in Readers, StoreEntry(r)
  PROVE  PromptInv'
<1>1. \A k, since, text : Fresh(k, since, text)' = Fresh(k, since, text)
  BY DEF StoreEntry, Fresh, ActiveText
<1>2. PICK t \in ReaderRow : /\ t = loading[r] /\ t.key \in PromptKeys /\ t.since <= clock
                             /\ Fresh(t.key, t.since, t.text)
  BY DEF PromptInv, PromptTypeOK, ReadersKnow, StoreEntry
<1> DEFINE entry == [until |-> t.since + Ttl, text |-> t.text]
<1>3. entry \in [until : Int, text : AllTexts]
  BY PromptAssumption DEF ReaderRow
<1>4. entry.until - Ttl = t.since /\ entry.text = t.text
  BY PromptAssumption DEF ReaderRow
<1>5. cache' = [cache EXCEPT ![t.key] = entry] /\ loading' = [loading EXCEPT ![r] = NotLoading]
  BY <1>2 DEF StoreEntry
<1> HIDE DEF entry
<1>6. NotLoading \in ReaderRow /\ NotLoading.since = 0 /\ NotLoading.pc = "idle"
  BY DEF NotLoading, ReaderRow, AllTexts
<1>7. PromptTypeOK'
  BY <1>3, <1>5, <1>6 DEF PromptInv, PromptTypeOK, StoreEntry
<1>8. /\ cache'[t.key] = entry /\ \A k \in PromptKeys \ {t.key} : cache'[k] = cache[k]
      /\ loading'[r] = NotLoading /\ \A q \in Readers \ {r} : loading'[q] = loading[q]
  BY <1>2, <1>5 DEF PromptInv, PromptTypeOK
<1>9. ReadersKnow'
  <2>1. \A k \in PromptKeys :
           cache'[k].until - Ttl <= clock /\ Fresh(k, cache'[k].until - Ttl, cache'[k].text)
    BY <1>2, <1>4, <1>8 DEF PromptInv, ReadersKnow
  <2>2. \A q \in Readers :
           /\ loading'[q].since <= clock
           /\ loading'[q].pc # "idle" => loading'[q].key \in PromptKeys
           /\ loading'[q].pc = "store" => Fresh(loading'[q].key, loading'[q].since, loading'[q].text)
    BY <1>6, <1>8 DEF PromptInv, PromptTypeOK, ReadersKnow
  <2> QED BY <1>1, <2>1, <2>2 DEF PromptInv, ReadersKnow, StoreEntry
<1> QED BY <1>7, <1>9, ReadersMove DEF StoreEntry

-------------------------------------------------------------------------------

LEMMA PromptStep == PromptInv /\ [PromptNext]_promptVars => PromptInv'
<1> SUFFICES ASSUME PromptInv, [PromptNext]_promptVars PROVE PromptInv'
  OBVIOUS
<1>1. CASE TimePasses
  BY <1>1, TimePassesInv
<1>2. ASSUME NEW w \in Admins, RefuseSave(w) PROVE PromptInv'
  BY <1>2, RefuseSaveInv
<1>3. ASSUME NEW w \in Admins, NEW k \in PromptKeys, NEW text \in Texts, NEW activate \in BOOLEAN,
             StartSave(w, k, text, activate)
      PROVE  PromptInv'
  BY <1>3, StartSaveInv
<1>4. ASSUME NEW w \in Syncs, NEW activate \in BOOLEAN, StartSync(w, activate) PROVE PromptInv'
  BY <1>4, StartSyncInv
<1>5. ASSUME NEW w \in Writers, WriterStep(w) PROVE PromptInv'
  BY <1>5, FindVersionInv, NumberVersionInv, InsertVersionInv, LookForBindingInv, BindInv,
     NextKeyInv, CommitPromptsInv, AbortInv, ClearCacheInv DEF WriterStep
<1>6. ASSUME NEW r \in Readers, NEW k \in PromptKeys, MissCache(r, k) PROVE PromptInv'
  BY <1>6, MissCacheInv
<1>7. ASSUME NEW r \in Readers, ReadActive(r) \/ StoreEntry(r) PROVE PromptInv'
  BY <1>7, ReadActiveInv, StoreEntryInv
<1>8. CASE UNCHANGED promptVars
  <2>1. PromptTypeOK'
    BY <1>8 DEF promptVars, PromptInv, PromptTypeOK
  <2>2. ReadersKnow' = ReadersKnow
    BY <1>8 DEF promptVars, ReadersKnow, Fresh, ActiveText
  <2> QED BY <1>8, <2>1, <2>2, ReadersMove DEF promptVars, PromptInv
<1> QED BY <1>1, <1>2, <1>3, <1>4, <1>5, <1>6, <1>7, <1>8 DEF PromptNext

\* Transactions insert the next number of a key or none, whatever they had
\* counted before: no gap, no text twice, and the active version exists, for any
\* number of administrators and synchronisations (save_prompt, _sync_one).
THEOREM VersionsStayDense == PromptSpec => []VersionsAreDense
<1>1. PromptInv => VersionsAreDense
  <2> SUFFICES ASSUME PromptInv, NEW k \in PromptKeys
               PROVE  /\ {v.number : v \in OfKey(versions, k)} = 1 .. CountOf(k)
                      /\ \A v, x \in OfKey(versions, k) : v.text = x.text => v = x
                      /\ bound[k] \in 0 .. CountOf(k)
    BY DEF VersionsAreDense, CountOf
  <2>1. {v.number : v \in OfKey(versions, k)} = 1 .. CountOf(k)
    BY DEF PromptInv, Numbered
  <2>2. \A v, x \in OfKey(versions, k) : v.text = x.text => v = x
    BY DEF PromptInv, Numbered, Apart, OfKey
  <2>3. bound[k] \in 0 .. CountOf(k)
    <3>1. CountOf(k) \in Nat
      BY FS_CardinalityType DEF PromptInv, Numbered, CountOf
    <3>2. bound[k] # 0 => bound[k] \in {v.number : v \in OfKey(versions, k)}
      BY DEF PromptInv, BoundIsThere, OfKey
    <3> DEFINE n == CountOf(k)
    <3>3. bound[k] # 0 => bound[k] \in 1 .. n
      BY <2>1, <3>2
    <3> HIDE DEF n
    <3> QED BY <3>1, <3>3 DEF n
  <2> QED BY <2>1, <2>2, <2>3
<1> QED BY <1>1, PromptInitInv, PromptStep, PTL DEF PromptSpec

\* What the cache serves was active when it was read, or has changed since; so
\* a prompt that is not active any more is gone after the time to live, for any
\* order of reading, changing, clearing and storing (_active, clear).
THEOREM CacheStaysRecent == PromptSpec => []CacheIsRecent
<1>1. PromptInv => CacheIsRecent
  BY DEF PromptInv, ReadersKnow, Fresh, CacheIsRecent
<1> QED BY <1>1, PromptInitInv, PromptStep, PTL DEF PromptSpec
-------------------------------------------------------------------------------
(* EventStream                                                               *)

EventSpec == StreamInit /\ [][StreamNext]_streamVars

\* A turn is told in pieces and ends with its own answer or without one.
Shaped(e) ==
    /\ e.type \in {"piece", "done"} => e.turn \in TurnIds /\ e.seq > 0
    /\ e.type = "done" => e.full \subseteq {<<e.turn>>}
    /\ e.type \in {"piece", "failed"} => e.full = {}
EventRow == [type : {"piece", "done", "card", "failed"}, turn : 0 .. TurnMax, seq : Nat,
             full : SUBSET Items]
Event   == {e \in EventRow : Shaped(e)}
TurnRow == [no : 0 .. TurnMax, seq : Nat, step : {"none", "streaming", "stored", "told"}, reply : Replies]
Pieces  == {s \in SUBSET Nat : IsFiniteSet(s)}
Heard   == [last : Nat, buf : Pieces, done : Nat]
Fetch   == [step : {"none", "asked", "messages", "read"}, items : SUBSET Items]
TabRow  == [open : BOOLEAN, opens : Nat, queue : Seq(Event), at : [TurnIds -> Heard],
            text : Seq(Nat), taken : Nat, shown : SUBSET Items, fetch : Fetch, seen : SUBSET Items,
            joined : 0 .. TurnMax, missed : BOOLEAN]

StreamTypeOK ==
    /\ mainTurn \in TurnRow
    /\ saved \in SUBSET Items /\ unsent \in SUBSET saved
    /\ tab \in [Tabs -> TabRow]

\* A turn that runs has a number, and its reply is stored before it is told.
TurnKept(m, stored) ==
    /\ m.step # "none" => m.no \in TurnIds
    /\ m.step \in {"stored", "told"} /\ m.reply # "silent" => <<m.no>> \in stored

IsText(e)      == e.type \in {"piece", "done"}
OfTurn(e, n)   == IsText(e) /\ e.turn = n
ToPublish(m, n) == n = m.no /\ m.step \in {"streaming", "stored"}

\* A tab that is not connected is sent nothing, and what a tab waits for or
\* shows is stored.
ShowsStored(t, stored) ==
    /\ ~t.open => t.queue = <<>>
    /\ t.shown \subseteq stored
    /\ t.fetch.items \subseteq stored
    /\ t.fetch.step \in {"none", "asked"} => t.fetch.items = {}
    /\ \A k \in 1 .. Len(t.queue) : t.queue[k].full \subseteq stored

\* The text of the turns comes in the order of the turns, and none that a tab
\* has begun to put together is later than what is still to come.
InOrder(t, m) ==
    /\ \A k \in 1 .. Len(t.queue) : IsText(t.queue[k]) => t.queue[k].turn <= m.no
    /\ \A j, k \in 1 .. Len(t.queue) :
          j < k /\ IsText(t.queue[j]) /\ IsText(t.queue[k]) => t.queue[j].turn <= t.queue[k].turn
    /\ \A n \in TurnIds : t.at[n].last > 0 =>
          /\ n <= m.no
          /\ \A k \in 1 .. Len(t.queue) : IsText(t.queue[k]) => n <= t.queue[k].turn

\* What a connected tab that has missed nothing holds of a turn it did not come
\* into the middle of: its pieces are in the queue from the next one on, in
\* order and without a gap, up to the last one sent, and its end after them.
QueuedNext(q, n, last, k) ==
    /\ q[k].seq > last
    /\ \A s \in last + 1 .. q[k].seq - 1 : \E j \in 1 .. k - 1 : OfTurn(q[j], n) /\ q[j].seq = s
    /\ \A j \in 1 .. k - 1 : OfTurn(q[j], n) => q[j].seq < q[k].seq /\ q[j].type = "piece"
UpToDate(q, m, n, last) ==
    /\ last <= m.seq
    /\ \A k \in 1 .. Len(q) : OfTurn(q[k], n) => q[k].type = "piece" /\ q[k].seq <= m.seq
    /\ \A s \in last + 1 .. m.seq : \E k \in 1 .. Len(q) : OfTurn(q[k], n) /\ q[k].seq = s
NoGap(q, at, m, n) ==
    /\ at.buf = {} /\ at.done = 0
    /\ \A k \in 1 .. Len(q) : OfTurn(q[k], n) => QueuedNext(q, n, at.last, k)
    /\ ToPublish(m, n) => UpToDate(q, m, n, at.last)

\* Why a stored item will be seen by a connected tab that has missed nothing.
Untold(m, i) ==
    /\ m.reply # "silent" /\ i = <<m.no>>
    /\ m.step = "stored" \/ (m.step = "told" /\ m.reply \in {"error", "raised"})
Coming(t, m, waiting, i) ==
    \/ i \in t.seen
    \/ \E k \in 1 .. Len(t.queue) : i \in t.queue[k].full \/ t.queue[k].type = "failed"
    \/ i \in t.fetch.items
    \/ i \in waiting
    \/ Untold(m, i)
    \/ t.fetch.step = "asked"
    \/ t.fetch.step = "messages" /\ i \in CanvasCards
    \/ i = <<t.joined>>

KeepsUp(t, m, stored, waiting) ==
    t.open /\ ~t.missed =>
        /\ \A n \in TurnIds \ {t.joined} : NoGap(t.queue, t.at[n], m, n)
        /\ \A i \in stored : Coming(t, m, waiting, i)

\* The text is a run of pieces after those that were taken away; a turn that more
\* is to come of goes on where it ends.
Run(text, taken) == \A i \in 1 .. Len(text) : text[i] = taken + i
Past(t, m, n) == n < m.no /\ \A k \in 1 .. Len(t.queue) : ~OfTurn(t.queue[k], n)
TextFits(t, m) ==
    /\ Run(t.text, t.taken)
    /\ \A n \in TurnIds : t.at[n].last > 0 => t.taken + Len(t.text) = t.at[n].last \/ Past(t, m, n)

TabInv(t, m, stored, waiting) ==
    /\ ShowsStored(t, stored)
    /\ InOrder(t, m)
    /\ TextFits(t, m)
    /\ KeepsUp(t, m, stored, waiting)

StreamInv ==
    /\ StreamTypeOK
    /\ TurnKept(mainTurn, saved)
    /\ \A b \in Tabs : TabInv(tab[b], mainTurn, saved, unsent)

-------------------------------------------------------------------------------
\* What a queue holds when an event joins it, and when its first is taken.
LEMMA QueueGrows ==
  ASSUME NEW q \in Seq(Event), NEW e \in Event
  PROVE  /\ Append(q, e) \in Seq(Event) /\ Len(q) \in Nat /\ Len(Append(q, e)) = Len(q) + 1
         /\ \A k \in 1 .. Len(q) : Append(q, e)[k] = q[k] /\ q[k] \in Event
         /\ Append(q, e)[Len(q) + 1] = e
<1> HIDE DEF Event
<1> QED BY AppendProperties, LenProperties, ElementOfSeq

LEMMA QueueShrinks ==
  ASSUME NEW q \in Seq(Event), q # <<>>
  PROVE  /\ Tail(q) \in Seq(Event) /\ Len(q) \in Nat \ {0} /\ Len(Tail(q)) = Len(q) - 1
         /\ Head(q) \in Event /\ Head(q) = q[1]
         /\ \A k \in 1 .. Len(Tail(q)) : Tail(q)[k] = q[k + 1]
         /\ \A k \in 1 .. Len(q) : q[k] \in Event
<1> HIDE DEF Event
<1>1. Tail(q) \in Seq(Event) /\ Len(Tail(q)) = Len(q) - 1 /\ Head(q) \in Event
      /\ \A k \in 1 .. Len(Tail(q)) : Tail(q)[k] = q[k + 1]
  BY HeadTailProperties
<1>2. Len(q) \in Nat \ {0} /\ Head(q) = q[1]
  BY EmptySeq
<1>3. \A k \in 1 .. Len(q) : q[k] \in Event
  BY ElementOfSeq
<1> QED BY <1>1, <1>2, <1>3

LEMMA QueueTyped ==
  ASSUME NEW q \in Seq(Event)
  PROVE  Len(q) \in Nat /\ \A k \in 1 .. Len(q) : q[k] \in Event /\ q[k].seq \in Nat /\ q[k].turn \in Nat
<1>1. Len(q) \in Nat /\ \A k \in 1 .. Len(q) : q[k] \in Event
  BY LenProperties, ElementOfSeq
<1>2. \A e \in Event : e.seq \in Nat /\ e.turn \in Nat
  BY StreamAssumption DEF Event, EventRow
<1> QED BY <1>1, <1>2

\* A new piece, or the end, goes on where the turn's text ends.
LEMMA NoGapSent ==
  ASSUME NEW q \in Seq(Event), NEW e \in Event, NEW at \in Heard, NEW m \in TurnRow,
         NEW m2 \in TurnRow, NEW n \in TurnIds,
         NoGap(q, at, m, n),
         OfTurn(e, n) => ToPublish(m, n) /\ e.seq = m.seq + 1,
         ToPublish(m2, n) =>
            /\ ToPublish(m, n)
            /\ m2.seq = IF OfTurn(e, n) THEN m.seq + 1 ELSE m.seq
            /\ OfTurn(e, n) => e.type = "piece"
  PROVE  NoGap(Append(q, e), at, m2, n)
<1> DEFINE r == Append(q, e)
<1>1. r \in Seq(Event) /\ Len(q) \in Nat /\ Len(r) = Len(q) + 1 /\ r[Len(q) + 1] = e
  BY QueueGrows
<1>2. \A k \in 1 .. Len(q) : r[k] = q[k]
  BY QueueGrows
<1>3. /\ at.last \in Nat /\ m.seq \in Nat /\ m2.seq \in Nat /\ e.seq \in Nat
      /\ \A k \in 1 .. Len(q) : q[k].seq \in Nat
  BY QueueTyped DEF Heard, TurnRow, Event, EventRow
<1> HIDE DEF r
<1>4. \A k \in 1 .. Len(q) : OfTurn(q[k], n) => QueuedNext(r, n, at.last, k)
  <2>1. ASSUME NEW k \in 1 .. Len(q), OfTurn(q[k], n)
        PROVE  QueuedNext(r, n, at.last, k)
    <3>1. QueuedNext(q, n, at.last, k)
      BY <2>1 DEF NoGap
    <3>2. \A j \in 1 .. k - 1 : r[j] = q[j]
      BY <1>1, <1>2
    <3>3. r[k] = q[k]
      BY <1>2
    <3> QED BY <3>1, <3>2, <3>3 DEF QueuedNext
  <2> QED BY <2>1
<1>5. OfTurn(e, n) => QueuedNext(r, n, at.last, Len(q) + 1)
  <2> SUFFICES ASSUME OfTurn(e, n) PROVE QueuedNext(r, n, at.last, Len(q) + 1)
    OBVIOUS
  <2>1. UpToDate(q, m, n, at.last) /\ e.seq = m.seq + 1
    BY DEF NoGap
  <2>2. e.seq > at.last
    BY <2>1, <1>3 DEF UpToDate
  <2>3. \A s \in at.last + 1 .. e.seq - 1 : \E j \in 1 .. Len(q) : OfTurn(r[j], n) /\ r[j].seq = s
    <3>1. e.seq - 1 = m.seq
      BY <2>1, <1>3
    <3>2. \A s \in at.last + 1 .. m.seq : \E j \in 1 .. Len(q) : OfTurn(q[j], n) /\ q[j].seq = s
      BY <2>1 DEF UpToDate
    <3> QED BY <3>1, <3>2, <1>2
  <2>4. \A j \in 1 .. Len(q) : OfTurn(r[j], n) => r[j].seq < e.seq /\ r[j].type = "piece"
    BY <2>1, <1>2, <1>3 DEF UpToDate
  <2>5. (Len(q) + 1) - 1 = Len(q)
    BY <1>1
  <2> QED BY <2>2, <2>3, <2>4, <2>5, <1>1 DEF QueuedNext
<1>6. \A k \in 1 .. Len(r) : OfTurn(r[k], n) => QueuedNext(r, n, at.last, k)
  <2>1. ASSUME NEW k \in 1 .. Len(r), OfTurn(r[k], n)
        PROVE  QueuedNext(r, n, at.last, k)
    <3>1. CASE k \in 1 .. Len(q)
      BY <2>1, <3>1, <1>2, <1>4
    <3>2. CASE k = Len(q) + 1
      BY <2>1, <3>2, <1>1, <1>5
    <3> QED BY <3>1, <3>2, <1>1
  <2> QED BY <2>1
<1>7. ToPublish(m2, n) => UpToDate(r, m2, n, at.last)
  <2> SUFFICES ASSUME ToPublish(m2, n) PROVE UpToDate(r, m2, n, at.last)
    OBVIOUS
  <2>1. UpToDate(q, m, n, at.last)
    BY DEF NoGap
  <2>2. at.last <= m2.seq
    BY <2>1, <1>3 DEF UpToDate
  <2>3. \A k \in 1 .. Len(r) : OfTurn(r[k], n) => r[k].type = "piece" /\ r[k].seq <= m2.seq
    <3>1. ASSUME NEW k \in 1 .. Len(r), OfTurn(r[k], n)
          PROVE  r[k].type = "piece" /\ r[k].seq <= m2.seq
      <4>1. CASE k \in 1 .. Len(q)
        BY <3>1, <4>1, <2>1, <1>2, <1>3 DEF UpToDate
      <4>2. CASE k = Len(q) + 1
        BY <3>1, <4>2, <1>1, <1>3
      <4> QED BY <4>1, <4>2, <1>1
    <3> QED BY <3>1
  <2>4. \A s \in at.last + 1 .. m2.seq : \E k \in 1 .. Len(r) : OfTurn(r[k], n) /\ r[k].seq = s
    <3>1. ASSUME NEW s \in at.last + 1 .. m2.seq
          PROVE  \E k \in 1 .. Len(r) : OfTurn(r[k], n) /\ r[k].seq = s
      <4>1. CASE s <= m.seq
        <5>1. PICK k \in 1 .. Len(q) : OfTurn(q[k], n) /\ q[k].seq = s
          BY <4>1, <2>1, <1>3 DEF UpToDate
        <5>2. k \in 1 .. Len(r) /\ r[k] = q[k]
          BY <1>1, <1>2
        <5> QED BY <5>1, <5>2
      <4>2. CASE s > m.seq
        <5>1. OfTurn(e, n) /\ s = e.seq
          BY <3>1, <4>2, <1>3
        <5>2. Len(q) + 1 \in 1 .. Len(r)
          BY <1>1
        <5> QED BY <5>1, <5>2, <1>1
      <4> QED BY <4>1, <4>2, <1>3
    <3> QED BY <3>1
  <2> QED BY <2>2, <2>3, <2>4 DEF UpToDate
<1> QED BY <1>6, <1>7 DEF NoGap, r

\* Taking an event of another turn leaves a turn's text as it is.
LEMMA NoGapOther ==
  ASSUME NEW q \in Seq(Event), q # <<>>, NEW at \in Heard, NEW m \in TurnRow, NEW n \in TurnIds,
         NoGap(q, at, m, n), ~OfTurn(Head(q), n)
  PROVE  NoGap(Tail(q), at, m, n)
<1> DEFINE r == Tail(q)
<1>1. Len(q) \in Nat \ {0} /\ Len(r) = Len(q) - 1 /\ Head(q) = q[1]
  BY QueueShrinks
<1>2. \A k \in 1 .. Len(r) : r[k] = q[k + 1]
  BY QueueShrinks
<1> HIDE DEF r
<1>3. \A k \in 1 .. Len(r) : OfTurn(r[k], n) => QueuedNext(r, n, at.last, k)
  <2>1. ASSUME NEW k \in 1 .. Len(r), OfTurn(r[k], n)
        PROVE  QueuedNext(r, n, at.last, k)
    <3>1. QueuedNext(q, n, at.last, k + 1) /\ r[k] = q[k + 1]
      BY <2>1, <1>1, <1>2 DEF NoGap
    <3>2. \A j \in 1 .. k : OfTurn(q[j], n) => j - 1 \in 1 .. k - 1 /\ q[j] = r[j - 1]
      BY <1>1, <1>2
    <3>3. \A j \in 1 .. k - 1 : r[j] = q[j + 1] /\ j + 1 \in 1 .. k
      BY <1>1, <1>2
    <3>4. (k + 1) - 1 = k
      BY <2>1, <1>1
    <3>5. \A s \in at.last + 1 .. r[k].seq - 1 : \E j \in 1 .. k - 1 : OfTurn(r[j], n) /\ r[j].seq = s
      <4>1. ASSUME NEW s \in at.last + 1 .. r[k].seq - 1
            PROVE  \E j \in 1 .. k - 1 : OfTurn(r[j], n) /\ r[j].seq = s
        <5>1. PICK j \in 1 .. k : OfTurn(q[j], n) /\ q[j].seq = s
          BY <3>1, <3>4 DEF QueuedNext
        <5>2. j - 1 \in 1 .. k - 1 /\ q[j] = r[j - 1]
          BY <5>1, <3>2
        <5> QED BY <5>1, <5>2
      <4> QED BY <4>1
    <3>6. \A j \in 1 .. k - 1 : OfTurn(r[j], n) => r[j].seq < r[k].seq /\ r[j].type = "piece"
      BY <3>1, <3>3, <3>4 DEF QueuedNext
    <3> QED BY <3>1, <3>5, <3>6 DEF QueuedNext
  <2> QED BY <2>1
<1>4. ToPublish(m, n) => UpToDate(r, m, n, at.last)
  <2> SUFFICES ASSUME ToPublish(m, n) PROVE UpToDate(r, m, n, at.last)
    OBVIOUS
  <2>1. UpToDate(q, m, n, at.last)
    BY DEF NoGap
  <2>2. \A k \in 1 .. Len(q) : OfTurn(q[k], n) => k - 1 \in 1 .. Len(r) /\ q[k] = r[k - 1]
    BY <1>1, <1>2
  <2>3. \A k \in 1 .. Len(r) : r[k] = q[k + 1] /\ k + 1 \in 1 .. Len(q)
    BY <1>1, <1>2
  <2>4. \A s \in at.last + 1 .. m.seq : \E k \in 1 .. Len(r) : OfTurn(r[k], n) /\ r[k].seq = s
    <3>1. ASSUME NEW s \in at.last + 1 .. m.seq
          PROVE  \E k \in 1 .. Len(r) : OfTurn(r[k], n) /\ r[k].seq = s
      <4>1. PICK k \in 1 .. Len(q) : OfTurn(q[k], n) /\ q[k].seq = s
        BY <2>1 DEF UpToDate
      <4>2. k - 1 \in 1 .. Len(r) /\ q[k] = r[k - 1]
        BY <4>1, <2>2
      <4> QED BY <4>1, <4>2
    <3> QED BY <3>1
  <2> QED BY <2>1, <2>3, <2>4 DEF UpToDate
<1> QED BY <1>3, <1>4 DEF NoGap, r

\* The first event of a turn in the queue is its next piece, or its end.
LEMMA NoGapHead ==
  ASSUME NEW q \in Seq(Event), q # <<>>, NEW at \in Heard, NEW m \in TurnRow, NEW n \in TurnIds,
         NoGap(q, at, m, n), OfTurn(Head(q), n)
  PROVE  Head(q).seq = at.last + 1
<1>1. Len(q) \in Nat \ {0} /\ Head(q) = q[1] /\ q[1].seq \in Nat /\ at.last \in Nat
  BY QueueShrinks, QueueTyped DEF Heard
<1>2. QueuedNext(q, n, at.last, 1)
  BY <1>1 DEF NoGap
<1>3. q[1].seq > at.last
  BY <1>2 DEF QueuedNext
<1>4. 1 - 1 = 0 /\ \A j \in 1 .. 0 : FALSE
  OBVIOUS
<1>5. \A s \in at.last + 1 .. q[1].seq - 1 : FALSE
  BY <1>2, <1>4 DEF QueuedNext
<1> QED BY <1>1, <1>3, <1>5

LEMMA NoGapNext ==
  ASSUME NEW q \in Seq(Event), q # <<>>, NEW at \in Heard, NEW at2 \in Heard,
         NEW m \in TurnRow, NEW n \in TurnIds,
         NoGap(q, at, m, n), OfTurn(Head(q), n), at2.buf = {}, at2.done = 0,
         at2.last = IF Head(q).type = "piece" THEN at.last + 1 ELSE 0
  PROVE  NoGap(Tail(q), at2, m, n)
<1> DEFINE r == Tail(q)
<1>1. Len(q) \in Nat \ {0} /\ Len(r) = Len(q) - 1 /\ Head(q) = q[1] /\ q[1].seq = at.last + 1
  BY QueueShrinks, NoGapHead
<1>2. \A k \in 1 .. Len(r) : r[k] = q[k + 1]
  BY QueueShrinks
<1>3. at.last \in Nat /\ m.seq \in Nat /\ \A k \in 1 .. Len(q) : q[k].seq \in Nat
  BY QueueTyped DEF Heard, TurnRow
<1> HIDE DEF r
<1>4. \A k \in 1 .. Len(r) : OfTurn(r[k], n) => QueuedNext(r, n, at2.last, k)
  <2>1. ASSUME NEW k \in 1 .. Len(r), OfTurn(r[k], n)
        PROVE  QueuedNext(r, n, at2.last, k)
    <3>1. QueuedNext(q, n, at.last, k + 1) /\ r[k] = q[k + 1] /\ k + 1 \in 1 .. Len(q)
      BY <2>1, <1>1, <1>2 DEF NoGap
    <3>4. (k + 1) - 1 = k /\ 1 \in 1 .. k
      BY <2>1, <1>1
    <3>7. q[1].type = "piece" /\ at2.last = at.last + 1 /\ r[k].seq > at2.last
      BY <3>1, <3>4, <1>1, <1>3 DEF QueuedNext
    <3>2. \A j \in 1 .. k : q[j].seq # at.last + 1 => j - 1 \in 1 .. k - 1 /\ q[j] = r[j - 1]
      BY <1>1, <1>2
    <3>3. \A j \in 1 .. k - 1 : r[j] = q[j + 1] /\ j + 1 \in 1 .. k
      BY <1>1, <1>2
    <3>5. \A s \in at2.last + 1 .. r[k].seq - 1 : \E j \in 1 .. k - 1 : OfTurn(r[j], n) /\ r[j].seq = s
      <4>1. ASSUME NEW s \in at2.last + 1 .. r[k].seq - 1
            PROVE  \E j \in 1 .. k - 1 : OfTurn(r[j], n) /\ r[j].seq = s
        <5>1. s \in at.last + 1 .. q[k + 1].seq - 1 /\ s # at.last + 1
          BY <3>1, <3>7, <1>3
        <5>2. PICK j \in 1 .. k : OfTurn(q[j], n) /\ q[j].seq = s
          BY <5>1, <3>1, <3>4 DEF QueuedNext
        <5>3. j - 1 \in 1 .. k - 1 /\ q[j] = r[j - 1]
          BY <5>1, <5>2, <3>2
        <5> QED BY <5>2, <5>3
      <4> QED BY <4>1
    <3>6. \A j \in 1 .. k - 1 : OfTurn(r[j], n) => r[j].seq < r[k].seq /\ r[j].type = "piece"
      BY <3>1, <3>3, <3>4 DEF QueuedNext
    <3> QED BY <3>1, <3>5, <3>6, <3>7 DEF QueuedNext
  <2> QED BY <2>1
<1>5. ToPublish(m, n) => UpToDate(r, m, n, at2.last)
  <2> SUFFICES ASSUME ToPublish(m, n) PROVE UpToDate(r, m, n, at2.last)
    OBVIOUS
  <2>1. UpToDate(q, m, n, at.last)
    BY DEF NoGap
  <2>2. q[1].type = "piece" /\ at2.last = at.last + 1 /\ at2.last <= m.seq
    BY <2>1, <1>1, <1>3 DEF UpToDate
  <2>3. \A k \in 1 .. Len(r) : r[k] = q[k + 1] /\ k + 1 \in 1 .. Len(q)
    BY <1>1, <1>2
  <2>4. \A k \in 1 .. Len(q) : q[k].seq # at.last + 1 => k - 1 \in 1 .. Len(r) /\ q[k] = r[k - 1]
    BY <1>1, <1>2
  <2>5. \A s \in at2.last + 1 .. m.seq : \E k \in 1 .. Len(r) : OfTurn(r[k], n) /\ r[k].seq = s
    <3>1. ASSUME NEW s \in at2.last + 1 .. m.seq
          PROVE  \E k \in 1 .. Len(r) : OfTurn(r[k], n) /\ r[k].seq = s
      <4>1. s \in at.last + 1 .. m.seq /\ s # at.last + 1
        BY <2>2, <1>3
      <4>2. PICK k \in 1 .. Len(q) : OfTurn(q[k], n) /\ q[k].seq = s
        BY <4>1, <2>1 DEF UpToDate
      <4>3. k - 1 \in 1 .. Len(r) /\ q[k] = r[k - 1]
        BY <4>1, <4>2, <2>4
      <4> QED BY <4>2, <4>3
    <3> QED BY <3>1
  <2> QED BY <2>1, <2>2, <2>3, <2>5 DEF UpToDate
<1> QED BY <1>4, <1>5 DEF NoGap, r

\* A turn that nothing was heard of, and nothing is on the way.
LEMMA NoGapNew ==
  ASSUME NEW q \in Seq(Event), NEW at \in Heard, NEW m \in TurnRow, NEW n \in TurnIds,
         at.buf = {}, at.done = 0,
         \A k \in 1 .. Len(q) : ~OfTurn(q[k], n),
         ToPublish(m, n) => at.last = 0 /\ m.seq = 0
  PROVE  NoGap(q, at, m, n)
BY DEF NoGap, UpToDate, Heard, TurnRow

LEMMA NoGapTurn ==
  ASSUME NEW q \in Seq(Event), NEW at \in Heard, NEW m \in TurnRow, NEW m2 \in TurnRow, NEW n \in TurnIds,
         NoGap(q, at, m, n), ToPublish(m2, n) => ToPublish(m, n) /\ m2.seq = m.seq
  PROVE  NoGap(q, at, m2, n)
BY DEF NoGap, UpToDate

-------------------------------------------------------------------------------
\* The least member of a set of numbers.
LEMMA LeastOf ==
  ASSUME NEW S, S \subseteq Nat, S # {}
  PROVE  \E x \in S : \A y \in S : x <= y
<1> DEFINE R == OpToRel(<, Nat)
<1> HIDE DEF R
<1>1. IsWellFoundedOn(R, Nat)
  BY NatLessThanWellFounded DEF R
<1>2. PICK x \in S : \A y \in S : ~(<<y, x>> \in R)
  BY <1>1, WFMin
<1>3. \A y \in S : ~(y < x)
  BY <1>2 DEF R, OpToRel
<1> QED BY <1>3

\* The pieces end somewhere, and Flush goes as far as they go on.
LEMMA FlushGoesOn ==
  ASSUME NEW at \in Heard
  PROVE  \E n \in Nat : /\ n >= at.last
                        /\ \A i \in at.last + 1 .. n : i \in at.buf
                        /\ n + 1 \notin at.buf
                        /\ Flush(at) = [at EXCEPT !.last = n]
<1> DEFINE a == at.last
           c == Cardinality(at.buf)
           S == {n \in a .. a + c : n + 1 \notin at.buf}
           Goal(n) == (\A i \in at.last + 1 .. n : i \in at.buf) /\ n + 1 \notin at.buf
           To == CHOOSE n \in at.last .. at.last + Cardinality(at.buf) :
                                    /\ \A i \in at.last + 1 .. n : i \in at.buf
                                    /\ n + 1 \notin at.buf
<1>1. a \in Nat /\ IsFiniteSet(at.buf) /\ c \in Nat
  BY FS_CardinalityType DEF Heard, Pieces
<1>2. S # {}
  <2> SUFFICES ASSUME S = {} PROVE FALSE
    OBVIOUS
  <2> HIDE DEF c, a
  <2>1. a + 1 .. a + c + 1 \subseteq at.buf
    <3>1. ASSUME NEW i \in a + 1 .. a + c + 1 PROVE i \in at.buf
      <4>1. i - 1 \in a .. a + c /\ (i - 1) + 1 = i
        BY <3>1, <1>1
      <4> QED BY <4>1
    <3> QED BY <3>1
  <2>2. Cardinality(a + 1 .. a + c + 1) <= c
    BY <2>1, <1>1, FS_Subset DEF c
  <2>3. Cardinality(a + 1 .. a + c + 1) = c + 1
    BY <1>1, FS_Interval
  <2> QED BY <1>1, <2>2, <2>3
<1>3. S \subseteq Nat
  BY <1>1
<1>4. PICK n \in S : \A y \in S : n <= y
  <2> HIDE DEF S
  <2> QED BY <1>2, <1>3, LeastOf
<1>5. n \in a .. a + c /\ n + 1 \notin at.buf
  BY <1>4
<1>6. \A i \in a + 1 .. n : i \in at.buf
  <2>1. ASSUME NEW i \in a + 1 .. n PROVE i \in at.buf
    <3>1. i - 1 \in a .. a + c /\ i - 1 < n /\ (i - 1) + 1 = i
      BY <2>1, <1>1, <1>5
    <3>2. i - 1 \notin S
      BY <3>1, <1>4, <1>3
    <3> QED BY <3>1, <3>2
  <2> QED BY <2>1
<1>7. To \in a .. a + c /\ Goal(To)
  <2>1. \E k \in at.last .. at.last + Cardinality(at.buf) :
            /\ \A i \in at.last + 1 .. k : i \in at.buf
            /\ k + 1 \notin at.buf
    BY <1>5, <1>6
  <2> QED BY <2>1
<1>8. Flush(at) = [at EXCEPT !.last = To]
  BY DEF Flush
<1> HIDE DEF To, c
<1>9. To \in Nat /\ To >= at.last
  BY <1>7, <1>1
<1> QED BY <1>7, <1>8, <1>9

\* A run of pieces is a text, and it can be joined to one that ends before it.
LEMMA RunIsText ==
  ASSUME NEW a \in Nat, NEW m \in Nat
  PROVE  /\ [i \in 1 .. m |-> a + i] \in Seq(Nat)
         /\ Len([i \in 1 .. m |-> a + i]) = m
<1> DEFINE r == [i \in 1 .. m |-> a + i]
<1>1. r \in [1 .. m -> Nat]
  OBVIOUS
<1>2. r \in Seq(Nat)
  <2>1. [1 .. m -> Nat] \in {[1 .. n -> Nat] : n \in Nat}
    OBVIOUS
  <2> HIDE DEF r
  <2> QED BY <1>1, <2>1, SeqDef
<1>3. DOMAIN r = 1 .. m
  OBVIOUS
<1> HIDE DEF r
<1>4. 1 .. Len(r) = 1 .. m /\ Len(r) \in Nat
  BY <1>2, <1>3, LenProperties
<1>5. Len(r) = m
  BY <1>4
<1> QED BY <1>2, <1>5 DEF r

LEMMA JoinRun ==
  ASSUME NEW text \in Seq(Nat), NEW taken \in Nat, Run(text, taken), NEW r \in Seq(Nat),
         \A i \in 1 .. Len(r) : r[i] = (taken + Len(text)) + i
  PROVE  /\ text \o r \in Seq(Nat) /\ Len(text \o r) = Len(text) + Len(r)
         /\ Run(text \o r, taken)
<1> DEFINE u == text \o r
<1>1. /\ u \in Seq(Nat) /\ Len(u) = Len(text) + Len(r) /\ Len(text) \in Nat /\ Len(r) \in Nat
      /\ \A i \in 1 .. Len(u) : u[i] = IF i <= Len(text) THEN text[i] ELSE r[i - Len(text)]
  BY ConcatProperties, LenProperties
<1> HIDE DEF u
<1>2. ASSUME NEW i \in 1 .. Len(u) PROVE u[i] = taken + i
  <2>1. CASE i <= Len(text)
    <3>1. i \in 1 .. Len(text) /\ u[i] = text[i]
      BY <1>1, <2>1
    <3> QED BY <3>1 DEF Run
  <2>2. CASE ~(i <= Len(text))
    <3>1. i - Len(text) \in 1 .. Len(r) /\ u[i] = r[i - Len(text)]
      BY <1>1, <2>2
    <3>2. r[i - Len(text)] = (taken + Len(text)) + (i - Len(text))
      BY <3>1
    <3> QED BY <3>1, <3>2, <1>1
  <2> QED BY <2>1, <2>2
<1> QED BY <1>1, <1>2 DEF Run, u

-------------------------------------------------------------------------------
\* What hearing a piece, or the end, of a turn does to a tab: the text goes on
\* with the pieces that are now there without a gap, or the turn ends; and what
\* becomes of it when the event is the next one of its turn.
HearsOf(t, u, e) ==
    LET old == t.at[e.turn]
        end == u.at[e.turn] = Unread /\ u.text = <<>> /\ u.shown = t.shown \cup e.full /\ u.seen = t.seen \cup e.full
    IN /\ u.open = t.open /\ u.queue = t.queue /\ u.fetch = t.fetch /\ u.joined = t.joined /\ u.missed = t.missed
       /\ \A o \in TurnIds \ {e.turn} : u.at[o] = t.at[o]
       /\ \/ end
          \/ /\ u.shown = t.shown /\ u.seen = t.seen
             /\ \E more \in Seq(Nat) :
                   /\ u.at[e.turn].last = old.last + Len(more)
                   /\ \A i \in 1 .. Len(more) : more[i] = old.last + i
                   /\ \/ more = <<>> /\ u.text = t.text /\ u.taken = t.taken
                      \/ old.last = 0 /\ u.text = more /\ u.taken = 0
                      \/ old.last # 0 /\ u.text = t.text \o more /\ u.taken = t.taken
       /\ old.buf = {} /\ old.done = 0 /\ e.seq = old.last + 1 =>
             IF e.type = "done" THEN end
             ELSE u.at[e.turn].buf = {} /\ u.at[e.turn].done = 0 /\ u.at[e.turn].last = old.last + 1

LEMMA PieceIsHeard ==
  ASSUME NEW t \in TabRow, NEW e \in Event, IsText(e), e.seq > t.at[e.turn].last
  PROVE  HearPiece(t, e) \in TabRow /\ HearsOf(t, HearPiece(t, e), e)
<1> DEFINE old == t.at[e.turn]
           base == [old EXCEPT !.buf = {i \in @ : i > old.last} \cup {e.seq},
                               !.done = IF e.type = "done" THEN e.seq ELSE @]
           at == Flush(base)
           end == at.done > 0 /\ at.last >= at.done
           text == [i \in 1 .. at.last - old.last |-> IF old.last + i \in at.buf THEN old.last + i ELSE 0]
           new == IF end THEN Unread ELSE [at EXCEPT !.buf = {i \in @ : i > at.last}]
           body == IF end THEN <<>> ELSE IF old.last = 0 /\ text # <<>> THEN text ELSE t.text \o text
           taken == IF old.last = 0 /\ text # <<>> THEN 0 ELSE t.taken
           shown == IF end THEN t.shown \cup e.full ELSE t.shown
           seen == IF end THEN t.seen \cup e.full ELSE t.seen
<1>1. /\ e.turn \in TurnIds /\ e.seq \in Nat /\ e.full \subseteq Items /\ e.type \in {"piece", "done"}
      /\ old \in Heard /\ old.last \in Nat /\ old.done \in Nat
      /\ old.buf \subseteq Nat /\ IsFiniteSet(old.buf)
      /\ t.text \in Seq(Nat) /\ t.taken \in Nat /\ t.shown \subseteq Items /\ t.seen \subseteq Items
  BY DEF Event, EventRow, Shaped, IsText, TabRow, Heard, Pieces
<1>2. ~(e.seq <= old.last)
  BY <1>1
<1>3. base \in Heard /\ base.last = old.last /\ base.buf = {i \in old.buf : i > old.last} \cup {e.seq}
      /\ base.done = IF e.type = "done" THEN e.seq ELSE old.done
  <2>1. {i \in old.buf : i > old.last} \cup {e.seq} \in Pieces
    <3>1. IsFiniteSet({i \in old.buf : i > old.last})
      BY <1>1, FS_Subset
    <3>2. IsFiniteSet({i \in old.buf : i > old.last} \cup {e.seq})
      BY <3>1, FS_AddElement
    <3> QED BY <3>2, <1>1 DEF Pieces
  <2> HIDE DEF old
  <2> QED BY <1>1, <2>1 DEF Heard
<1>4. PICK k \in Nat : /\ k >= base.last
                       /\ \A i \in base.last + 1 .. k : i \in base.buf
                       /\ k + 1 \notin base.buf
                       /\ at = [base EXCEPT !.last = k]
  <2> HIDE DEF base
  <2> QED BY <1>3, FlushGoesOn
<1>5. /\ at \in Heard /\ at.last = k /\ at.buf = base.buf /\ at.done = base.done
  <2> HIDE DEF base, at
  <2> QED BY <1>3, <1>4 DEF Heard
<1> HIDE DEF base, at
<1>6. text = [i \in 1 .. k - old.last |-> old.last + i] /\ k - old.last \in Nat
  <2>1. k - old.last \in Nat
    BY <1>1, <1>3, <1>4
  <2>2. \A i \in 1 .. k - old.last : old.last + i \in at.buf
    <3>1. ASSUME NEW i \in 1 .. k - old.last PROVE old.last + i \in at.buf
      <4>1. old.last + i \in base.last + 1 .. k
        BY <3>1, <1>1, <1>3
      <4> QED BY <4>1, <1>4, <1>5
    <3> QED BY <3>1
  <2>3. at.last - old.last = k - old.last
    BY <1>5
  <2> HIDE DEF old
  <2> QED BY <2>1, <2>2, <2>3
<1>7. text \in Seq(Nat) /\ Len(text) = k - old.last /\ \A i \in 1 .. Len(text) : text[i] = old.last + i
  <2> HIDE DEF text, old
  <2>1. text \in Seq(Nat) /\ Len(text) = k - old.last
    BY <1>1, <1>6, RunIsText
  <2> QED BY <1>6, <2>1
<1>8. new \in Heard
  <2>1. Unread \in Heard
    <3>1. {} \in Pieces
      BY FS_EmptySet DEF Pieces
    <3> QED BY <3>1 DEF Unread, Heard
  <2>2. {i \in at.buf : i > at.last} \in Pieces
    BY <1>5, FS_Subset DEF Heard, Pieces
  <2> HIDE DEF end
  <2> QED BY <1>5, <2>1, <2>2 DEF Heard
<1> HIDE DEF text
<1>9. body \in Seq(Nat) /\ taken \in Nat
  <2>1. <<>> \in Seq(Nat)
    BY EmptySeq
  <2>2. t.text \o text \in Seq(Nat)
    BY <1>1, <1>7, ConcatProperties
  <2> HIDE DEF end
  <2> QED BY <2>1, <2>2, <1>1, <1>7
<1>10. shown \subseteq Items /\ seen \subseteq Items
  BY <1>1
<1> DEFINE u == [t EXCEPT !.at[e.turn] = new, !.text = body, !.taken = taken,
                     !.shown = shown, !.seen = seen]
<1>11. HearPiece(t, e) = u
  BY <1>2 DEF HearPiece, text, at, base
<1> HIDE DEF new, body, taken, shown, seen
<1>12. u \in TabRow
  BY <1>1, <1>8, <1>9, <1>10 DEF TabRow
<1>13. /\ u.open = t.open /\ u.queue = t.queue /\ u.fetch = t.fetch /\ u.joined = t.joined /\ u.missed = t.missed
       /\ \A o \in TurnIds \ {e.turn} : u.at[o] = t.at[o]
       /\ u.at[e.turn] = new /\ u.text = body /\ u.taken = taken /\ u.shown = shown /\ u.seen = seen
  BY <1>1, <1>12 DEF TabRow
<1> HIDE DEF u
<1>14. CASE end
  <2>1. u.at[e.turn] = Unread /\ u.text = <<>> /\ u.shown = t.shown \cup e.full /\ u.seen = t.seen \cup e.full
    BY <1>13, <1>14 DEF new, body, shown, seen
  <2>2. ~(old.buf = {} /\ old.done = 0 /\ e.type # "done")
    BY <1>14, <1>1, <1>3, <1>5
  <2> QED BY <2>1, <2>2, <1>11, <1>12, <1>13, <1>1 DEF HearsOf
<1>15. CASE ~end
  <2>1. u.shown = t.shown /\ u.seen = t.seen
        /\ u.text = (IF old.last = 0 /\ text # <<>> THEN text ELSE t.text \o text)
        /\ u.taken = (IF old.last = 0 /\ text # <<>> THEN 0 ELSE t.taken)
    BY <1>13, <1>15 DEF new, body, taken, shown, seen
  <2>2. u.at[e.turn].last = k /\ u.at[e.turn].buf = {i \in at.buf : i > at.last} /\ u.at[e.turn].done = at.done
    <3>1. u.at[e.turn] = [at EXCEPT !.buf = {i \in @ : i > at.last}]
      BY <1>13, <1>15 DEF new
    <3> QED BY <3>1, <1>5 DEF Heard
  <2>3. u.at[e.turn].last = old.last + Len(text)
    BY <2>2, <1>1, <1>7
  <2>4. ASSUME old.buf = {}, old.done = 0, e.seq = old.last + 1
        PROVE  /\ e.type = "piece" /\ u.at[e.turn].buf = {} /\ u.at[e.turn].done = 0
               /\ u.at[e.turn].last = old.last + 1
    <3>1. at.buf = {e.seq}
      BY <2>4, <1>3, <1>5
    <3>2. k = old.last + 1
      <4>1. k # old.last
        BY <3>1, <2>4, <1>3, <1>4, <1>5
      <4>2. old.last + 2 <= k => old.last + 2 \in at.buf
        <5>1. old.last + 2 <= k => old.last + 2 \in base.last + 1 .. k
          BY <1>1, <1>3
        <5> QED BY <5>1, <1>4, <1>5
      <4>3. old.last + 2 # e.seq
        BY <2>4, <1>1
      <4> QED BY <4>1, <4>2, <4>3, <3>1, <1>1, <1>3, <1>4
    <3>3. e.type = "piece"
      BY <2>4, <3>2, <1>15, <1>1, <1>3, <1>5
    <3> QED BY <2>2, <2>4, <3>1, <3>2, <3>3, <1>1, <1>3, <1>5
  <2>5. \E more \in Seq(Nat) :
                   /\ u.at[e.turn].last = old.last + Len(more)
                   /\ \A i \in 1 .. Len(more) : more[i] = old.last + i
                   /\ \/ more = <<>> /\ u.text = t.text /\ u.taken = t.taken
                      \/ old.last = 0 /\ u.text = more /\ u.taken = 0
                      \/ old.last # 0 /\ u.text = t.text \o more /\ u.taken = t.taken
    <3>1. text = <<>> => t.text \o text = t.text
      BY <1>1, ConcatEmptySeq
    <3> HIDE DEF old
    <3> QED BY <2>1, <2>3, <3>1, <1>7
  <2> HIDE DEF end
  <2> QED BY <2>1, <2>4, <2>5, <1>11, <1>12, <1>13, <1>1 DEF HearsOf
<1> QED BY <1>14, <1>15

-------------------------------------------------------------------------------
\* What the agents do keeps a tab that is told nothing of it: a turn begins or
\* goes on, and what is stored will be published.
LEMMA TabTurn ==
  ASSUME NEW t \in TabRow, NEW m \in TurnRow, NEW m2 \in TurnRow, NEW stored, NEW stored2,
         NEW waiting, NEW waiting2,
         TabInv(t, m, stored, waiting), stored \subseteq stored2, m.no <= m2.no,
         \A n \in TurnIds : ToPublish(m2, n) =>
            (ToPublish(m, n) /\ m2.seq = m.seq) \/ (n > m.no /\ m2.seq = 0),
         \A i \in stored2 : i \in stored \/ i \in waiting2 \/ Untold(m2, i),
         \A i \in stored : i \in waiting => i \in waiting2,
         \A i \in stored : Untold(m, i) => Untold(m2, i)
  PROVE  TabInv(t, m2, stored2, waiting2)
<1>1. /\ m.no \in Nat /\ m2.no \in Nat /\ TurnIds \subseteq Nat
      /\ t.queue \in Seq(Event) /\ \A n \in TurnIds : t.at[n] \in Heard /\ t.at[n].last \in Nat
  BY StreamAssumption DEF TurnRow, TabRow, Heard, TurnIds
<1>2. Len(t.queue) \in Nat /\ \A k \in 1 .. Len(t.queue) : t.queue[k].turn \in Nat
  BY <1>1, QueueTyped
<1>3. ShowsStored(t, stored2)
  BY DEF TabInv, ShowsStored
<1>4. InOrder(t, m2)
  <2>1. InOrder(t, m)
    BY DEF TabInv
  <2>2. \A x \in Nat : x <= m.no => x <= m2.no
    BY <1>1
  <2> QED BY <2>1, <2>2, <1>1, <1>2 DEF InOrder
<1>5. TextFits(t, m2)
  <2>1. TextFits(t, m)
    BY DEF TabInv
  <2>2. \A n \in TurnIds : Past(t, m, n) => Past(t, m2, n)
    BY <1>1 DEF Past
  <2> QED BY <2>1, <2>2 DEF TextFits
<1>6. KeepsUp(t, m2, stored2, waiting2)
  <2> SUFFICES ASSUME t.open, ~t.missed
               PROVE  /\ \A n \in TurnIds \ {t.joined} : NoGap(t.queue, t.at[n], m2, n)
                      /\ \A i \in stored2 : Coming(t, m2, waiting2, i)
    BY DEF KeepsUp
  <2>1. /\ \A n \in TurnIds \ {t.joined} : NoGap(t.queue, t.at[n], m, n)
        /\ \A i \in stored : Coming(t, m, waiting, i)
        /\ InOrder(t, m)
    BY DEF KeepsUp, TabInv
  <2>2. ASSUME NEW n \in TurnIds \ {t.joined} PROVE NoGap(t.queue, t.at[n], m2, n)
    <3>1. NoGap(t.queue, t.at[n], m, n)
      BY <2>1
    <3>2. CASE n > m.no
      <4>1. t.at[n].last = 0
        BY <2>1, <3>2, <1>1 DEF InOrder
      <4>2. \A k \in 1 .. Len(t.queue) : ~OfTurn(t.queue[k], n)
        BY <2>1, <3>2, <1>1, <1>2 DEF InOrder, OfTurn
      <4>3. ToPublish(m2, n) => m2.seq = 0
        BY <3>2, <1>1 DEF ToPublish
      <4>4. t.at[n].buf = {} /\ t.at[n].done = 0
        BY <3>1 DEF NoGap
      <4> QED BY <4>1, <4>2, <4>3, <4>4, <1>1, NoGapNew
    <3>3. CASE ~(n > m.no)
      <4>1. ToPublish(m2, n) => ToPublish(m, n) /\ m2.seq = m.seq
        BY <3>3
      <4> QED BY <4>1, <3>1, <1>1, NoGapTurn
    <3> QED BY <3>2, <3>3
  <2>3. \A i \in stored2 : Coming(t, m2, waiting2, i)
    BY <2>1 DEF Coming
  <2> QED BY <2>2, <2>3
<1> QED BY <1>3, <1>4, <1>5, <1>6 DEF TabInv

\* A tab that is told an event, or misses it because its queue is full.
Sent(t, e) == IF ~t.open THEN t
              ELSE IF Len(t.queue) < QueueMax THEN [t EXCEPT !.queue = Append(@, e)]
              ELSE [t EXCEPT !.missed = TRUE]

LEMMA TabSent ==
  ASSUME NEW t \in TabRow, NEW e \in Event, NEW m \in TurnRow, NEW m2 \in TurnRow, NEW stored,
         NEW waiting, NEW waiting2,
         TabInv(t, m, stored, waiting), e.full \subseteq stored, m2.no = m.no,
         IsText(e) => e.turn = m.no /\ e.seq = m.seq + 1 /\ ToPublish(m, m.no),
         \A n \in TurnIds : ToPublish(m2, n) =>
            /\ ToPublish(m, n)
            /\ m2.seq = IF OfTurn(e, n) THEN m.seq + 1 ELSE m.seq
            /\ OfTurn(e, n) => e.type = "piece",
         \A i \in stored : i \in waiting => i \in waiting2 \/ i \in e.full,
         \A i \in stored : Untold(m, i) => Untold(m2, i) \/ i \in e.full \/ e.type = "failed"
  PROVE  Sent(t, e) \in TabRow /\ TabInv(Sent(t, e), m2, stored, waiting2)
<1>1. /\ m.no \in Nat /\ TurnIds \subseteq Nat /\ t.open \in BOOLEAN
      /\ t.queue \in Seq(Event) /\ \A n \in TurnIds : t.at[n] \in Heard /\ t.at[n].last \in Nat
  BY StreamAssumption DEF TurnRow, TabRow, Heard, TurnIds
<1>2. /\ Len(t.queue) \in Nat /\ \A k \in 1 .. Len(t.queue) : t.queue[k].turn \in Nat
      /\ e.turn \in Nat
  BY <1>1, QueueTyped, StreamAssumption DEF Event, EventRow
<1> HIDE DEF Event
<1>3. Append(t.queue, e) \in Seq(Event)
  BY <1>1, QueueGrows
<1>4. PICK u \in TabRow : u = Sent(t, e)
  <2>1. [t EXCEPT !.queue = Append(@, e)] \in TabRow
    BY <1>3 DEF TabRow
  <2>2. [t EXCEPT !.missed = TRUE] \in TabRow
    BY DEF TabRow
  <2> QED BY <2>1, <2>2 DEF Sent
<1>5. /\ u.open = t.open /\ u.at = t.at /\ u.text = t.text /\ u.taken = t.taken /\ u.shown = t.shown /\ u.fetch = t.fetch
      /\ u.seen = t.seen /\ u.joined = t.joined
  BY <1>4 DEF Sent, TabRow
<1>6. \/ t.open /\ u.queue = Append(t.queue, e) /\ u.missed = t.missed
      \/ u.queue = t.queue /\ (u.missed \/ ~u.open)
  BY <1>4, <1>1 DEF Sent, TabRow
<1>7. \/ u.queue = t.queue
      \/ /\ Len(u.queue) = Len(t.queue) + 1 /\ u.queue[Len(t.queue) + 1] = e
         /\ \A k \in 1 .. Len(t.queue) : u.queue[k] = t.queue[k]
  BY <1>1, <1>6, QueueGrows
<1>8. \A k \in 1 .. Len(u.queue) : \/ k \in 1 .. Len(t.queue) /\ u.queue[k] = t.queue[k]
                                   \/ k = Len(t.queue) + 1 /\ u.queue[k] = e
  BY <1>2, <1>7
<1>9. ShowsStored(u, stored)
  <2>1. ShowsStored(t, stored)
    BY DEF TabInv
  <2>2. ~u.open => u.queue = <<>>
    BY <2>1, <1>5, <1>6 DEF ShowsStored
  <2>3. \A k \in 1 .. Len(u.queue) : u.queue[k].full \subseteq stored
    BY <2>1, <1>8 DEF ShowsStored
  <2> QED BY <2>1, <2>2, <2>3, <1>5 DEF ShowsStored
<1>10. InOrder(u, m2)
  <2>1. InOrder(t, m)
    BY DEF TabInv
  <2>2. \A k \in 1 .. Len(u.queue) : IsText(u.queue[k]) => u.queue[k].turn <= m.no
    BY <2>1, <1>1, <1>2, <1>8 DEF InOrder
  <2>3. \A j, k \in 1 .. Len(u.queue) :
          j < k /\ IsText(u.queue[j]) /\ IsText(u.queue[k]) => u.queue[j].turn <= u.queue[k].turn
    <3>1. ASSUME NEW j \in 1 .. Len(u.queue), NEW k \in 1 .. Len(u.queue), j < k,
                 IsText(u.queue[j]), IsText(u.queue[k])
          PROVE  u.queue[j].turn <= u.queue[k].turn
      <4>1. j \in 1 .. Len(t.queue) /\ u.queue[j] = t.queue[j]
        BY <3>1, <1>2, <1>8
      <4>2. CASE k \in 1 .. Len(t.queue) /\ u.queue[k] = t.queue[k]
        BY <3>1, <4>1, <4>2, <2>1 DEF InOrder
      <4>3. CASE u.queue[k] = e
        BY <3>1, <4>1, <4>3, <2>1 DEF InOrder
      <4> QED BY <4>2, <4>3, <1>8
    <3> QED BY <3>1
  <2>4. ASSUME NEW n \in TurnIds, u.at[n].last > 0
        PROVE  n <= m.no /\ \A k \in 1 .. Len(u.queue) : IsText(u.queue[k]) => n <= u.queue[k].turn
    <3>1. n <= m.no /\ \A k \in 1 .. Len(t.queue) : IsText(t.queue[k]) => n <= t.queue[k].turn
      BY <2>1, <2>4, <1>5 DEF InOrder
    <3> QED BY <3>1, <1>8
  <2> QED BY <2>2, <2>3, <2>4 DEF InOrder
<1>11. TextFits(u, m2)
  <2>1. TextFits(t, m)
    BY DEF TabInv
  <2>2. \A n \in TurnIds : Past(t, m, n) => Past(u, m2, n)
    <3>1. ASSUME NEW n \in TurnIds, Past(t, m, n) PROVE Past(u, m2, n)
      <4>1. ~OfTurn(e, n)
        BY <3>1, <1>1 DEF Past, OfTurn
      <4> QED BY <3>1, <4>1, <1>8 DEF Past
    <3> QED BY <3>1
  <2> QED BY <2>1, <2>2, <1>5 DEF TextFits
<1>12. KeepsUp(u, m2, stored, waiting2)
  <2> SUFFICES ASSUME u.open, ~u.missed
               PROVE  /\ \A n \in TurnIds \ {u.joined} : NoGap(u.queue, u.at[n], m2, n)
                      /\ \A i \in stored : Coming(u, m2, waiting2, i)
    BY DEF KeepsUp
  <2>1. /\ \A n \in TurnIds \ {t.joined} : NoGap(t.queue, t.at[n], m, n)
        /\ \A i \in stored : Coming(t, m, waiting, i)
    BY <1>5, <1>6 DEF KeepsUp, TabInv
  <2>2. u.queue = Append(t.queue, e)
    BY <1>6
  <2>3. ASSUME NEW n \in TurnIds \ {u.joined} PROVE NoGap(u.queue, u.at[n], m2, n)
    <3>1. NoGap(t.queue, t.at[n], m, n)
      BY <2>1, <1>5
    <3>2. OfTurn(e, n) => ToPublish(m, n) /\ e.seq = m.seq + 1
      BY DEF OfTurn
    <3>3. NoGap(Append(t.queue, e), t.at[n], m2, n)
      BY <3>1, <3>2, <1>1, NoGapSent
    <3> QED BY <3>3, <2>2, <1>5
  <2>4. ASSUME NEW i \in stored PROVE Coming(u, m2, waiting2, i)
    <3>1. \A k \in 1 .. Len(t.queue) : k \in 1 .. Len(u.queue) /\ u.queue[k] = t.queue[k]
      BY <2>2, <1>1, <1>2, QueueGrows
    <3>2. Len(t.queue) + 1 \in 1 .. Len(u.queue) /\ u.queue[Len(t.queue) + 1] = e
      BY <2>2, <1>1, <1>2, QueueGrows
    <3>3. Coming(t, m, waiting, i)
      BY <2>1
    <3>4. CASE \E k \in 1 .. Len(t.queue) : i \in t.queue[k].full \/ t.queue[k].type = "failed"
      BY <3>1, <3>4 DEF Coming
    <3>5. CASE i \in e.full \/ e.type = "failed"
      BY <3>2, <3>5 DEF Coming
    <3> QED BY <3>3, <3>4, <3>5, <1>5 DEF Coming
  <2> QED BY <2>3, <2>4
<1> QED BY <1>4, <1>9, <1>10, <1>11, <1>12 DEF TabInv

-------------------------------------------------------------------------------
\* A tab that connects or is cut off.
LEMMA TabOpens ==
  ASSUME NEW t \in TabRow, NEW u \in TabRow, NEW m \in TurnRow, NEW stored, NEW waiting,
         TabInv(t, m, stored, waiting), t.fetch = NoFetch,
         u.queue = <<>>, u.at = [n \in TurnIds |-> Unread], u.text = t.text, u.taken = t.taken, u.shown = t.shown,
         u.fetch = [NoFetch EXCEPT !.step = "asked"],
         u.joined = IF m.seq > 0 THEN m.no ELSE 0
  PROVE  TabInv(u, m, stored, waiting)
<1>1. u.fetch.step = "asked" /\ u.fetch.items = {}
  BY DEF NoFetch
<1>2. \A n \in TurnIds : u.at[n] \in Heard /\ u.at[n].last = 0 /\ u.at[n].buf = {} /\ u.at[n].done = 0
  <2>1. ASSUME NEW n \in TurnIds
        PROVE  u.at[n] \in Heard /\ u.at[n].last = 0 /\ u.at[n].buf = {} /\ u.at[n].done = 0
    <3>1. u.at[n] \in Heard
      BY DEF TabRow
    <3>2. u.at[n] = Unread
      OBVIOUS
    <3>3. Unread.last = 0 /\ Unread.buf = {} /\ Unread.done = 0
      BY DEF Unread
    <3> QED BY <3>1, <3>2, <3>3
  <2> QED BY <2>1
<1>3. Len(u.queue) = 0 /\ \A k \in 1 .. Len(u.queue) : FALSE
  OBVIOUS
<1>4. ShowsStored(u, stored)
  BY <1>1, <1>3 DEF TabInv, ShowsStored
<1>5. InOrder(u, m)
  BY <1>2, <1>3 DEF InOrder
<1>6. TextFits(u, m)
  BY <1>2 DEF TabInv, TextFits
<1>7. \A n \in TurnIds \ {u.joined} : NoGap(u.queue, u.at[n], m, n)
  <2>1. ASSUME NEW n \in TurnIds \ {u.joined} PROVE NoGap(u.queue, u.at[n], m, n)
    <3>1. ToPublish(m, n) => m.seq = 0
      BY DEF ToPublish, TurnRow
    <3>2. u.queue \in Seq(Event)
      BY DEF TabRow
    <3> QED BY <3>1, <3>2, <1>2, <1>3, NoGapNew
  <2> QED BY <2>1
<1>8. \A i \in stored : Coming(u, m, waiting, i)
  BY <1>1 DEF Coming
<1> QED BY <1>4, <1>5, <1>6, <1>7, <1>8 DEF TabInv, KeepsUp

LEMMA TabCut ==
  ASSUME NEW t \in TabRow, NEW m \in TurnRow, NEW m2 \in TurnRow, NEW stored, NEW waiting, NEW waiting2,
         TabInv(t, m, stored, waiting), m2.no = m.no
  PROVE  Cut(t) \in TabRow /\ TabInv(Cut(t), m2, stored, waiting2)
<1>1. PICK u \in TabRow : u = Cut(t)
  <2>1. <<>> \in Seq(Event)
    BY EmptySeq
  <2> HIDE DEF Event
  <2> QED BY <2>1 DEF Cut, TabRow
<1>2. ~u.open /\ u.queue = <<>> /\ u.at = t.at /\ u.text = t.text /\ u.taken = t.taken /\ u.shown = t.shown /\ u.fetch = t.fetch
  BY <1>1 DEF Cut, TabRow
<1>3. \A k \in 1 .. Len(u.queue) : FALSE
  BY <1>2
<1>4. ShowsStored(u, stored)
  BY <1>2, <1>3 DEF TabInv, ShowsStored
<1>5. InOrder(u, m2)
  BY <1>2, <1>3 DEF TabInv, InOrder
<1>6. TextFits(u, m2)
  BY <1>2, <1>3 DEF TabInv, TextFits, Past
<1>7. KeepsUp(u, m2, stored, waiting2)
  BY <1>2 DEF KeepsUp
<1> QED BY <1>1, <1>4, <1>5, <1>6, <1>7 DEF TabInv

\* What a tab asks for, is answered and puts on the screen does not touch its
\* queue or its pieces.
LEMMA TabFetches ==
  ASSUME NEW t \in TabRow, NEW u \in TabRow, NEW m \in TurnRow, NEW stored, NEW waiting,
         TabInv(t, m, stored, waiting), stored \subseteq Items,
         u.open = t.open, u.queue = t.queue, u.at = t.at, u.joined = t.joined,
         \/ /\ t.fetch.step = "asked" /\ u.fetch.step = "messages"
            /\ u.fetch.items = stored \cap Answers
            /\ u.text = t.text /\ u.taken = t.taken /\ u.shown = t.shown /\ u.seen = t.seen /\ u.missed = t.missed
         \/ /\ t.fetch.step = "messages" /\ u.fetch.step = "read"
            /\ u.fetch.items = t.fetch.items \cup (stored \cap CanvasCards)
            /\ u.text = t.text /\ u.taken = t.taken /\ u.shown = t.shown /\ u.seen = t.seen /\ u.missed = t.missed
         \/ /\ t.fetch.step = "read" /\ u.fetch = NoFetch /\ u.shown = t.fetch.items
            /\ u.seen = t.seen \cup t.fetch.items /\ u.missed = t.missed
            /\ u.text = <<>> /\ u.taken = t.taken + Len(t.text)
         \/ u.fetch = NoFetch /\ u.missed /\ u.text = t.text /\ u.taken = t.taken /\ u.shown = t.shown
  PROVE  TabInv(u, m, stored, waiting)
<1>1. NoFetch.step = "none" /\ NoFetch.items = {}
  BY DEF NoFetch
<1>2. ShowsStored(u, stored)
  <2>1. ShowsStored(t, stored)
    BY DEF TabInv
  <2>2. u.shown \subseteq stored
    BY <2>1 DEF ShowsStored
  <2>3. u.fetch.items \subseteq stored
    BY <2>1, <1>1 DEF ShowsStored
  <2>4. u.fetch.step \in {"none", "asked"} => u.fetch.items = {}
    BY <1>1
  <2> QED BY <2>1, <2>2, <2>3, <2>4 DEF ShowsStored
<1>3. InOrder(u, m)
  BY DEF TabInv, InOrder
<1>4. TextFits(u, m)
  <2>1. TextFits(t, m)
    BY DEF TabInv
  <2>2. CASE u.text = t.text /\ u.taken = t.taken
    BY <2>1, <2>2 DEF TextFits, Past
  <2>3. CASE u.text = <<>> /\ u.taken = t.taken + Len(t.text)
    <3>1. t.taken \in Nat /\ Len(t.text) \in Nat
      BY LenProperties DEF TabRow
    <3>2. Len(u.text) = 0 /\ u.taken + 0 = t.taken + Len(t.text)
      BY <2>3, <3>1
    <3>3. Run(u.text, u.taken)
      BY <3>2 DEF Run
    <3>4. \A n \in TurnIds : Past(t, m, n) => Past(u, m, n)
      BY DEF Past
    <3> QED BY <2>1, <3>2, <3>3, <3>4 DEF TextFits
  <2> QED BY <2>2, <2>3
<1>5. KeepsUp(u, m, stored, waiting)
  <2> SUFFICES ASSUME u.open, ~u.missed
               PROVE  /\ \A n \in TurnIds \ {u.joined} : NoGap(u.queue, u.at[n], m, n)
                      /\ \A i \in stored : Coming(u, m, waiting, i)
    BY DEF KeepsUp
  <2>1. /\ \A n \in TurnIds \ {t.joined} : NoGap(t.queue, t.at[n], m, n)
        /\ \A i \in stored : Coming(t, m, waiting, i)
    BY DEF KeepsUp, TabInv
  <2>2. \A n \in TurnIds \ {u.joined} : NoGap(u.queue, u.at[n], m, n)
    BY <2>1
  <2>3. ASSUME NEW i \in stored PROVE Coming(u, m, waiting, i)
    <3>1. Coming(t, m, waiting, i) /\ i \in Answers \cup CanvasCards
      BY <2>1 DEF Items
    <3>2. CASE t.fetch.step = "asked"
      BY <3>1, <3>2 DEF Coming
    <3>3. CASE t.fetch.step = "messages"
      BY <3>1, <3>3 DEF Coming
    <3>4. CASE t.fetch.step = "read"
      BY <3>1, <3>4 DEF Coming
    <3> QED BY <3>2, <3>3, <3>4
  <2> QED BY <2>2, <2>3
<1> QED BY <1>2, <1>3, <1>4, <1>5 DEF TabInv

-------------------------------------------------------------------------------
\* What a tab makes of the first event of its queue.
LEMMA EventIsHeard ==
  ASSUME NEW t \in TabRow, NEW e \in Event, e.type = "failed" => t.fetch = NoFetch
  PROVE  /\ Hear(t, e) \in TabRow
         /\ LET h == Hear(t, e)
            IN /\ h.open = t.open /\ h.queue = t.queue /\ h.joined = t.joined /\ h.missed = t.missed
               /\ t.shown \subseteq h.shown /\ h.shown \subseteq t.shown \cup e.full
               /\ t.seen \subseteq h.seen
               /\ e.type = "card" => e.full \subseteq h.seen
               /\ IF e.type = "failed" THEN h.fetch = [NoFetch EXCEPT !.step = "asked"] ELSE h.fetch = t.fetch
               /\ IF IsText(e) /\ e.seq > t.at[e.turn].last THEN HearsOf(t, h, e)
                  ELSE h.at = t.at /\ h.text = t.text /\ h.taken = t.taken
<1> DEFINE h == Hear(t, e)
<1>1. e.type \in {"piece", "done", "card", "failed"} /\ e.full \subseteq Items
  BY DEF Event, EventRow
<1>2. CASE e.type = "card"
  <2>1. PICK u \in TabRow : u = [t EXCEPT !.shown = @ \cup e.full, !.seen = @ \cup e.full]
    BY <1>1 DEF TabRow
  <2>2. h = u
    BY <1>2, <2>1 DEF Hear
  <2>3. /\ u.open = t.open /\ u.queue = t.queue /\ u.joined = t.joined /\ u.missed = t.missed
        /\ u.fetch = t.fetch /\ u.at = t.at /\ u.text = t.text /\ u.taken = t.taken
        /\ u.shown = t.shown \cup e.full /\ u.seen = t.seen \cup e.full
    BY <2>1 DEF TabRow
  <2>4. ~IsText(e)
    BY <1>2 DEF IsText
  <2> HIDE DEF h
  <2> QED BY <1>2, <2>2, <2>3, <2>4 DEF h
<1>3. CASE e.type = "failed"
  <2>1. [NoFetch EXCEPT !.step = "asked"] \in Fetch
    BY DEF NoFetch, Fetch
  <2>2. PICK u \in TabRow : u = [t EXCEPT !.fetch = [NoFetch EXCEPT !.step = "asked"]]
    BY <2>1 DEF TabRow
  <2>3. h = u
    BY <1>3, <2>2 DEF Hear
  <2>4. /\ u.open = t.open /\ u.queue = t.queue /\ u.joined = t.joined /\ u.missed = t.missed
        /\ u.fetch = [NoFetch EXCEPT !.step = "asked"] /\ u.at = t.at /\ u.text = t.text /\ u.taken = t.taken
        /\ u.shown = t.shown /\ u.seen = t.seen
    BY <2>2 DEF TabRow
  <2>5. ~IsText(e)
    BY <1>3 DEF IsText
  <2> HIDE DEF h
  <2> QED BY <1>3, <2>3, <2>4, <2>5 DEF h
<1>4. CASE IsText(e)
  <2>1. h = HearPiece(t, e)
    BY <1>4 DEF Hear, IsText
  <2>2. e.turn \in TurnIds /\ e.seq \in Nat /\ t.at[e.turn].last \in Nat /\ e.type # "failed" /\ e.type # "card"
    BY <1>4 DEF IsText, Event, EventRow, Shaped, TabRow, Heard
  <2>3. CASE e.seq <= t.at[e.turn].last
    <3>1. h = t
      BY <2>1, <2>3 DEF HearPiece
    <3>2. ~(e.seq > t.at[e.turn].last)
      BY <2>2, <2>3
    <3> HIDE DEF h
    <3> QED BY <2>2, <3>1, <3>2 DEF h
  <2>4. CASE e.seq > t.at[e.turn].last
    <3>1. h \in TabRow /\ HearsOf(t, h, e)
      BY <1>4, <2>1, <2>4, PieceIsHeard
    <3> HIDE DEF h
    <3>2. h.open = t.open /\ h.queue = t.queue /\ h.joined = t.joined /\ h.missed = t.missed /\ h.fetch = t.fetch
      BY <3>1 DEF HearsOf
    <3>3. t.shown \subseteq h.shown /\ h.shown \subseteq t.shown \cup e.full /\ t.seen \subseteq h.seen
      BY <3>1 DEF HearsOf
    <3> QED BY <1>4, <2>2, <2>4, <3>1, <3>2, <3>3 DEF h
  <2> QED BY <2>2, <2>3, <2>4
<1> QED BY <1>1, <1>2, <1>3, <1>4 DEF IsText

LEMMA TabHears ==
  ASSUME NEW t \in TabRow, NEW m \in TurnRow, NEW stored, NEW waiting,
         TabInv(t, m, stored, waiting), t.queue # <<>>,
         Head(t.queue).type = "failed" => t.fetch = NoFetch
  PROVE  LET u == [Hear(t, Head(t.queue)) EXCEPT !.queue = Tail(@)]
         IN u \in TabRow /\ TabInv(u, m, stored, waiting)
<1> DEFINE q == t.queue
           e == Head(q)
           r == Tail(q)
<1>1. /\ q \in Seq(Event) /\ m.no \in Nat /\ TurnIds \subseteq Nat
      /\ \A n \in TurnIds : t.at[n] \in Heard /\ t.at[n].last \in Nat
      /\ t.text \in Seq(Nat)
  BY StreamAssumption DEF TabRow, TurnRow, TurnIds, Heard
<1>2. /\ r \in Seq(Event) /\ Len(q) \in Nat \ {0} /\ Len(r) = Len(q) - 1 /\ e \in Event /\ e = q[1]
      /\ \A k \in 1 .. Len(r) : r[k] = q[k + 1]
  BY <1>1, QueueShrinks
<1>3. \A k \in 1 .. Len(q) : q[k].turn \in Nat /\ q[k].seq \in Nat
  BY <1>1, QueueTyped
<1>4. PICK h \in TabRow : h = Hear(t, e)
  BY <1>2, EventIsHeard
<1>5. /\ h.open = t.open /\ h.queue = t.queue /\ h.joined = t.joined /\ h.missed = t.missed
      /\ t.shown \subseteq h.shown /\ h.shown \subseteq t.shown \cup e.full
      /\ t.seen \subseteq h.seen
      /\ e.type = "card" => e.full \subseteq h.seen
      /\ IF e.type = "failed" THEN h.fetch = [NoFetch EXCEPT !.step = "asked"] ELSE h.fetch = t.fetch
      /\ IF IsText(e) /\ e.seq > t.at[e.turn].last THEN HearsOf(t, h, e)
         ELSE h.at = t.at /\ h.text = t.text /\ h.taken = t.taken
  BY <1>2, <1>4, EventIsHeard
<1>6. /\ e.full \subseteq Items
      /\ IsText(e) => e.turn \in TurnIds /\ e.seq \in Nat
      /\ e.type = "done" => e.full \subseteq {<<e.turn>>}
      /\ e.type \in {"piece", "failed"} => e.full = {}
      /\ e.type \in {"piece", "done", "card", "failed"}
  BY <1>2 DEF Event, EventRow, Shaped, IsText
<1>7. PICK u \in TabRow : u = [h EXCEPT !.queue = Tail(@)]
  BY <1>2, <1>5 DEF TabRow
<1> HIDE DEF r, e, q
<1>8. /\ u.queue = r /\ u.open = t.open /\ u.joined = t.joined /\ u.missed = t.missed
      /\ u.at = h.at /\ u.text = h.text /\ u.taken = h.taken /\ u.shown = h.shown /\ u.seen = h.seen /\ u.fetch = h.fetch
  BY <1>5, <1>7 DEF TabRow, r, q
<1>9. \A k \in 1 .. Len(r) : r[k] = q[k + 1] /\ k + 1 \in 1 .. Len(q)
  BY <1>2
<1>10. \A k \in 1 .. Len(q) : k = 1 \/ (k - 1 \in 1 .. Len(r) /\ q[k] = r[k - 1])
  BY <1>2
<1>11. \A n \in TurnIds : ~OfTurn(e, n) => u.at[n] = t.at[n]
  BY <1>5, <1>6, <1>8 DEF HearsOf, OfTurn
<1>12. [NoFetch EXCEPT !.step = "asked"].step = "asked" /\ [NoFetch EXCEPT !.step = "asked"].items = {}
  BY DEF NoFetch
<1>13. ShowsStored(u, stored)
  <2>1. ShowsStored(t, stored)
    BY DEF TabInv
  <2>2. 1 \in 1 .. Len(q) /\ e.full \subseteq stored /\ u.open
    BY <2>1, <1>2, <1>8 DEF ShowsStored, q
  <2>3. u.shown \subseteq stored
    BY <2>1, <2>2, <1>5, <1>8 DEF ShowsStored
  <2>4. u.fetch.items \subseteq stored /\ (u.fetch.step \in {"none", "asked"} => u.fetch.items = {})
    BY <2>1, <1>5, <1>8, <1>12 DEF ShowsStored
  <2>5. \A k \in 1 .. Len(u.queue) : u.queue[k].full \subseteq stored
    BY <2>1, <1>8, <1>9 DEF ShowsStored, q
  <2> QED BY <2>2, <2>3, <2>4, <2>5 DEF ShowsStored
<1>14. InOrder(t, m)
  BY DEF TabInv
<1>15. \A k \in 1 .. Len(r) : IsText(r[k]) => r[k].turn <= m.no /\ (IsText(e) => e.turn <= r[k].turn)
  <2>1. ASSUME NEW k \in 1 .. Len(r), IsText(r[k])
        PROVE  r[k].turn <= m.no /\ (IsText(e) => e.turn <= r[k].turn)
    <3>1. r[k] = q[k + 1] /\ k + 1 \in 1 .. Len(q) /\ 1 < k + 1 /\ 1 \in 1 .. Len(q)
      BY <1>2, <1>9
    <3> QED BY <2>1, <3>1, <1>2, <1>14 DEF InOrder, q
  <2> QED BY <2>1
<1>16. IsText(e) => e.turn <= m.no
  <2>1. 1 \in 1 .. Len(q)
    BY <1>2
  <2> QED BY <2>1, <1>2, <1>14 DEF InOrder, q
<1>17. ASSUME NEW n \in TurnIds, t.at[n].last > 0
       PROVE  /\ n <= m.no /\ (IsText(e) => n <= e.turn)
              /\ \A k \in 1 .. Len(r) : IsText(r[k]) => n <= r[k].turn
  <2>1. 1 \in 1 .. Len(q)
    BY <1>2
  <2>2. n <= m.no /\ \A k \in 1 .. Len(q) : IsText(q[k]) => n <= q[k].turn
    BY <1>14, <1>17 DEF InOrder, q
  <2> QED BY <2>1, <2>2, <1>2, <1>9
<1>18. InOrder(u, m)
  <2>1. \A k \in 1 .. Len(u.queue) : IsText(u.queue[k]) => u.queue[k].turn <= m.no
    BY <1>8, <1>15
  <2>2. \A j, k \in 1 .. Len(u.queue) :
          j < k /\ IsText(u.queue[j]) /\ IsText(u.queue[k]) => u.queue[j].turn <= u.queue[k].turn
    <3>1. ASSUME NEW j \in 1 .. Len(r), NEW k \in 1 .. Len(r), j < k, IsText(r[j]), IsText(r[k])
          PROVE  r[j].turn <= r[k].turn
      <4>1. r[j] = q[j + 1] /\ r[k] = q[k + 1] /\ j + 1 < k + 1
        BY <3>1, <1>2, <1>9
      <4>2. j + 1 \in 1 .. Len(q) /\ k + 1 \in 1 .. Len(q)
        BY <1>9
      <4> QED BY <3>1, <4>1, <4>2, <1>14 DEF InOrder, q
    <3> QED BY <3>1, <1>8
  <2>3. ASSUME NEW n \in TurnIds, u.at[n].last > 0
        PROVE  n <= m.no /\ \A k \in 1 .. Len(u.queue) : IsText(u.queue[k]) => n <= u.queue[k].turn
    <3>1. CASE OfTurn(e, n)
      BY <3>1, <1>8, <1>15, <1>16 DEF OfTurn
    <3>2. CASE ~OfTurn(e, n)
      <4>1. t.at[n].last > 0
        BY <2>3, <3>2, <1>11
      <4> QED BY <4>1, <1>8, <1>17
    <3> QED BY <3>1, <3>2
  <2> QED BY <2>1, <2>2, <2>3 DEF InOrder
<1>19. \A n \in TurnIds : Past(t, m, n) => Past(u, m, n)
  BY <1>8, <1>9 DEF Past, q
<1>20. TextFits(u, m)
  <2>1. TextFits(t, m)
    BY DEF TabInv
  <2>2. CASE u.at = t.at /\ u.text = t.text /\ u.taken = t.taken
    BY <2>1, <2>2, <1>19 DEF TextFits
  <2>3. CASE IsText(e) /\ e.seq > t.at[e.turn].last /\ HearsOf(t, h, e)
    <3> DEFINE a == t.at[e.turn].last
    <3>1. a \in Nat /\ e.turn \in TurnIds /\ t.taken \in Nat /\ t.text \in Seq(Nat) /\ Len(t.text) \in Nat
      BY <2>3, <1>1, <1>6, LenProperties DEF TabRow
    <3>2. a > 0 => t.taken + Len(t.text) = a
      <4>1. 1 \in 1 .. Len(q) /\ OfTurn(q[1], e.turn)
        BY <2>3, <1>2 DEF OfTurn
      <4>2. ~Past(t, m, e.turn)
        BY <4>1 DEF Past, q
      <4> QED BY <2>1, <3>1, <4>2 DEF TextFits
    <3>3. Run(t.text, t.taken)
      BY <2>1 DEF TextFits
    <3>4. \A n \in TurnIds \ {e.turn} : u.at[n].last > 0 => Past(u, m, n)
      <4> SUFFICES ASSUME NEW n \in TurnIds \ {e.turn}, u.at[n].last > 0 PROVE Past(u, m, n)
        OBVIOUS
      <4>1. t.at[n].last > 0
        BY <1>11 DEF OfTurn
      <4>2. n <= e.turn /\ e.turn <= m.no
        BY <4>1, <2>3, <1>16, <1>17
      <4>3. n \in Nat /\ e.turn \in Nat /\ m.no \in Nat
        BY <3>1, <1>1
      <4>4. n < e.turn /\ n < m.no
        BY <4>2, <4>3
      <4>5. \A k \in 1 .. Len(r) : ~OfTurn(r[k], n)
        <5>1. \A k \in 1 .. Len(r) : IsText(r[k]) => r[k].turn \in Nat /\ e.turn <= r[k].turn
          BY <2>3, <1>3, <1>9, <1>15
        <5> QED BY <5>1, <4>3, <4>4 DEF OfTurn
      <4> QED BY <4>4, <4>5, <1>8 DEF Past
    <3>5. CASE u.at[e.turn] = Unread /\ u.text = <<>>
      <4>1. Run(u.text, u.taken)
        BY <3>5 DEF Run
      <4>2. u.at[e.turn].last = 0
        BY <3>5 DEF Unread
      <4> QED BY <3>4, <4>1, <4>2 DEF TextFits
    <3>6. ASSUME NEW more \in Seq(Nat), u.at[e.turn].last = a + Len(more),
                 \A i \in 1 .. Len(more) : more[i] = a + i,
                 \/ more = <<>> /\ u.text = t.text /\ u.taken = t.taken
                 \/ a = 0 /\ u.text = more /\ u.taken = 0
                 \/ a # 0 /\ u.text = t.text \o more /\ u.taken = t.taken
          PROVE  TextFits(u, m)
      <4>1. Len(more) \in Nat
        BY LenProperties
      <4>2. Run(u.text, u.taken) /\ (u.at[e.turn].last > 0 => u.taken + Len(u.text) = a + Len(more))
        <5>1. CASE more = <<>> /\ u.text = t.text /\ u.taken = t.taken
          <6>1. Len(more) = 0 /\ u.at[e.turn].last = a
            BY <3>1, <3>6, <5>1
          <6> QED BY <3>1, <3>2, <3>3, <5>1, <6>1
        <5>2. CASE a = 0 /\ u.text = more /\ u.taken = 0
          BY <3>6, <4>1, <5>2 DEF Run
        <5>3. CASE a # 0 /\ u.text = t.text \o more /\ u.taken = t.taken
          <6>1. t.taken + Len(t.text) = a
            BY <3>1, <3>2, <5>3
          <6>2. \A i \in 1 .. Len(more) : more[i] = (t.taken + Len(t.text)) + i
            BY <3>6, <6>1
          <6> HIDE DEF a
          <6>3. Run(t.text \o more, t.taken) /\ Len(t.text \o more) = Len(t.text) + Len(more)
            BY <3>1, <3>3, <6>2, JoinRun
          <6>4. Run(u.text, u.taken) /\ u.taken = t.taken /\ Len(u.text) = Len(t.text) + Len(more)
            BY <5>3, <6>3
          <6>5. t.taken + (Len(t.text) + Len(more)) = (t.taken + Len(t.text)) + Len(more)
            BY <3>1, <4>1
          <6> QED BY <6>1, <6>4, <6>5
        <5> QED BY <3>6, <5>1, <5>2, <5>3
      <4> QED BY <3>4, <3>6, <4>2 DEF TextFits
    <3> QED BY <2>3, <3>5, <3>6, <1>8 DEF HearsOf
  <2> QED BY <2>2, <2>3, <1>5, <1>8
<1>21. KeepsUp(u, m, stored, waiting)
  <2> SUFFICES ASSUME u.open, ~u.missed
               PROVE  /\ \A n \in TurnIds \ {u.joined} : NoGap(u.queue, u.at[n], m, n)
                      /\ \A i \in stored : Coming(u, m, waiting, i)
    BY DEF KeepsUp
  <2>1. /\ \A n \in TurnIds \ {u.joined} : NoGap(q, t.at[n], m, n)
        /\ \A i \in stored : Coming(t, m, waiting, i)
    BY <1>8 DEF KeepsUp, TabInv, q
  <2>2. ASSUME NEW n \in TurnIds \ {u.joined}, OfTurn(e, n)
        PROVE  /\ u.at[n].buf = {} /\ u.at[n].done = 0
               /\ u.at[n].last = IF e.type = "piece" THEN t.at[n].last + 1 ELSE 0
               /\ e.type = "done" => e.full \subseteq u.seen
    <3>1. NoGap(q, t.at[n], m, n)
      BY <2>1
    <3>2. e.seq = t.at[n].last + 1 /\ e.turn = n /\ IsText(e)
      <4>1. q # <<>> /\ OfTurn(Head(q), n)
        BY <2>2 DEF q, e
      <4> QED BY <3>1, <4>1, <2>2, <1>1, NoGapHead DEF e, OfTurn
    <3>3. HearsOf(t, h, e)
      BY <3>2, <1>1, <1>5
    <3>4. t.at[n].buf = {} /\ t.at[n].done = 0
      BY <3>1 DEF NoGap
    <3>5. CASE e.type = "done"
      <4>1. u.at[n] = Unread /\ u.seen = t.seen \cup e.full
        BY <3>2, <3>3, <3>4, <3>5, <1>8 DEF HearsOf
      <4>2. Unread.last = 0 /\ Unread.buf = {} /\ Unread.done = 0
        BY DEF Unread
      <4> QED BY <3>5, <4>1, <4>2
    <3>6. CASE e.type = "piece"
      BY <3>2, <3>3, <3>4, <3>6, <1>8 DEF HearsOf
    <3> QED BY <3>2, <3>5, <3>6 DEF IsText
  <2>3. ASSUME NEW n \in TurnIds \ {u.joined} PROVE NoGap(u.queue, u.at[n], m, n)
    <3>1. NoGap(q, t.at[n], m, n) /\ t.at[n] \in Heard /\ u.at[n] \in Heard /\ q # <<>>
      BY <2>1, <1>1 DEF TabRow, q
    <3>2. CASE OfTurn(e, n)
      <4>1. NoGap(Tail(q), u.at[n], m, n)
        BY <3>1, <3>2, <2>2, <1>1, NoGapNext DEF e
      <4> QED BY <4>1, <1>8 DEF r
    <3>3. CASE ~OfTurn(e, n)
      <4>1. NoGap(Tail(q), t.at[n], m, n)
        BY <3>1, <3>3, <1>1, NoGapOther DEF e
      <4> QED BY <4>1, <3>3, <1>8, <1>11 DEF r
    <3> QED BY <3>2, <3>3
  <2>4. ASSUME NEW i \in stored PROVE Coming(u, m, waiting, i)
    <3>1. Coming(t, m, waiting, i)
      BY <2>1
    <3>2. CASE e.type = "failed"
      BY <3>2, <1>5, <1>8, <1>12 DEF Coming
    <3>3. CASE e.type # "failed" /\ i \in e.full
      <4>1. CASE e.type = "card"
        BY <4>1, <3>3, <1>5, <1>8 DEF Coming
      <4>2. CASE e.type = "done"
        <5>1. i = <<e.turn>> /\ e.turn \in TurnIds /\ OfTurn(e, e.turn)
          BY <3>3, <4>2, <1>6 DEF IsText, OfTurn
        <5>2. CASE e.turn = u.joined
          BY <5>1, <5>2 DEF Coming
        <5>3. CASE e.turn # u.joined
          BY <5>1, <5>3, <4>2, <3>3, <2>2 DEF Coming
        <5> QED BY <5>2, <5>3
      <4> QED BY <4>1, <4>2, <3>3, <1>6
    <3>4. CASE e.type # "failed" /\ \E k \in 1 .. Len(q) : k # 1 /\ (i \in q[k].full \/ q[k].type = "failed")
      <4>1. PICK k \in 1 .. Len(q) : k # 1 /\ (i \in q[k].full \/ q[k].type = "failed")
        BY <3>4
      <4>2. k - 1 \in 1 .. Len(u.queue) /\ u.queue[k - 1] = q[k]
        BY <4>1, <1>8, <1>10
      <4> QED BY <4>1, <4>2 DEF Coming
    <3>5. CASE e.type # "failed" /\ \A k \in 1 .. Len(q) : i \notin q[k].full /\ q[k].type # "failed"
      <4>1. u.fetch = t.fetch
        BY <3>5, <1>5, <1>8
      <4> QED BY <4>1, <3>1, <3>5, <1>5, <1>8 DEF Coming, q
    <3> QED BY <3>2, <3>3, <3>4, <3>5, <1>2
  <2> QED BY <2>3, <2>4
<1> QED BY <1>4, <1>7, <1>13, <1>18, <1>20, <1>21 DEF TabInv, e, q

-------------------------------------------------------------------------------
LEMMA StreamInitInv == StreamInit => StreamInv
<1> SUFFICES ASSUME StreamInit PROVE StreamInv
  OBVIOUS
<1>1. mainTurn \in TurnRow /\ mainTurn.no = 0 /\ mainTurn.seq = 0 /\ mainTurn.step = "none"
  BY StreamAssumption DEF StreamInit, TurnRow, Replies
<1>2. saved \in SUBSET Items /\ unsent \in SUBSET saved /\ saved = {}
  BY DEF StreamInit
<1>3. PICK t \in TabRow : t = NewTab
  <2>1. <<>> \in Seq(Event) /\ <<>> \in Seq(Nat)
    BY EmptySeq
  <2>2. Unread \in Heard
    <3>1. {} \in Pieces
      BY FS_EmptySet DEF Pieces
    <3> QED BY <3>1 DEF Unread, Heard
  <2>3. NoFetch \in Fetch
    BY DEF NoFetch, Fetch
  <2>4. 0 \in 0 .. TurnMax
    BY StreamAssumption
  <2>5. [n \in TurnIds |-> Unread] \in [TurnIds -> Heard]
    BY <2>2
  <2> HIDE DEF Event, Heard, Fetch, Unread, NoFetch
  <2> QED BY <2>1, <2>3, <2>4, <2>5 DEF NewTab, TabRow
<1>4. tab \in [Tabs -> TabRow] /\ \A b \in Tabs : tab[b] = t
  <2>1. tab = [b \in Tabs |-> t]
    BY <1>3 DEF StreamInit
  <2> QED BY <2>1
<1>5. t.open = FALSE /\ t.queue = <<>> /\ t.at = [n \in TurnIds |-> Unread] /\ t.text = <<>>
      /\ t.shown = {} /\ t.fetch = NoFetch
  BY <1>3 DEF NewTab
<1>6. \A n \in TurnIds : t.at[n].last = 0
  BY <1>5 DEF Unread
<1>7. TabInv(t, mainTurn, saved, unsent)
  <2>1. NoFetch.items = {}
    BY DEF NoFetch
  <2>2. ShowsStored(t, saved)
    BY <2>1, <1>5 DEF ShowsStored
  <2>3. InOrder(t, mainTurn)
    BY <1>5, <1>6 DEF InOrder
  <2>4. TextFits(t, mainTurn)
    <3>1. Len(t.text) = 0
      BY <1>5
    <3> QED BY <3>1, <1>6 DEF TextFits, Run
  <2>5. KeepsUp(t, mainTurn, saved, unsent)
    BY <1>5 DEF KeepsUp
  <2> QED BY <2>2, <2>3, <2>4, <2>5 DEF TabInv
<1>8. TurnKept(mainTurn, saved)
  BY <1>1 DEF TurnKept
<1> QED BY <1>1, <1>2, <1>4, <1>7, <1>8 DEF StreamInv, StreamTypeOK

\* Publishing tells every tab, or is missed by it.
LEMMA PublishKeeps ==
  ASSUME StreamInv, NEW e \in Event, Publish(e), mainTurn' \in TurnRow, saved' = saved,
         unsent' \in SUBSET saved,
         e.full \subseteq saved, mainTurn'.no = mainTurn.no,
         IsText(e) => e.turn = mainTurn.no /\ e.seq = mainTurn.seq + 1 /\ ToPublish(mainTurn, mainTurn.no),
         \A n \in TurnIds : ToPublish(mainTurn', n) =>
            /\ ToPublish(mainTurn, n)
            /\ mainTurn'.seq = IF OfTurn(e, n) THEN mainTurn.seq + 1 ELSE mainTurn.seq
            /\ OfTurn(e, n) => e.type = "piece",
         \A i \in saved : i \in unsent => i \in unsent' \/ i \in e.full,
         \A i \in saved : Untold(mainTurn, i) => Untold(mainTurn', i) \/ i \in e.full \/ e.type = "failed",
         TurnKept(mainTurn', saved)
  PROVE  StreamInv'
<1>1. tab \in [Tabs -> TabRow] /\ mainTurn \in TurnRow /\ saved \in SUBSET Items
  BY DEF StreamInv, StreamTypeOK
<1>2. tab' = [b \in Tabs |-> Sent(tab[b], e)]
  BY DEF Publish, Published, Sent
<1>3. ASSUME NEW b \in Tabs
      PROVE  tab'[b] \in TabRow /\ TabInv(tab'[b], mainTurn', saved, unsent')
  <2>1. PICK t \in TabRow : t = tab[b]
    BY <1>1
  <2>2. TabInv(t, mainTurn, saved, unsent)
    BY <2>1 DEF StreamInv
  <2>3. tab'[b] = Sent(t, e)
    BY <1>2, <2>1
  <2>4. Sent(t, e) \in TabRow /\ TabInv(Sent(t, e), mainTurn', saved, unsent')
    BY <2>2, <1>1, TabSent
  <2> QED BY <2>3, <2>4
<1>4. tab' \in [Tabs -> TabRow]
  BY <1>2, <1>3
<1> QED BY <1>1, <1>3, <1>4 DEF StreamInv, StreamTypeOK

LEMMA PiecesKeep == StreamInv /\ SendPiece => StreamInv'
<1> SUFFICES ASSUME StreamInv, SendPiece PROVE StreamInv'
  OBVIOUS
<1>1. PICK m \in TurnRow : m = mainTurn
  BY DEF StreamInv, StreamTypeOK
<1>2. m.step = "streaming" /\ m.no \in TurnIds /\ m.seq \in Nat
  BY <1>1 DEF StreamInv, TurnKept, SendPiece, TurnRow
<1>3. PICK m2 \in TurnRow : m2 = [m EXCEPT !.seq = @ + 1]
  <2>1. m.seq + 1 \in Nat
    BY <1>2
  <2> DEFINE s == m.seq + 1
  <2>2. [m EXCEPT !.seq = s] \in TurnRow
    <3> HIDE DEF s
    <3> QED BY <2>1 DEF TurnRow, s
  <2>3. [m EXCEPT !.seq = @ + 1] = [m EXCEPT !.seq = s]
    OBVIOUS
  <2> QED BY <2>2, <2>3
<1>4. m2.no = m.no /\ m2.seq = m.seq + 1 /\ m2.step = m.step /\ m2.reply = m.reply
  BY <1>3 DEF TurnRow
<1>5. mainTurn' = m2
  BY <1>1, <1>3 DEF SendPiece
<1>6. PICK e \in Event : e = Piece(m.no, m.seq + 1)
  <2>1. Piece(m.no, m.seq + 1) \in EventRow
    BY <1>2, StreamAssumption DEF Piece, EventRow, TurnIds
  <2>2. Shaped(Piece(m.no, m.seq + 1))
    BY <1>2 DEF Piece, Shaped
  <2> QED BY <2>1, <2>2 DEF Event
<1>7. e.type = "piece" /\ e.turn = m.no /\ e.seq = m.seq + 1 /\ e.full = {}
  BY <1>6 DEF Piece
<1>8. Publish(e) /\ saved' = saved /\ unsent' = unsent
  BY <1>1, <1>6 DEF SendPiece
<1>9. TurnKept(m2, saved)
  BY <1>1, <1>2, <1>4 DEF StreamInv, TurnKept
<1>10. \A n \in TurnIds : ToPublish(m2, n) =>
            /\ ToPublish(m, n)
            /\ m2.seq = IF OfTurn(e, n) THEN m.seq + 1 ELSE m.seq
            /\ OfTurn(e, n) => e.type = "piece"
  BY <1>4, <1>7 DEF ToPublish, OfTurn, IsText
<1>11. \A i \in saved : Untold(m, i) => Untold(m2, i)
  BY <1>4 DEF Untold
<1>12. ToPublish(m, m.no) /\ unsent \in SUBSET saved
  BY <1>2 DEF ToPublish, StreamInv, StreamTypeOK
<1> QED BY <1>1, <1>4, <1>5, <1>7, <1>8, <1>9, <1>10, <1>11, <1>12, PublishKeeps

LEMMA DoneKeeps == StreamInv /\ TellDone => StreamInv'
<1> SUFFICES ASSUME StreamInv, TellDone PROVE StreamInv'
  OBVIOUS
<1>1. PICK m \in TurnRow : m = mainTurn
  BY DEF StreamInv, StreamTypeOK
<1>2. m.step = "stored" /\ m.no \in TurnIds /\ m.seq \in Nat /\ m.reply \in Replies
  BY <1>1 DEF StreamInv, TurnKept, TellDone, TurnRow
<1>3. PICK m2 \in TurnRow : m2 = [m EXCEPT !.step = "told"]
  BY <1>2 DEF TurnRow
<1>4. m2.no = m.no /\ m2.seq = m.seq /\ m2.step = "told" /\ m2.reply = m.reply
  BY <1>3 DEF TurnRow
<1>5. mainTurn' = m2
  BY <1>1, <1>3 DEF TellDone
<1> DEFINE full == IF m.reply \in {"answer", "error"} THEN {<<m.no>>} ELSE {}
<1>6. full \subseteq {<<m.no>>} /\ <<m.no>> \in Items
  BY <1>2 DEF Items, Answers
<1>7. PICK e \in Event : e = Done(m.no, m.seq + 1, full)
  <2> HIDE DEF full
  <2>1. Done(m.no, m.seq + 1, full) \in EventRow
    BY <1>2, <1>6, StreamAssumption DEF Done, EventRow, TurnIds
  <2>2. Shaped(Done(m.no, m.seq + 1, full))
    BY <1>2, <1>6 DEF Done, Shaped
  <2> QED BY <2>1, <2>2 DEF Event
<1>8. e.type = "done" /\ e.turn = m.no /\ e.seq = m.seq + 1 /\ e.full = full
  BY <1>7 DEF Done
<1>9. Publish(e) /\ saved' = saved /\ unsent' = unsent
  BY <1>1, <1>7 DEF TellDone
<1>10. TurnKept(m, saved)
  BY <1>1 DEF StreamInv
<1>11. TurnKept(m2, saved)
  BY <1>2, <1>4, <1>10 DEF TurnKept
<1>12. e.full \subseteq saved
  BY <1>2, <1>8, <1>10 DEF TurnKept
<1>13. \A n \in TurnIds : ~ToPublish(m2, n)
  BY <1>4 DEF ToPublish
<1>14. \A i \in saved : Untold(m, i) => Untold(m2, i) \/ i \in e.full
  BY <1>2, <1>4, <1>8 DEF Untold, Replies
<1>15. ToPublish(m, m.no) /\ unsent \in SUBSET saved
  BY <1>2 DEF ToPublish, StreamInv, StreamTypeOK
<1> QED BY <1>1, <1>4, <1>5, <1>8, <1>9, <1>11, <1>12, <1>13, <1>14, <1>15, PublishKeeps

\* An item that is stored, or a step of the turn, that no tab is told of.
LEMMA QuietKeeps ==
  ASSUME StreamInv, UNCHANGED tab, mainTurn' \in TurnRow,
         saved' \in SUBSET Items, unsent' \in SUBSET saved',
         saved \subseteq saved', mainTurn.no <= mainTurn'.no,
         \A n \in TurnIds : ToPublish(mainTurn', n) =>
            (ToPublish(mainTurn, n) /\ mainTurn'.seq = mainTurn.seq) \/ (n > mainTurn.no /\ mainTurn'.seq = 0),
         \A i \in saved' : i \in saved \/ i \in unsent' \/ Untold(mainTurn', i),
         unsent \subseteq unsent',
         \A i \in saved : Untold(mainTurn, i) => Untold(mainTurn', i),
         TurnKept(mainTurn', saved')
  PROVE  StreamInv'
<1>1. tab \in [Tabs -> TabRow] /\ mainTurn \in TurnRow
  BY DEF StreamInv, StreamTypeOK
<1>2. ASSUME NEW b \in Tabs PROVE TabInv(tab[b], mainTurn', saved', unsent')
  <2>1. tab[b] \in TabRow /\ TabInv(tab[b], mainTurn, saved, unsent)
    BY <1>1 DEF StreamInv
  <2> QED BY <2>1, <1>1, TabTurn
<1> QED BY <1>1, <1>2 DEF StreamInv, StreamTypeOK

LEMMA BeginKeeps == StreamInv /\ BeginTurn => StreamInv'
<1> SUFFICES ASSUME StreamInv, BeginTurn PROVE StreamInv'
  OBVIOUS
<1>1. PICK m \in TurnRow : m = mainTurn
  BY DEF StreamInv, StreamTypeOK
<1>2. m.step = "none" /\ m.no \in 0 .. TurnMax /\ m.no < TurnMax
  BY <1>1 DEF BeginTurn, TurnRow
<1>3. PICK m2 \in TurnRow : m2 = [no |-> m.no + 1, seq |-> 0, step |-> "streaming", reply |-> "silent"]
  <2>1. m.no + 1 \in 0 .. TurnMax
    BY <1>2, StreamAssumption
  <2> QED BY <2>1 DEF TurnRow, Replies
<1>4. m2.no = m.no + 1 /\ m2.seq = 0 /\ m2.step = "streaming" /\ m2.reply = "silent"
  BY <1>3
<1>5. mainTurn' = m2 /\ saved' = saved /\ unsent' = unsent /\ tab' = tab
  BY <1>1, <1>3 DEF BeginTurn
<1>6. m2.no > m.no /\ m.no <= m2.no /\ m2.no \in TurnIds
  BY <1>2, <1>4, StreamAssumption DEF TurnIds
<1>7. TurnKept(m2, saved)
  BY <1>4, <1>6 DEF TurnKept
<1>8. \A n \in TurnIds : ToPublish(m2, n) => n > m.no /\ m2.seq = 0
  BY <1>4, <1>6 DEF ToPublish
<1>9. \A i \in saved : ~Untold(m, i)
  BY <1>2 DEF Untold
<1>10. saved \in SUBSET Items /\ unsent \in SUBSET saved
  BY DEF StreamInv, StreamTypeOK
<1> QED BY <1>1, <1>5, <1>6, <1>7, <1>8, <1>9, <1>10, QuietKeeps

LEMMA ReplyKeeps == StreamInv /\ StoreReply => StreamInv'
<1> SUFFICES ASSUME StreamInv, StoreReply PROVE StreamInv'
  OBVIOUS
<1>1. PICK m \in TurnRow : m = mainTurn
  BY DEF StreamInv, StreamTypeOK
<1>2. m.step = "streaming" /\ m.no \in TurnIds /\ TurnIds \subseteq Nat
  BY <1>1, StreamAssumption DEF StreamInv, TurnKept, StoreReply, TurnIds
<1>3. PICK reply \in Replies : /\ mainTurn' = [mainTurn EXCEPT !.step = "stored", !.reply = reply]
                               /\ saved' = saved \cup Kept(mainTurn.no, reply)
  BY DEF StoreReply
<1>4. PICK m2 \in TurnRow : m2 = [m EXCEPT !.step = "stored", !.reply = reply]
  BY DEF TurnRow
<1>5. m2.no = m.no /\ m2.seq = m.seq /\ m2.step = "stored" /\ m2.reply = reply
  BY <1>4 DEF TurnRow
<1>6. mainTurn' = m2 /\ saved' = saved \cup Kept(m.no, reply) /\ unsent' = unsent /\ tab' = tab
  BY <1>1, <1>3, <1>4 DEF StoreReply
<1>7. Kept(m.no, reply) \subseteq Items /\ (reply # "silent" => <<m.no>> \in Kept(m.no, reply))
  BY <1>2 DEF Kept, Items, Answers
<1>8. \A i \in saved' : i \in saved \/ Untold(m2, i)
  BY <1>5, <1>6 DEF Kept, Untold
<1>9. TurnKept(m2, saved')
  BY <1>2, <1>5, <1>6, <1>7 DEF TurnKept
<1>10. \A n \in TurnIds : ToPublish(m2, n) => ToPublish(m, n) /\ m2.seq = m.seq
  BY <1>2, <1>5 DEF ToPublish
<1>11. \A i \in saved : ~Untold(m, i)
  BY <1>2 DEF Untold
<1>12. saved' \in SUBSET Items /\ unsent' \in SUBSET saved' /\ saved \subseteq saved'
  BY <1>6, <1>7 DEF StreamInv, StreamTypeOK
<1>13. m.no <= m2.no
  <2>1. m.no \in Nat
    BY <1>2
  <2> QED BY <2>1, <1>5
<1> QED BY <1>1, <1>6, <1>8, <1>9, <1>10, <1>11, <1>12, <1>13, QuietKeeps

LEMMA StatusKeeps == StreamInv /\ TellStatus => StreamInv'
<1> SUFFICES ASSUME StreamInv, TellStatus PROVE StreamInv'
  OBVIOUS
<1>1. PICK m \in TurnRow : m = mainTurn
  BY DEF StreamInv, StreamTypeOK
<1>2. m.step = "told" /\ m.no \in Nat
  BY <1>1, StreamAssumption DEF TellStatus, TurnRow
<1>3. PICK m2 \in TurnRow : m2 = [m EXCEPT !.step = "none", !.seq = 0]
  BY DEF TurnRow
<1>4. m2.no = m.no /\ m2.step = "none" /\ m2.reply = m.reply
  BY <1>3 DEF TurnRow
<1>5. mainTurn' = m2 /\ saved' = saved /\ unsent' = unsent
  BY <1>1, <1>3 DEF TellStatus
<1>6. TurnKept(m2, saved)
  BY <1>4 DEF TurnKept
<1>7. (\A n \in TurnIds : ~ToPublish(m2, n)) /\ saved \in SUBSET Items /\ unsent \in SUBSET saved
  BY <1>4 DEF ToPublish, StreamInv, StreamTypeOK
<1>8. CASE m.reply \in {"error", "raised"}
  <2>1. PICK e \in Event : e = FailedEvent
    <3>1. FailedEvent \in EventRow
      BY StreamAssumption DEF FailedEvent, EventRow
    <3>2. Shaped(FailedEvent)
      BY DEF FailedEvent, Shaped
    <3> QED BY <3>1, <3>2 DEF Event
  <2>2. e.type = "failed" /\ e.full = {} /\ ~IsText(e)
    BY <2>1 DEF FailedEvent, IsText
  <2>3. Publish(e)
    BY <1>1, <1>8, <2>1 DEF TellStatus
  <2> QED BY <2>2, <2>3, <1>1, <1>4, <1>5, <1>6, <1>7, PublishKeeps
<1>9. CASE m.reply \notin {"error", "raised"}
  <2>1. tab' = tab
    BY <1>1, <1>9 DEF TellStatus
  <2>2. \A i \in saved : ~Untold(m, i)
    BY <1>2, <1>9 DEF Untold
  <2>3. m.no <= m2.no
    BY <1>2, <1>4
  <2> QED BY <2>1, <2>2, <2>3, <1>1, <1>4, <1>5, <1>6, <1>7, QuietKeeps
<1> QED BY <1>8, <1>9

LEMMA CardsKeep ==
  ASSUME NEW c \in CanvasCards
  PROVE  /\ StreamInv /\ StoreCard(c) => StreamInv'
         /\ StreamInv /\ EmitCard(c) => StreamInv'
<1>1. ASSUME StreamInv, StoreCard(c) PROVE StreamInv'
  <2>1. mainTurn' = mainTurn /\ saved' = saved \cup {c} /\ unsent' = unsent \cup {c} /\ tab' = tab
    BY <1>1 DEF StoreCard
  <2>2. mainTurn \in TurnRow /\ saved \in SUBSET Items /\ unsent \in SUBSET saved /\ TurnKept(mainTurn, saved)
    BY <1>1 DEF StreamInv, StreamTypeOK
  <2>3. saved' \in SUBSET Items /\ unsent' \in SUBSET saved'
    BY <2>1, <2>2 DEF Items
  <2>4. TurnKept(mainTurn', saved')
    BY <2>1, <2>2 DEF TurnKept
  <2>5. mainTurn.no <= mainTurn'.no
    BY <2>1, <2>2, StreamAssumption DEF TurnRow
  <2> QED BY <1>1, <2>1, <2>2, <2>3, <2>4, <2>5, QuietKeeps
<1>2. ASSUME StreamInv, EmitCard(c) PROVE StreamInv'
  <2>1. c \in unsent /\ mainTurn' = mainTurn /\ saved' = saved /\ unsent' = unsent \ {c}
    BY <1>2 DEF EmitCard
  <2>2. mainTurn \in TurnRow /\ saved \in SUBSET Items /\ unsent \in SUBSET saved /\ TurnKept(mainTurn, saved)
    BY <1>2 DEF StreamInv, StreamTypeOK
  <2>3. PICK e \in Event : e = CardEvent(c)
    <3>1. CardEvent(c) \in EventRow
      BY StreamAssumption DEF CardEvent, EventRow, Items
    <3>2. Shaped(CardEvent(c))
      BY DEF CardEvent, Shaped
    <3> QED BY <3>1, <3>2 DEF Event
  <2>4. e.type = "card" /\ e.full = {c} /\ ~IsText(e)
    BY <2>3 DEF CardEvent, IsText
  <2>5. Publish(e)
    BY <1>2, <2>3 DEF EmitCard
  <2>6. \A n \in TurnIds : ~OfTurn(e, n)
    BY <2>4 DEF OfTurn
  <2> QED BY <1>2, <2>1, <2>2, <2>4, <2>5, <2>6, PublishKeeps
<1> QED BY <1>1, <1>2

\* A step of one tab.
LEMMA OneTabKeeps ==
  ASSUME StreamInv, UNCHANGED <<mainTurn, saved, unsent>>, NEW b \in Tabs, NEW u \in TabRow,
         tab' = [tab EXCEPT ![b] = u], TabInv(u, mainTurn, saved, unsent)
  PROVE  StreamInv'
<1>1. tab \in [Tabs -> TabRow]
  BY DEF StreamInv, StreamTypeOK
<1>2. tab' \in [Tabs -> TabRow] /\ \A c \in Tabs : tab'[c] = IF c = b THEN u ELSE tab[c]
  BY <1>1
<1>3. \A c \in Tabs : TabInv(tab'[c], mainTurn, saved, unsent)
  BY <1>2 DEF StreamInv
<1> QED BY <1>2, <1>3 DEF StreamInv, StreamTypeOK

LEMMA OpenKeeps ==
  ASSUME StreamInv, NEW b \in Tabs, Open(b)
  PROVE  StreamInv'
<1>1. PICK t \in TabRow : t = tab[b]
  BY DEF StreamInv, StreamTypeOK
<1>2. t.fetch = NoFetch /\ TabInv(t, mainTurn, saved, unsent) /\ mainTurn \in TurnRow
  BY <1>1 DEF Open, MayOpen, StreamInv, StreamTypeOK
<1> DEFINE joined == IF mainTurn.seq > 0 THEN mainTurn.no ELSE 0
           clear == [n \in TurnIds |-> Unread]
           asked == [NoFetch EXCEPT !.step = "asked"]
<1>3. joined \in 0 .. TurnMax /\ clear \in [TurnIds -> Heard] /\ asked \in Fetch /\ <<>> \in Seq(Event)
  <2>1. Unread \in Heard
    <3>1. {} \in Pieces
      BY FS_EmptySet DEF Pieces
    <3> QED BY <3>1 DEF Unread, Heard
  <2>2. asked \in Fetch
    BY DEF NoFetch, Fetch
  <2>3. joined \in 0 .. TurnMax
    BY <1>2, StreamAssumption DEF TurnRow
  <2>4. <<>> \in Seq(Event)
    BY EmptySeq
  <2> QED BY <2>1, <2>2, <2>3, <2>4
<1> HIDE DEF joined, clear, asked
<1>4. PICK c \in TabRow : c = [t EXCEPT !.open = TRUE, !.opens = @ + 1, !.queue = <<>>,
              !.at = clear, !.seen = {}, !.missed = FALSE, !.joined = joined]
  <2> DEFINE opens == t.opens + 1
  <2>1. opens \in Nat
    BY DEF TabRow
  <2> HIDE DEF opens
  <2>2. [t EXCEPT !.open = TRUE, !.opens = opens, !.queue = <<>>,
              !.at = clear, !.seen = {}, !.missed = FALSE, !.joined = joined] \in TabRow
    <3> HIDE DEF Event, Heard, Fetch
    <3> QED BY <1>3, <2>1 DEF TabRow
  <2> QED BY <2>2 DEF opens
<1>5. c.open /\ c.queue = <<>> /\ c.at = clear /\ c.text = t.text /\ c.taken = t.taken /\ c.shown = t.shown
      /\ c.joined = joined /\ c.fetch = NoFetch
  BY <1>2, <1>4 DEF TabRow
<1>6. c = Connected(t)
  BY <1>4 DEF Connected, clear, joined
<1>7. PICK u \in TabRow : u = [c EXCEPT !.fetch = asked]
  <2> HIDE DEF Event, Heard, Fetch
  <2> QED BY <1>3 DEF TabRow
<1>8. u.queue = <<>> /\ u.at = clear /\ u.text = t.text /\ u.taken = t.taken /\ u.shown = t.shown /\ u.joined = joined
      /\ u.fetch = asked
  BY <1>5, <1>7 DEF TabRow
<1>9. tab' = [tab EXCEPT ![b] = u]
  <2>1. tab' = [tab EXCEPT ![b] = [Connected(t) EXCEPT !.fetch.step = "asked"]]
    BY <1>1 DEF Open
  <2>2. [Connected(t) EXCEPT !.fetch.step = "asked"] = u
    BY <1>5, <1>6, <1>7 DEF asked
  <2> QED BY <2>1, <2>2
<1>10. TabInv(u, mainTurn, saved, unsent)
  BY <1>2, <1>8, TabOpens DEF joined, clear, asked
<1> QED BY <1>9, <1>10, OneTabKeeps DEF Open

LEMMA CloseKeeps ==
  ASSUME StreamInv, NEW b \in Tabs, Close(b)
  PROVE  StreamInv'
<1>1. PICK t \in TabRow : t = tab[b]
  BY DEF StreamInv, StreamTypeOK
<1>2. TabInv(t, mainTurn, saved, unsent) /\ mainTurn \in TurnRow
  BY <1>1 DEF StreamInv, StreamTypeOK
<1>3. Cut(t) \in TabRow /\ TabInv(Cut(t), mainTurn, saved, unsent)
  BY <1>2, TabCut
<1>4. tab' = [tab EXCEPT ![b] = Cut(t)] /\ UNCHANGED <<mainTurn, saved, unsent>>
  BY <1>1 DEF Close
<1> QED BY <1>3, <1>4, OneTabKeeps

LEMMA RestartKeeps == StreamInv /\ RestartServer => StreamInv'
<1> SUFFICES ASSUME StreamInv, RestartServer PROVE StreamInv'
  OBVIOUS
<1>1. tab \in [Tabs -> TabRow] /\ saved \in SUBSET Items
  BY DEF StreamInv, StreamTypeOK
<1>2. PICK m \in TurnRow : m = mainTurn
  BY DEF StreamInv, StreamTypeOK
<1>3. PICK m2 \in TurnRow : m2 = [m EXCEPT !.step = "none", !.seq = 0]
  BY DEF TurnRow
<1>4. m2.no = m.no /\ m2.step = "none"
  BY <1>3 DEF TurnRow
<1>5. mainTurn' = m2 /\ saved' = saved /\ unsent' = {} /\ tab' = [b \in Tabs |-> Cut(tab[b])]
  BY <1>2, <1>3 DEF RestartServer
<1>6. ASSUME NEW b \in Tabs PROVE tab'[b] \in TabRow /\ TabInv(tab'[b], m2, saved, {})
  <2>1. PICK t \in TabRow : t = tab[b]
    BY <1>1
  <2>2. TabInv(t, m, saved, unsent)
    BY <2>1, <1>2 DEF StreamInv
  <2>3. Cut(t) \in TabRow /\ TabInv(Cut(t), m2, saved, {})
    BY <2>2, <1>4, TabCut
  <2> QED BY <2>1, <2>3, <1>5
<1>7. tab' \in [Tabs -> TabRow]
  BY <1>5, <1>6
<1>8. TurnKept(m2, saved)
  BY <1>4 DEF TurnKept
<1> QED BY <1>1, <1>5, <1>6, <1>7, <1>8 DEF StreamInv, StreamTypeOK

LEMMA DeliverKeeps ==
  ASSUME StreamInv, NEW b \in Tabs, Deliver(b)
  PROVE  StreamInv'
<1>1. PICK t \in TabRow : t = tab[b]
  BY DEF StreamInv, StreamTypeOK
<1>2. TabInv(t, mainTurn, saved, unsent) /\ mainTurn \in TurnRow
  BY <1>1 DEF StreamInv, StreamTypeOK
<1>3. t.queue # <<>> /\ (Head(t.queue).type = "failed" => t.fetch = NoFetch)
  BY <1>1 DEF Deliver
<1> DEFINE u == [Hear(t, Head(t.queue)) EXCEPT !.queue = Tail(@)]
<1>4. u \in TabRow /\ TabInv(u, mainTurn, saved, unsent)
  BY <1>2, <1>3, TabHears
<1>5. tab' = [tab EXCEPT ![b] = u] /\ UNCHANGED <<mainTurn, saved, unsent>>
  <2>1. tab' = [tab EXCEPT ![b] = [Hear(tab[b], Head(tab[b].queue)) EXCEPT !.queue = Tail(@)]]
    BY DEF Deliver
  <2> QED BY <2>1, <1>1 DEF Deliver
<1> QED BY <1>4, <1>5, OneTabKeeps

LEMMA FetchKeeps ==
  ASSUME StreamInv, NEW b \in Tabs,
         ReadMessages(b) \/ ReadCards(b) \/ ApplyFullState(b) \/ FetchFails(b)
  PROVE  StreamInv'
<1>1. PICK t \in TabRow : t = tab[b]
  BY DEF StreamInv, StreamTypeOK
<1>2. TabInv(t, mainTurn, saved, unsent) /\ mainTurn \in TurnRow /\ saved \subseteq Items
  BY <1>1 DEF StreamInv, StreamTypeOK
<1>3. t.fetch \in Fetch /\ t.fetch.items \subseteq Items
  BY DEF TabRow, Fetch
<1>4. UNCHANGED <<mainTurn, saved, unsent>>
  BY DEF ReadMessages, ReadCards, ApplyFullState, FetchFails
<1>5. CASE ReadMessages(b)
  <2>1. [step |-> "messages", items |-> saved \cap Answers] \in Fetch
    BY <1>2 DEF Fetch
  <2>2. PICK f \in Fetch : f = [step |-> "messages", items |-> saved \cap Answers]
    BY <2>1
  <2>3. PICK u \in TabRow : u = [t EXCEPT !.fetch = f]
    BY DEF TabRow
  <2>4. f.step = "messages" /\ f.items = saved \cap Answers
    BY <2>2
  <2>5. /\ u.open = t.open /\ u.queue = t.queue /\ u.at = t.at /\ u.joined = t.joined /\ u.fetch = f
        /\ u.text = t.text /\ u.taken = t.taken /\ u.shown = t.shown /\ u.seen = t.seen /\ u.missed = t.missed
    BY <2>3 DEF TabRow
  <2>6. t.fetch.step = "asked" /\ tab' = [tab EXCEPT ![b] = u]
    BY <1>1, <1>5, <2>2, <2>3 DEF ReadMessages
  <2>7. TabInv(u, mainTurn, saved, unsent)
    BY <1>2, <2>4, <2>5, <2>6, TabFetches
  <2> QED BY <1>4, <2>6, <2>7, OneTabKeeps
<1>6. CASE ReadCards(b)
  <2>1. [step |-> "read", items |-> t.fetch.items \cup (saved \cap CanvasCards)] \in Fetch
    BY <1>2, <1>3 DEF Fetch
  <2>2. PICK f \in Fetch : f = [step |-> "read", items |-> t.fetch.items \cup (saved \cap CanvasCards)]
    BY <2>1
  <2>3. PICK u \in TabRow : u = [t EXCEPT !.fetch = f]
    BY DEF TabRow
  <2>4. f.step = "read" /\ f.items = t.fetch.items \cup (saved \cap CanvasCards)
    BY <2>2
  <2>5. /\ u.open = t.open /\ u.queue = t.queue /\ u.at = t.at /\ u.joined = t.joined /\ u.fetch = f
        /\ u.text = t.text /\ u.taken = t.taken /\ u.shown = t.shown /\ u.seen = t.seen /\ u.missed = t.missed
    BY <2>3 DEF TabRow
  <2>6. t.fetch.step = "messages" /\ tab' = [tab EXCEPT ![b] = u]
    BY <1>1, <1>6, <2>2, <2>3 DEF ReadCards
  <2>7. TabInv(u, mainTurn, saved, unsent)
    BY <1>2, <2>4, <2>5, <2>6, TabFetches
  <2> QED BY <1>4, <2>6, <2>7, OneTabKeeps
<1>7. NoFetch \in Fetch
  BY DEF NoFetch, Fetch
<1>8. CASE ApplyFullState(b)
  <2>1. <<>> \in Seq(Nat) /\ t.seen \cup t.fetch.items \in SUBSET Items
    BY <1>3, EmptySeq DEF TabRow
  <2>2. PICK u \in TabRow : u = [t EXCEPT !.shown = t.fetch.items, !.seen = @ \cup t.fetch.items,
                                          !.text = <<>>, !.taken = @ + Len(t.text), !.fetch = NoFetch]
    <3> DEFINE taken == t.taken + Len(t.text)
    <3>1. taken \in Nat
      BY LenProperties DEF TabRow
    <3> HIDE DEF Fetch, Event, Heard, NoFetch, taken
    <3>2. [t EXCEPT !.shown = t.fetch.items, !.seen = @ \cup t.fetch.items,
                    !.text = <<>>, !.taken = taken, !.fetch = NoFetch] \in TabRow
      BY <1>3, <1>7, <2>1, <3>1 DEF TabRow
    <3> QED BY <3>2 DEF taken
  <2>3. /\ u.open = t.open /\ u.queue = t.queue /\ u.at = t.at /\ u.joined = t.joined /\ u.fetch = NoFetch
        /\ u.text = <<>> /\ u.taken = t.taken + Len(t.text) /\ u.shown = t.fetch.items /\ u.seen = t.seen \cup t.fetch.items
        /\ u.missed = t.missed
    BY <2>2 DEF TabRow
  <2>4. t.fetch.step = "read" /\ tab' = [tab EXCEPT ![b] = u]
    <3>1. tab' = [tab EXCEPT ![b] = [tab[b] EXCEPT !.shown = tab[b].fetch.items,
                                                   !.seen = @ \cup tab[b].fetch.items,
                                                   !.text = <<>>, !.taken = @ + Len(tab[b].text),
                                                   !.fetch = NoFetch]]
      BY <1>8 DEF ApplyFullState
    <3> QED BY <3>1, <1>1, <1>8, <2>2 DEF ApplyFullState
  <2>5. TabInv(u, mainTurn, saved, unsent)
    BY <1>2, <2>3, <2>4, TabFetches
  <2> QED BY <1>4, <2>4, <2>5, OneTabKeeps
<1>9. CASE FetchFails(b)
  <2>1. PICK u \in TabRow : u = [t EXCEPT !.fetch = NoFetch, !.missed = TRUE]
    BY <1>7 DEF TabRow
  <2>2. /\ u.open = t.open /\ u.queue = t.queue /\ u.at = t.at /\ u.joined = t.joined /\ u.fetch = NoFetch
        /\ u.text = t.text /\ u.taken = t.taken /\ u.shown = t.shown /\ u.missed
    BY <2>1 DEF TabRow
  <2>3. tab' = [tab EXCEPT ![b] = u]
    BY <1>1, <1>9, <2>1 DEF FetchFails
  <2>4. TabInv(u, mainTurn, saved, unsent)
    BY <1>2, <2>2, TabFetches
  <2> QED BY <1>4, <2>3, <2>4, OneTabKeeps
<1> QED BY <1>5, <1>6, <1>8, <1>9

LEMMA StreamStep == StreamInv /\ [StreamNext]_streamVars => StreamInv'
<1> SUFFICES ASSUME StreamInv, [StreamNext]_streamVars PROVE StreamInv'
  OBVIOUS
<1>1. CASE UNCHANGED streamVars
  BY <1>1 DEF streamVars, StreamInv, StreamTypeOK
<1>2. CASE Unsubscribe
  BY <1>2 DEF Unsubscribe, StreamInv, StreamTypeOK
<1>3. CASE BeginTurn \/ SendPiece \/ StoreReply \/ TellDone \/ TellStatus
  BY <1>3, BeginKeeps, PiecesKeep, ReplyKeeps, DoneKeeps, StatusKeeps
<1>4. CASE \E c \in CanvasCards : StoreCard(c) \/ EmitCard(c)
  BY <1>4, CardsKeep
<1>5. CASE RestartServer
  BY <1>5, RestartKeeps
<1>6. CASE \E b \in Tabs : \/ Open(b) \/ Close(b) \/ Deliver(b)
                           \/ ReadMessages(b) \/ ReadCards(b) \/ ApplyFullState(b) \/ FetchFails(b)
  BY <1>6, OpenKeeps, CloseKeeps, DeliverKeeps, FetchKeeps
<1> QED BY <1>1, <1>2, <1>3, <1>4, <1>5, <1>6 DEF StreamNext

\* A stored item never falls between the answer of a request and the live
\* events, and no tab shows what a reload would lose, for any tabs, cards, turns,
\* pieces and lengths of a queue (present_tool, emit_chat_done, useConversationSSE).
THEOREM NothingIsLostBetween == EventSpec => []NothingFallsBetween
<1>1. StreamInv => NothingFallsBetween
  <2> SUFFICES ASSUME StreamInv, NEW b \in Tabs
               PROVE  /\ tab[b].shown \subseteq saved
                      /\ tab[b].open /\ ~tab[b].missed =>
                            \A i \in saved \ (tab[b].seen \cup OnTheWay(b)) :
                               \/ i \in unsent
                               \/ i \in Answers /\ mainTurn.step \in {"stored", "told"} /\ i = <<mainTurn.no>>
                               \/ \E k \in DOMAIN tab[b].queue : tab[b].queue[k].type = "failed"
                               \/ tab[b].fetch.step = "asked"
                               \/ tab[b].fetch.step = "messages" /\ i \in CanvasCards
                               \/ i = <<tab[b].joined>>
    BY DEF NothingFallsBetween
  <2>1. PICK t \in TabRow : t = tab[b]
    BY DEF StreamInv, StreamTypeOK
  <2>2. TabInv(t, mainTurn, saved, unsent) /\ TurnKept(mainTurn, saved)
    BY <2>1 DEF StreamInv
  <2>3. DOMAIN t.queue = 1 .. Len(t.queue)
    BY LenProperties DEF TabRow
  <2>4. t.shown \subseteq saved
    BY <2>2 DEF TabInv, ShowsStored
  <2>5. ASSUME t.open, ~t.missed, NEW i \in saved, i \notin t.seen, i \notin OnTheWay(b)
        PROVE  \/ i \in unsent
               \/ i \in Answers /\ mainTurn.step \in {"stored", "told"} /\ i = <<mainTurn.no>>
               \/ \E k \in DOMAIN t.queue : t.queue[k].type = "failed"
               \/ t.fetch.step = "asked"
               \/ t.fetch.step = "messages" /\ i \in CanvasCards
               \/ i = <<t.joined>>
    <3>1. Coming(t, mainTurn, unsent, i)
      BY <2>2, <2>5 DEF TabInv, KeepsUp
    <3>2. i \notin t.fetch.items /\ \A k \in DOMAIN t.queue : i \notin t.queue[k].full
      <4>1. OnTheWay(b) = (UNION {t.queue[k].full : k \in DOMAIN t.queue}) \cup t.fetch.items
        BY <2>1 DEF OnTheWay
      <4>2. ASSUME NEW k \in DOMAIN t.queue PROVE t.queue[k].full \subseteq OnTheWay(b)
        <5> DEFINE fulls == {t.queue[j].full : j \in DOMAIN t.queue}
        <5>1. t.queue[k].full \in fulls
          OBVIOUS
        <5>2. t.queue[k].full \subseteq UNION fulls
          <6> HIDE DEF fulls
          <6> QED BY <5>1
        <5> QED BY <4>1, <5>2
      <4>3. t.fetch.items \subseteq OnTheWay(b)
        BY <4>1
      <4> QED BY <4>2, <4>3, <2>5
    <3>3. Untold(mainTurn, i) => i \in Answers /\ mainTurn.step \in {"stored", "told"} /\ i = <<mainTurn.no>>
      BY <2>2 DEF Untold, TurnKept, Answers
    <3> QED BY <3>1, <3>2, <3>3, <2>3, <2>5 DEF Coming
  <2> QED BY <2>1, <2>4, <2>5
<1> QED BY <1>1, StreamInitInv, StreamStep, PTL DEF EventSpec

\* The text of a turn on the screen is a run of its pieces that lacks at most the
\* head a full state has taken away, whatever was dropped and however often the
\* tab reconnects (useConversationSSE, applyFullState).
THEOREM PreviewStaysContiguous == EventSpec => []PreviewIsContiguous
<1>1. StreamInv => PreviewIsContiguous
  <2> SUFFICES ASSUME StreamInv, NEW b \in Tabs
               PROVE  \A i \in DOMAIN tab[b].text : tab[b].text[i] = tab[b].taken + i
    BY DEF PreviewIsContiguous
  <2>1. PICK t \in TabRow : t = tab[b]
    BY DEF StreamInv, StreamTypeOK
  <2>2. Run(t.text, t.taken)
    BY <2>1 DEF StreamInv, TabInv, TextFits
  <2>3. DOMAIN t.text = 1 .. Len(t.text)
    BY LenProperties DEF TabRow
  <2> QED BY <2>1, <2>2, <2>3 DEF Run
<1> QED BY <1>1, StreamInitInv, StreamStep, PTL DEF EventSpec
===============================================================================
