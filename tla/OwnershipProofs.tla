--------------------------- MODULE OwnershipProofs ----------------------------
(***************************************************************************)
(* Theorems about what belongs to whom.                                    *)
(*   ConversationLife: any groups and requests, and any bound on turns,    *)
(*   events and rows.                                                      *)
(*   Identity: any people, rows, seed and sessions.                        *)
(***************************************************************************)
EXTENDS ConversationLife, Identity, FiniteSetTheorems, TLAPS

-------------------------------------------------------------------------------
(* ConversationLife                                                          *)

GroupIds  == Groups \cup {NoGroup}
ReadFirst == {"group", "provider", "delete", "chat"}
Wishes    == ReadFirst \cup {"create", "none"}
Unstarted == {"idle", "read", "group", "insert", "answered"}
CallRow   == {k \in [pc : Unstarted \cup {"running", "update", "pend", "rows", "row", "write"},
                     what : Wishes, group : GroupIds, doomed : SUBSET Nat] :
                 k.pc = "read" => k.what \in ReadFirst}
RowRecord == [n : Nat, kind : {"message", "active", "ended", "pending", "decided"},
              attached : BOOLEAN, home : BOOLEAN]
InTurn    == {"connect", "stream", "session", "answer", "status"}
TurnRow   == [pc : {"idle"} \cup InTurn, number : 0 .. MaxTurns, expected : 0 .. MaxTurns,
              id : 0 .. MaxTurns, good : BOOLEAN]
ConvRow   == [there : {"never", "stands", "gone"}, status : {"idle", "running", "failed"},
              group : GroupIds, session : 0 .. MaxTurns]

LifeTypeOK ==
    /\ groups \in [Groups -> {"absent", "ours", "elsewhere"}]
    /\ conv \in ConvRow
    /\ rows \subseteq RowRecord
    /\ written \in Nat
    /\ call \in [Callers -> CallRow]
    /\ events \in Nat
    /\ turn \in TurnRow
    /\ memory \in [1 .. MaxTurns -> Nat]
    /\ heard \in Nat

\* Before the conversation is there nothing is: no row, no event, no turn, and
\* no request that got past the reading of it.
NothingBefore ==
    /\ conv.there = "never" =>
          /\ rows = {} /\ events = 0 /\ turn.pc = "idle"
          /\ conv.group = NoGroup /\ conv.session = NoSession
          /\ \A c \in Callers : /\ call[c].pc \in Unstarted
                                /\ call[c].pc = "group" => call[c].what = "create"

\* The two halves of RowsFollowTheCase.
GroupPart == conv.group # NoGroup => Stands /\ conv.group \in Ours
RowsPart  == \A r \in rows : (r.attached <=> Stands) /\ (~r.home => conv.there = "gone")

\* The stored session is one the turn began with, or the one it ended with, and
\* what that session remembers is the newest there is.
SessionFacts ==
    /\ heard <= turn.number
    /\ turn.pc \in {"session", "answer"} => turn.id # NoSession /\ memory[turn.id] = turn.number
    /\ Stands => /\ turn.pc = "connect" => conv.session = turn.expected
                 /\ turn.pc \in {"stream", "session"} => conv.session \in {turn.expected, NoSession}
                 /\ turn.pc = "answer" => conv.session \in {turn.id, NoSession}

LifeInv ==
    /\ LifeTypeOK
    /\ NothingBefore
    /\ GroupPart
    /\ RowsPart
    /\ SessionFacts
    /\ AnswerIsRemembered

-------------------------------------------------------------------------------

LEMMA LifeStarts == LifeInit => LifeInv
<1> SUFFICES ASSUME LifeInit PROVE LifeInv
  OBVIOUS
<1>1. /\ Idle \in CallRow /\ Idle.pc = "idle"
      /\ NoTurn \in TurnRow /\ NoTurn.pc = "idle" /\ NoTurn.number = 0
  BY LifeAssumption DEF Idle, CallRow, GroupIds, Wishes, Unstarted, NoTurn, TurnRow, NoSession
<1>2. /\ conv \in ConvRow /\ conv.there \in {"never", "stands"}
      /\ conv.group = NoGroup /\ conv.session = NoSession
  BY LifeAssumption DEF LifeInit, ConvRow, GroupIds, NoSession
<1>3. LifeTypeOK
  BY <1>1, <1>2 DEF LifeInit, LifeTypeOK
<1>4. NothingBefore /\ GroupPart /\ RowsPart
  BY <1>1, <1>2 DEF LifeInit, NothingBefore, GroupPart, RowsPart, Unstarted
<1>5. SessionFacts /\ AnswerIsRemembered
  BY <1>1, <1>2 DEF LifeInit, SessionFacts, AnswerIsRemembered
<1> QED BY <1>3, <1>4, <1>5 DEF LifeInv

-------------------------------------------------------------------------------
(* Steps that change a request only *)

Requested(k) == /\ k \in CallRow
                /\ conv.there = "never" => /\ k.pc \in Unstarted
                                           /\ k.pc = "group" => k.what = "create"

LEMMA CallKeeps ==
  ASSUME LifeInv, NEW c \in Callers, NEW k, Requested(k), call' = [call EXCEPT ![c] = k]
  PROVE  /\ call' \in [Callers -> CallRow]
         /\ conv.there = "never" => \A d \in Callers : /\ call'[d].pc \in Unstarted
                                                       /\ call'[d].pc = "group" => call'[d].what = "create"
BY DEF LifeInv, LifeTypeOK, NothingBefore, Requested

LEMMA RequestKeeps ==
  ASSUME LifeInv, NEW c \in Callers, NEW k, Requested(k), call' = [call EXCEPT ![c] = k],
         UNCHANGED <<groups, conv, rows, written, events, turn, memory, heard>>
  PROVE  LifeInv'
<1>1. LifeTypeOK'
  BY CallKeeps DEF LifeInv, LifeTypeOK
<1>2. NothingBefore'
  BY CallKeeps DEF LifeInv, NothingBefore
<1>3. GroupPart' /\ RowsPart' /\ SessionFacts' /\ AnswerIsRemembered'
  BY DEF LifeInv, GroupPart, RowsPart, SessionFacts, AnswerIsRemembered, Stands, Ours
<1> QED BY <1>1, <1>2, <1>3 DEF LifeInv

LEMMA Answering ==
  ASSUME NEW c \in Callers, Answer(c)
  PROVE  \E k : Requested(k) /\ call' = [call EXCEPT ![c] = k]
<1> DEFINE k == [Idle EXCEPT !.pc = "answered"]
<1>1. k \in CallRow /\ k.pc = "answered"
  BY DEF Idle, CallRow, GroupIds, Wishes, Unstarted
<1> QED BY <1>1 DEF Answer, Requested, Unstarted

LEMMA Advancing ==
  ASSUME LifeInv, NEW c \in Callers,
         NEW p \in Unstarted \cup {"running", "update", "pend", "rows", "row", "write"}, p # "read", Advance(c, p),
         conv.there = "never" => p \in Unstarted /\ p # "group"
  PROVE  \E k : Requested(k) /\ call' = [call EXCEPT ![c] = k]
<1> DEFINE k == [call[c] EXCEPT !.pc = p]
<1>1. k \in CallRow /\ k.pc = p
  BY DEF LifeInv, LifeTypeOK, CallRow
<1> QED BY <1>1 DEF Advance, Requested

LEMMA AskKeeps ==
  ASSUME LifeInv, NEW c \in Callers, NEW what \in Wishes \ {"none"}, NEW g \in GroupIds, Ask(c, what, g)
  PROVE  LifeInv'
<1> DEFINE k == [pc |-> IF what = "create" THEN "group" ELSE "read",
                 what |-> what, group |-> g, doomed |-> {}]
<1>1. k \in CallRow /\ k.pc \in Unstarted /\ (k.pc = "group" => k.what = "create")
  BY DEF CallRow, Unstarted, Wishes, ReadFirst
<1>2. Requested(k)
  BY <1>1 DEF Requested
<1> QED BY <1>2, RequestKeeps DEF Ask

LEMMA ReadConversationKeeps ==
  ASSUME LifeInv, NEW c \in Callers, ReadConversation(c)
  PROVE  LifeInv'
<1>1. CASE Stands /\ Advance(c, Checks(call[c].what))
  <2>1. Stands => conv.there # "never"
    BY DEF Stands
  <2>2. call[c].what \in ReadFirst
    BY DEF ReadConversation, LifeInv, LifeTypeOK, CallRow
  <2>3. Checks(call[c].what) \in {"running", "group", "write"}
    BY <2>2 DEF Checks, ReadFirst
  <2> QED BY <1>1, <2>1, <2>3, Advancing, RequestKeeps DEF ReadConversation, Unstarted
<1>2. CASE Answer(c)
  BY <1>2, Answering, RequestKeeps DEF ReadConversation
<1> QED BY <1>1, <1>2 DEF ReadConversation

\* A request that got past the reading met a conversation.
LEMMA Begun ==
  ASSUME LifeInv, NEW c \in Callers, call[c].pc \notin Unstarted
  PROVE  conv.there # "never"
BY DEF LifeInv, NothingBefore

LEMMA CheckKeeps ==
  ASSUME LifeInv, NEW c \in Callers, CheckRunning(c) \/ CheckPending(c)
  PROVE  LifeInv'
<1>1. conv.there # "never"
  BY Begun DEF CheckRunning, CheckPending, Unstarted
<1>2. CASE Answer(c)
  BY <1>2, Answering, RequestKeeps DEF CheckRunning, CheckPending
<1>3. CASE Advance(c, "pend") \/ Advance(c, "update") \/ Advance(c, "rows")
  BY <1>1, <1>3, Advancing, RequestKeeps DEF CheckRunning, CheckPending
<1> QED BY <1>2, <1>3 DEF CheckRunning, CheckPending

LEMMA CheckGroupKeeps ==
  ASSUME LifeInv, NEW c \in Callers, CheckGroup(c)
  PROVE  LifeInv'
<1>1. CASE Answer(c)
  BY <1>1, Answering, RequestKeeps DEF CheckGroup
<1>2. CASE call[c].what = "create" /\ Advance(c, "insert")
  BY <1>2, Advancing, RequestKeeps DEF CheckGroup, Unstarted
<1>3. CASE call[c].what # "create" /\ Advance(c, "update")
  <2>1. conv.there # "never"
    BY <1>3 DEF CheckGroup, LifeInv, NothingBefore
  <2> QED BY <1>3, <2>1, Advancing, RequestKeeps DEF CheckGroup
<1> QED BY <1>1, <1>2, <1>3 DEF CheckGroup

LEMMA DeleteRowsKeeps ==
  ASSUME LifeInv, NEW c \in Callers, DeleteRows(c)
  PROVE  LifeInv'
<1> DEFINE doomed == {r.n : r \in {r \in rows : r.kind \in Erased}}
           k == [call[c] EXCEPT !.pc = "row", !.doomed = doomed]
<1>1. doomed \in SUBSET Nat
  BY DEF LifeInv, LifeTypeOK, RowRecord
<1>2. call' = [call EXCEPT ![c] = k]
  BY DEF DeleteRows
<1> HIDE DEF doomed
<1>3. k \in CallRow
  BY <1>1 DEF LifeInv, LifeTypeOK, CallRow
<1>4. Requested(k)
  BY <1>3, Begun DEF DeleteRows, Requested, Unstarted
<1> QED BY <1>2, <1>4, RequestKeeps DEF DeleteRows

LEMMA FailCallKeeps ==
  ASSUME LifeInv, NEW c \in Callers, FailCall(c)
  PROVE  LifeInv'
BY Answering, RequestKeeps DEF FailCall

-------------------------------------------------------------------------------
(* Steps that change the conversation or its rows *)

\* The types of what a conversation has beside the turn, when it gets new values.
LEMMA InsertConversationKeeps ==
  ASSUME LifeInv, NEW c \in Callers, InsertConversation(c)
  PROVE  LifeInv'
<1>1. PICK k : Requested(k) /\ call' = [call EXCEPT ![c] = k]
  BY Answering DEF InsertConversation
<1>2. CASE MayJoin(call[c].group)
  <2>1. /\ conv' \in ConvRow /\ conv'.there = "stands" /\ conv'.session = conv.session
        /\ conv'.group = call[c].group
    BY <1>2 DEF InsertConversation, LifeInv, LifeTypeOK, ConvRow, CallRow
  <2>2. LifeTypeOK'
    BY <1>1, <2>1, CallKeeps DEF InsertConversation, LifeInv, LifeTypeOK
  <2>3. NothingBefore' /\ GroupPart'
    BY <1>2, <2>1 DEF InsertConversation, NothingBefore, GroupPart, MayJoin, Stands, Ours
  <2>4. RowsPart' /\ SessionFacts' /\ AnswerIsRemembered'
    BY <2>1 DEF InsertConversation, LifeInv, NothingBefore, RowsPart, SessionFacts, AnswerIsRemembered, Stands
  <2> QED BY <2>2, <2>3, <2>4 DEF LifeInv
<1>3. CASE ~MayJoin(call[c].group)
  BY <1>1, <1>3, RequestKeeps DEF InsertConversation
<1> QED BY <1>2, <1>3

LEMMA UpdateConversationKeeps ==
  ASSUME LifeInv, NEW c \in Callers, UpdateConversation(c)
  PROVE  LifeInv'
<1>1. PICK k : Requested(k) /\ call' = [call EXCEPT ![c] = k]
  BY Answering DEF UpdateConversation
<1>2. CASE Stands /\ call[c].what = "group" /\ MayJoin(call[c].group)
  <2>1. /\ conv' \in ConvRow /\ conv'.there = "stands" /\ conv'.session = conv.session
        /\ conv'.group = call[c].group /\ conv.there = "stands"
    BY <1>2 DEF UpdateConversation, LifeInv, LifeTypeOK, ConvRow, CallRow, Stands
  <2>2. LifeTypeOK'
    BY <1>1, <2>1, CallKeeps DEF UpdateConversation, LifeInv, LifeTypeOK
  <2>3. NothingBefore' /\ GroupPart'
    BY <1>2, <2>1 DEF UpdateConversation, NothingBefore, GroupPart, MayJoin, Stands, Ours
  <2>4. RowsPart' /\ SessionFacts' /\ AnswerIsRemembered'
    BY <2>1 DEF UpdateConversation, LifeInv, RowsPart, SessionFacts, AnswerIsRemembered, Stands
  <2> QED BY <2>2, <2>3, <2>4 DEF LifeInv
<1>3. CASE ~(Stands /\ call[c].what = "group" /\ MayJoin(call[c].group))
  BY <1>1, <1>3, RequestKeeps DEF UpdateConversation
<1> QED BY <1>2, <1>3

LEMMA DeleteConversationKeeps ==
  ASSUME LifeInv, NEW c \in Callers, DeleteConversation(c)
  PROVE  LifeInv'
<1>1. PICK k : Requested(k) /\ call' = [call EXCEPT ![c] = k]
  BY Answering DEF DeleteConversation
<1>2. conv' \in ConvRow /\ conv'.there = "gone" /\ conv'.group = NoGroup
  BY DEF DeleteConversation, LifeInv, LifeTypeOK, ConvRow, GroupIds
<1>3. rows' \subseteq RowRecord /\ \A r \in rows' : ~r.attached
  BY DEF DeleteConversation, LifeInv, LifeTypeOK, RowRecord
<1>4. LifeTypeOK'
  BY <1>1, <1>2, <1>3, CallKeeps DEF DeleteConversation, LifeInv, LifeTypeOK
<1>5. NothingBefore' /\ GroupPart' /\ RowsPart'
  BY <1>2, <1>3 DEF NothingBefore, GroupPart, RowsPart, Stands
<1>6. SessionFacts' /\ AnswerIsRemembered'
  BY <1>2 DEF DeleteConversation, LifeInv, SessionFacts, AnswerIsRemembered, Stands
<1> QED BY <1>4, <1>5, <1>6 DEF LifeInv

\* A row that is written while the conversation has been begun.
LEMMA Written ==
  ASSUME LifeInv, conv.there # "never", NEW kind \in {"message", "active", "pending"}, Write(kind)
  PROVE  /\ rows' \subseteq RowRecord /\ written' \in Nat
         /\ \A r \in rows' : (r.attached <=> Stands) /\ (~r.home => conv.there = "gone")
<1>1. Row(kind) \in RowRecord
  BY DEF LifeInv, LifeTypeOK, Row, RowRecord, Stands
<1>2. Row(kind).attached = Stands /\ Row(kind).home = Stands
  BY DEF Row
<1>3. ~Stands => conv.there = "gone"
  BY DEF LifeInv, LifeTypeOK, ConvRow, Stands
<1> HIDE DEF Row
<1> QED BY <1>1, <1>2, <1>3 DEF LifeInv, LifeTypeOK, RowsPart, Write

LEMMA Raising == ASSUME LifeInv PROVE Raised \in Nat
BY DEF LifeInv, LifeTypeOK, Raised

LEMMA WriteMessageKeeps ==
  ASSUME LifeInv, NEW c \in Callers, WriteMessage(c)
  PROVE  LifeInv'
<1>1. PICK k : Requested(k) /\ call' = [call EXCEPT ![c] = k]
  BY Answering DEF WriteMessage
<1>2. conv.there # "never" /\ conv' = conv
  BY Begun DEF WriteMessage, Unstarted
<1>3. /\ rows' \subseteq RowRecord /\ written' \in Nat
      /\ \A r \in rows' : (r.attached <=> Stands) /\ (~r.home => conv.there = "gone")
  BY <1>2, Written DEF WriteMessage
<1>4. LifeTypeOK'
  <2>1. call' \in [Callers -> CallRow] /\ events' \in Nat
    BY <1>1, CallKeeps, Raising DEF WriteMessage
  <2> QED BY <1>3, <2>1 DEF WriteMessage, LifeInv, LifeTypeOK
<1>5. NothingBefore' /\ RowsPart'
  BY <1>2, <1>3 DEF NothingBefore, RowsPart, Stands
<1>6. GroupPart' /\ SessionFacts' /\ AnswerIsRemembered'
  BY DEF WriteMessage, LifeInv, GroupPart, SessionFacts, AnswerIsRemembered, Stands, Ours
<1> QED BY <1>4, <1>5, <1>6 DEF LifeInv

-------------------------------------------------------------------------------
(* The turn *)

LEMMA TurnBegun ==
  ASSUME LifeInv, turn.pc # "idle"
  PROVE  conv.there # "never"
BY DEF LifeInv, NothingBefore

LEMMA TurnTypes ==
  ASSUME LifeInv
  PROVE  /\ turn \in TurnRow /\ conv \in ConvRow
         /\ turn.number \in 0 .. MaxTurns /\ turn.expected \in 0 .. MaxTurns
         /\ turn.id \in 0 .. MaxTurns /\ conv.session \in 0 .. MaxTurns
         /\ heard \in Nat /\ MaxTurns \in Nat /\ NoSession = 0
BY LifeAssumption DEF LifeInv, LifeTypeOK, TurnRow, ConvRow, NoSession

\* A step of the turn after which the conversation differs in status or session
\* only, and is there as before.
LEMMA TurnKeeps ==
  ASSUME LifeInv, conv.there # "never",
         conv' \in ConvRow, conv'.there = conv.there, conv'.group = conv.group,
         turn' \in TurnRow, memory' \in [1 .. MaxTurns -> Nat], heard' \in Nat, events' \in Nat,
         rows' \subseteq RowRecord, written' \in Nat,
         \A r \in rows' : (r.attached <=> Stands) /\ (~r.home => conv.there = "gone"),
         UNCHANGED <<groups, call>>, SessionFacts', AnswerIsRemembered'
  PROVE  LifeInv'
<1>1. LifeTypeOK'
  BY DEF LifeInv, LifeTypeOK
<1>2. NothingBefore' /\ GroupPart' /\ RowsPart'
  BY DEF LifeInv, NothingBefore, GroupPart, RowsPart, Stands, Ours
<1> QED BY <1>1, <1>2 DEF LifeInv

LEMMA RowsStay ==
  ASSUME LifeInv, UNCHANGED <<rows, written>>
  PROVE  /\ rows' \subseteq RowRecord /\ written' \in Nat
         /\ \A r \in rows' : (r.attached <=> Stands) /\ (~r.home => conv.there = "gone")
BY DEF LifeInv, LifeTypeOK, RowsPart

LEMMA StartTurnKeeps == ASSUME LifeInv, StartTurn PROVE LifeInv'
<1>1. conv.there # "never"
  BY DEF StartTurn, LifeInv, NothingBefore
<1>2. /\ conv' \in ConvRow /\ conv'.there = conv.there /\ conv'.group = conv.group
      /\ conv'.session = conv.session
  BY TurnTypes DEF StartTurn, ConvRow
<1>3. /\ turn' \in TurnRow /\ turn'.pc = "connect" /\ turn'.number = turn.number + 1
      /\ Stands => turn'.expected = conv.session
  <2> DEFINE e == IF Stands THEN conv.session ELSE NoSession
             t == [pc |-> "connect", number |-> turn.number + 1, expected |-> e,
                   id |-> NoSession, good |-> TRUE]
  <2>1. turn' = t
    BY DEF StartTurn, NoTurn
  <2>2. turn.number + 1 \in 0 .. MaxTurns /\ e \in 0 .. MaxTurns /\ NoSession \in 0 .. MaxTurns
    BY TurnTypes DEF StartTurn
  <2> HIDE DEF e
  <2>3. t \in TurnRow /\ t.pc = "connect" /\ t.number = turn.number + 1 /\ t.expected = e
    BY <2>2 DEF TurnRow, InTurn
  <2> QED BY <2>1, <2>3 DEF e
<1>4. SessionFacts'
  BY <1>2, <1>3, TurnTypes DEF StartTurn, LifeInv, SessionFacts, Stands
<1>5. AnswerIsRemembered'
  BY <1>2 DEF StartTurn, LifeInv, AnswerIsRemembered, Stands
<1>6. events' \in Nat
  BY DEF StartTurn, LifeInv, LifeTypeOK
<1> QED BY <1>1, <1>2, <1>3, <1>4, <1>5, <1>6, RowsStay, TurnKeeps DEF StartTurn, LifeInv, LifeTypeOK

LEMMA ConnectKeeps == ASSUME LifeInv, Connect PROVE LifeInv'
<1>1. conv.there # "never"
  BY TurnBegun DEF Connect
<1>2. /\ conv' \in ConvRow /\ conv'.there = conv.there /\ conv'.group = conv.group
      /\ conv'.session \in {conv.session, NoSession}
  BY TurnTypes DEF Connect, ConvRow
<1>3. /\ turn' \in TurnRow /\ turn'.pc = "stream" /\ turn'.number = turn.number
      /\ turn'.expected = turn.expected
  <2>1. turn' \in {[turn EXCEPT !.pc = "stream", !.id = i] : i \in {turn.expected, NoSession}}
    BY DEF Connect
  <2>2. turn.expected \in 0 .. MaxTurns /\ NoSession \in 0 .. MaxTurns
    BY TurnTypes
  <2> QED BY <2>1, <2>2, TurnTypes DEF TurnRow, InTurn
<1>4. SessionFacts'
  BY <1>2, <1>3, TurnTypes DEF Connect, LifeInv, SessionFacts, Stands
<1>5. AnswerIsRemembered'
  BY <1>2 DEF Connect, LifeInv, AnswerIsRemembered, Stands
<1> QED BY <1>1, <1>2, <1>3, <1>4, <1>5, RowsStay, TurnKeeps DEF Connect, LifeInv, LifeTypeOK

LEMMA CallToolKeeps == ASSUME LifeInv, NEW kind \in {"active", "pending"}, CallTool(kind) PROVE LifeInv'
<1>1. conv.there # "never"
  BY TurnBegun DEF CallTool
<1>2. /\ rows' \subseteq RowRecord /\ written' \in Nat
      /\ \A r \in rows' : (r.attached <=> Stands) /\ (~r.home => conv.there = "gone")
  BY <1>1, Written DEF CallTool
<1>3. SessionFacts' /\ AnswerIsRemembered'
  BY DEF CallTool, LifeInv, SessionFacts, AnswerIsRemembered, Stands
<1> QED BY <1>1, <1>2, <1>3, TurnTypes, TurnKeeps DEF CallTool, LifeInv, LifeTypeOK

LEMMA EndStreamKeeps ==
  ASSUME LifeInv, NEW id \in 1 .. MaxTurns, NEW good \in BOOLEAN, EndStream(id, good)
  PROVE  LifeInv'
<1>1. conv.there # "never"
  BY TurnBegun DEF EndStream
<1>2. /\ turn' \in TurnRow /\ turn'.pc = "session" /\ turn'.number = turn.number
      /\ turn'.expected = turn.expected /\ turn'.id = id
  BY TurnTypes DEF EndStream, TurnRow, InTurn
<1>3. /\ memory' \in [1 .. MaxTurns -> Nat] /\ memory'[id] = turn.number
      /\ \A i \in 1 .. MaxTurns : memory'[i] = memory[i] \/ memory'[i] = turn.number
  BY TurnTypes DEF EndStream, LifeInv, LifeTypeOK
<1>4. SessionFacts'
  BY <1>2, <1>3, TurnTypes DEF EndStream, LifeInv, SessionFacts, Stands
<1>5. AnswerIsRemembered'
  <2> SUFFICES ASSUME Stands, conv.session # NoSession PROVE memory'[conv.session] >= heard
    BY DEF EndStream, AnswerIsRemembered, Stands
  <2>1. conv.session \in 1 .. MaxTurns /\ memory[conv.session] >= heard
    BY TurnTypes DEF LifeInv, AnswerIsRemembered
  <2>2. turn.number >= heard
    BY TurnTypes DEF LifeInv, SessionFacts
  <2> QED BY <1>3, <2>1, <2>2
<1> QED BY <1>1, <1>2, <1>3, <1>4, <1>5, TurnTypes, RowsStay, TurnKeeps DEF EndStream, LifeInv, LifeTypeOK

LEMMA StoreSessionKeeps == ASSUME LifeInv, StoreSession PROVE LifeInv'
<1>1. conv.there # "never"
  BY TurnBegun DEF StoreSession
<1>2. /\ conv' \in ConvRow /\ conv'.there = conv.there /\ conv'.group = conv.group
      /\ Stands => conv'.session \in {turn.id, NoSession}
  <2>1. CASE Stands /\ turn.id # turn.expected
    BY <2>1, TurnTypes DEF StoreSession, ConvRow
  <2>2. CASE ~(Stands /\ turn.id # turn.expected)
    BY <2>2, TurnTypes DEF StoreSession, LifeInv, SessionFacts
  <2> QED BY <2>1, <2>2
<1>3. /\ turn' \in TurnRow /\ turn'.pc = "answer" /\ turn'.number = turn.number /\ turn'.id = turn.id
  BY TurnTypes DEF StoreSession, TurnRow, InTurn
<1>4. turn.id # NoSession /\ memory[turn.id] = turn.number /\ turn.number >= heard
  BY TurnTypes DEF StoreSession, LifeInv, SessionFacts
<1>5. SessionFacts'
  BY <1>2, <1>3, <1>4, TurnTypes DEF StoreSession, LifeInv, SessionFacts, Stands
<1>6. AnswerIsRemembered'
  BY <1>2, <1>4 DEF StoreSession, AnswerIsRemembered, Stands
<1> QED BY <1>1, <1>2, <1>3, <1>5, <1>6, RowsStay, TurnKeeps DEF StoreSession, LifeInv, LifeTypeOK

LEMMA StoreAnswerKeeps == ASSUME LifeInv, StoreAnswer PROVE LifeInv'
<1>1. conv.there # "never"
  BY TurnBegun DEF StoreAnswer
<1>2. /\ rows' \subseteq RowRecord /\ written' \in Nat
      /\ \A r \in rows' : (r.attached <=> Stands) /\ (~r.home => conv.there = "gone")
  BY <1>1, Written DEF StoreAnswer
<1>3. /\ turn' \in TurnRow /\ turn'.pc = "status" /\ turn'.number = turn.number
      /\ heard' \in {heard, turn.number}
  BY TurnTypes DEF StoreAnswer, TurnRow, InTurn
<1>4. SessionFacts'
  BY <1>3, TurnTypes DEF StoreAnswer, LifeInv, SessionFacts
<1>5. AnswerIsRemembered'
  <2> SUFFICES ASSUME Stands, conv.session # NoSession PROVE memory[conv.session] >= heard'
    BY DEF StoreAnswer, AnswerIsRemembered, Stands
  <2>1. memory[conv.session] >= heard
    BY DEF LifeInv, AnswerIsRemembered
  <2>2. memory[conv.session] = turn.number
    BY DEF StoreAnswer, LifeInv, SessionFacts
  <2> QED BY <1>3, <2>1, <2>2, TurnTypes
<1>6. heard' \in Nat
  BY <1>3, TurnTypes
<1> QED BY <1>1, <1>2, <1>3, <1>4, <1>5, <1>6, TurnTypes, TurnKeeps DEF StoreAnswer, LifeInv, LifeTypeOK

LEMMA TurnEnds ==
  ASSUME LifeInv, turn.pc # "idle", NEW s \in {"idle", "running", "failed"}, EndTurn(s),
         rows' \subseteq RowRecord, written' \in Nat,
         \A r \in rows' : (r.attached <=> Stands) /\ (~r.home => conv.there = "gone"),
         UNCHANGED <<groups, call, events, memory, heard>>
  PROVE  LifeInv'
<1>1. conv.there # "never"
  BY TurnBegun
<1>2. /\ conv' \in ConvRow /\ conv'.there = conv.there /\ conv'.group = conv.group
      /\ conv'.session = conv.session
  BY TurnTypes DEF EndTurn, ConvRow
<1>3. turn' \in TurnRow /\ turn'.pc = "idle" /\ turn'.number = turn.number
  BY TurnTypes DEF EndTurn, TurnRow
<1>4. SessionFacts' /\ AnswerIsRemembered'
  BY <1>2, <1>3 DEF LifeInv, SessionFacts, AnswerIsRemembered, Stands
<1> QED BY <1>1, <1>2, <1>3, <1>4, TurnKeeps DEF LifeInv, LifeTypeOK

LEMMA StoreStatusKeeps == ASSUME LifeInv, StoreStatus PROVE LifeInv'
BY TurnEnds, RowsStay DEF StoreStatus

LEMMA FailTurnKeeps == ASSUME LifeInv, FailTurn PROVE LifeInv'
<1>1. turn.pc # "idle" /\ conv.there # "never" /\ conv.status \in {"idle", "running", "failed"}
  BY TurnBegun, TurnTypes DEF FailTurn, ConvRow
<1>2. CASE Write("message") /\ EndTurn("failed")
  BY <1>1, <1>2, Written, TurnEnds DEF FailTurn
<1>3. CASE EndTurn(conv.status) /\ UNCHANGED <<rows, written>>
  BY <1>1, <1>3, RowsStay, TurnEnds DEF FailTurn
<1> QED BY <1>2, <1>3 DEF FailTurn

-------------------------------------------------------------------------------
(* The others *)

LEMMA GroupsKeep ==
  ASSUME LifeInv, NEW g \in Groups, CreateGroup(g) \/ DeleteGroup(g)
  PROVE  LifeInv'
<1>1. /\ conv' \in ConvRow /\ conv'.there = conv.there /\ conv'.session = conv.session
      /\ conv'.group \in {conv.group, NoGroup}
  BY TurnTypes DEF CreateGroup, DeleteGroup, ConvRow, GroupIds
<1>2. groups' \in [Groups -> {"absent", "ours", "elsewhere"}]
  BY DEF CreateGroup, DeleteGroup, LifeInv, LifeTypeOK
<1>3. LifeTypeOK'
  BY <1>1, <1>2 DEF CreateGroup, DeleteGroup, LifeInv, LifeTypeOK
<1>4. NothingBefore'
  BY <1>1 DEF CreateGroup, DeleteGroup, LifeInv, NothingBefore
<1>5. RowsPart' /\ SessionFacts' /\ AnswerIsRemembered'
  BY <1>1 DEF CreateGroup, DeleteGroup, LifeInv, RowsPart, SessionFacts, AnswerIsRemembered, Stands
<1>6. GroupPart'
  <2> SUFFICES ASSUME conv'.group # NoGroup PROVE Stands' /\ conv'.group \in Ours'
    BY DEF GroupPart
  <2>1. conv'.group = conv.group /\ Stands' /\ conv.group \in Groups /\ groups[conv.group] = "ours"
    BY <1>1 DEF LifeInv, GroupPart, Stands, Ours
  <2>2. CASE CreateGroup(g)
    BY <2>1, <2>2 DEF CreateGroup, LifeInv, LifeTypeOK, Ours
  <2>3. CASE DeleteGroup(g)
    <3>1. conv.group # g
      BY <2>1, <2>3, TurnTypes DEF DeleteGroup, ConvRow
    <3> QED BY <2>1, <2>3, <3>1 DEF DeleteGroup, LifeInv, LifeTypeOK, Ours
  <2> QED BY <2>2, <2>3
<1> QED BY <1>3, <1>4, <1>5, <1>6 DEF LifeInv

LEMMA OthersKeep ==
  ASSUME LifeInv, NEW r \in rows, EndTask(r) \/ DecideApproval(r)
  PROVE  LifeInv'
<1>1. PICK kind \in {"ended", "decided"} : Become(r, kind)
  BY DEF EndTask, DecideApproval
<1> DEFINE new == [r EXCEPT !.kind = kind]
<1>2. r \in RowRecord /\ (r.attached <=> Stands) /\ (~r.home => conv.there = "gone") /\ conv.there # "never"
  BY DEF LifeInv, LifeTypeOK, RowsPart, NothingBefore
<1>3. new \in RowRecord /\ new.attached = r.attached /\ new.home = r.home
  BY <1>2 DEF RowRecord
<1>4. rows' = (rows \ {r}) \cup {new}
  BY <1>1 DEF Become
<1> HIDE DEF new
<1>5. /\ rows' \subseteq RowRecord
      /\ \A s \in rows' : (s.attached <=> Stands) /\ (~s.home => conv.there = "gone")
  BY <1>2, <1>3, <1>4 DEF LifeInv, LifeTypeOK, RowsPart
<1>6. events' \in Nat /\ UNCHANGED <<groups, conv, written, call, turn, memory, heard>>
  BY Raising DEF EndTask, DecideApproval
<1>7. SessionFacts' /\ AnswerIsRemembered'
  BY <1>6 DEF LifeInv, SessionFacts, AnswerIsRemembered, Stands
<1> QED BY <1>2, <1>5, <1>6, <1>7, TurnTypes, TurnKeeps DEF LifeInv, LifeTypeOK

LEMMA RestartKeeps == ASSUME LifeInv, RestartProcess PROVE LifeInv'
<1>1. /\ conv' \in ConvRow /\ conv'.there = conv.there /\ conv'.group = conv.group
      /\ conv'.session = conv.session
  BY TurnTypes DEF RestartProcess, ConvRow
<1>2. /\ turn' \in TurnRow /\ turn'.pc = "idle" /\ turn'.number = turn.number
  <2> DEFINE t == [pc |-> "idle", number |-> turn.number, expected |-> NoSession, id |-> NoSession,
                   good |-> TRUE]
  <2>1. turn' = t
    BY DEF RestartProcess, NoTurn
  <2>2. t \in TurnRow /\ t.pc = "idle" /\ t.number = turn.number
    BY TurnTypes DEF TurnRow
  <2> QED BY <2>1, <2>2
<1>3. /\ rows' \subseteq RowRecord
      /\ \A r \in rows' : (r.attached <=> Stands) /\ (~r.home => conv.there = "gone")
      /\ rows = {} => rows' = {}
  <2>1. CASE UNCHANGED rows
    BY <2>1 DEF LifeInv, LifeTypeOK, RowsPart
  <2>2. CASE rows' = {[r EXCEPT !.kind = IF @ = "active" THEN "ended" ELSE @] : r \in rows}
    BY <2>2 DEF LifeInv, LifeTypeOK, RowsPart, RowRecord
  <2> QED BY <2>1, <2>2 DEF RestartProcess
<1>4. \A c \in Callers : call'[c] \in CallRow /\ call'[c].pc \in {"idle", "answered"}
  BY DEF RestartProcess, LifeInv, LifeTypeOK, Idle, CallRow, GroupIds, Wishes, Unstarted
<1>5. call' \in [Callers -> CallRow]
  BY <1>4 DEF RestartProcess
<1>6. LifeTypeOK'
  BY <1>1, <1>2, <1>3, <1>5 DEF RestartProcess, LifeInv, LifeTypeOK
<1>7. NothingBefore' /\ RowsPart' /\ GroupPart'
  BY <1>1, <1>2, <1>3, <1>4
     DEF RestartProcess, LifeInv, NothingBefore, RowsPart, GroupPart, Stands, Ours, Unstarted
<1>8. SessionFacts' /\ AnswerIsRemembered'
  BY <1>1, <1>2 DEF RestartProcess, LifeInv, SessionFacts, AnswerIsRemembered, Stands
<1> QED BY <1>6, <1>7, <1>8 DEF LifeInv

LEMMA LifeSteps == LifeInv /\ [LifeNext]_lifeVars => LifeInv'
<1> SUFFICES ASSUME LifeInv, [LifeNext]_lifeVars PROVE LifeInv'
  OBVIOUS
<1>1. CASE UNCHANGED lifeVars
  BY <1>1 DEF lifeVars, LifeInv, LifeTypeOK, NothingBefore, GroupPart, RowsPart, SessionFacts,
              AnswerIsRemembered, Stands, Ours
<1>2. ASSUME NEW g \in Groups, CreateGroup(g) \/ DeleteGroup(g) PROVE LifeInv'
  BY <1>2, GroupsKeep
<1>3. ASSUME NEW c \in Callers, NEW what \in Wishes \ {"none"}, NEW g \in GroupIds, Ask(c, what, g)
      PROVE  LifeInv'
  BY <1>3, AskKeeps
<1>4. ASSUME NEW c \in Callers, CallStep(c) PROVE LifeInv'
  BY <1>4, ReadConversationKeeps, CheckKeeps, CheckGroupKeeps, InsertConversationKeeps,
     UpdateConversationKeeps, DeleteRowsKeeps, DeleteConversationKeeps, WriteMessageKeeps, FailCallKeeps
     DEF CallStep
<1>5. CASE StartTurn \/ Connect \/ StoreSession \/ StoreAnswer \/ StoreStatus \/ FailTurn
  BY <1>5, StartTurnKeeps, ConnectKeeps, StoreSessionKeeps, StoreAnswerKeeps, StoreStatusKeeps,
     FailTurnKeeps
<1>6. ASSUME NEW kind \in {"active", "pending"}, CallTool(kind) PROVE LifeInv'
  BY <1>6, CallToolKeeps
<1>7. ASSUME NEW id \in 1 .. MaxTurns, NEW good \in BOOLEAN, EndStream(id, good) PROVE LifeInv'
  BY <1>7, EndStreamKeeps
<1>8. ASSUME NEW r \in rows, EndTask(r) \/ DecideApproval(r) PROVE LifeInv'
  BY <1>8, OthersKeep
<1>9. CASE RestartProcess
  BY <1>9, RestartKeeps
<1>10. ASSUME NEW c \in Callers,
              \/ \E what \in {"create", "group"}, g \in Groups \cup {NoGroup} : Ask(c, what, g)
              \/ \E what \in {"provider", "delete", "chat"} : Ask(c, what, NoGroup)
       PROVE  LifeInv'
  BY <1>3, <1>10 DEF Wishes, ReadFirst, GroupIds
<1> QED BY <1>1, <1>2, <1>4, <1>5, <1>6, <1>7, <1>8, <1>9, <1>10 DEF LifeNext

-------------------------------------------------------------------------------

\* A conversation is in a group of its own bank that is there, or in none, and
\* its rows refer to it as long as it stands, for any number of groups and
\* requests and whatever falls between their statements (can_use_group,
\* update_conversation, delete_conversation, _delete_sync).
THEOREM RowsAlwaysFollow == LifeSpec => []RowsFollowTheCase
<1>1. LifeInv => RowsFollowTheCase
  BY DEF LifeInv, GroupPart, RowsPart, RowsFollowTheCase
<1> QED BY LifeStarts, LifeSteps, <1>1, PTL DEF LifeSpec

\* The session the conversation keeps remembers the last answer in its log, for
\* any number of turns that fail, die or lose their session (run_main_turn,
\* _turn_runner).
THEOREM AnswersStayRemembered == LifeSpec => []AnswerIsRemembered
<1>1. LifeInv => AnswerIsRemembered
  BY DEF LifeInv
<1> QED BY LifeStarts, LifeSteps, <1>1, PTL DEF LifeSpec

-------------------------------------------------------------------------------
(* Identity                                                                  *)

Kinds    == {"customer", "business"}
Named0   == People \cup {NoOne}
Seeded   == {o \in People : SeedKind[o] # "none"}
Makers   == {"form", "seed", "reset"}
OwnedRow == [there : BOOLEAN, owner : Named0, ref : Named0, crossed : BOOLEAN]
TxnRow   == [what : {"none", "row"} \cup Makers,
             step : {"none", "unlink", "upserted", "refreshed", "linked", "found", "unknown"},
             owners : SUBSET Named0, rows : SUBSET OwnedRows, crossed : BOOLEAN]

IdentityTypeOK ==
    /\ profile \in [People -> SUBSET Kinds]
    /\ party \in [People -> Kinds \cup {"none"}]
    /\ owned \in [OwnedRows -> OwnedRow]
    /\ txn \in [Sessions -> TxnRow]

\* Where a transaction of each kind can be, and whose owners it has.
Shaped(t) ==
    /\ t.what = "none" => t.step \in {"none", "unlink"}
    /\ t.what = "row"  => t.step \in {"found", "unknown"} /\ \E o \in Named0 : t.owners = {o}
    /\ t.what = "form" => t.step \in {"upserted", "refreshed", "linked"} /\ \E o \in People : t.owners = {o}
    /\ t.what \in {"seed", "reset"} => t.step \in {"upserted", "refreshed"} /\ t.owners = Seeded

TxnsShaped == \A s \in Sessions : Shaped(txn[s])

\* The lock of the mint and the lock of the tables that a seed empties.
OneMaker == \A s, u \in Profiling : s = u

\* The transaction that makes a party has been through its trigger.
Triggered(s) == s \in Profiling /\ txn[s].step # "upserted"
NoClash      == \A s \in Sessions : Triggered(s) => \A o \in txn[s].owners : party[o] \in {"none", KindOf(txn[s], o)}

\* A row without a reference, whose owner is being made, is one that the
\* transaction refreshed or one that crossed it.
NoneMissed ==
    \A s \in Sessions : Triggered(s) =>
        \A r \in OwnedRows :
            owned[r].there /\ owned[r].owner \in txn[s].owners /\ owned[r].ref = NoOne
            => r \in txn[s].rows \/ owned[r].crossed

\* A row that is being written found its owner, or knows of the crossing.
RowsKnow ==
    \A u \in Sessions :
        /\ txn[u].what = "row" /\ txn[u].step = "found" => txn[u].owners \subseteq Known
        /\ txn[u].what = "row" /\ txn[u].step = "unknown" /\ ~txn[u].crossed =>
              /\ txn[u].owners \cap Known = {}
              /\ \A s \in Sessions : Triggered(s) => txn[u].owners \cap txn[s].owners = {}

\* The three parts of OwnersAreKnown.
OneKind        == \A o \in People : profile[o] \subseteq {party[o]}
RefIsOwner(r)  == owned[r].ref # NoOne => owned[r].ref = owned[r].owner /\ owned[r].ref \in Known
MissingCrossed(r) ==
    owned[r].there /\ owned[r].owner \in Known /\ owned[r].ref = NoOne => owned[r].crossed
RowsRight == \A r \in OwnedRows : RefIsOwner(r) /\ MissingCrossed(r)

IdentityInv ==
    /\ IdentityTypeOK
    /\ TxnsShaped
    /\ OneMaker
    /\ NoClash
    /\ NoneMissed
    /\ RowsKnow
    /\ OneKind
    /\ RowsRight

-------------------------------------------------------------------------------

LEMMA Types ==
  ASSUME IdentityInv
  PROVE  /\ profile \in [People -> SUBSET Kinds] /\ party \in [People -> Kinds \cup {"none"}]
         /\ owned \in [OwnedRows -> OwnedRow] /\ txn \in [Sessions -> TxnRow]
         /\ NoOne \notin People /\ Known \in SUBSET People /\ Seeded \in SUBSET People
BY IdentityAssumption DEF IdentityInv, IdentityTypeOK, Known, Seeded

LEMMA ClosedTxn == NoTxn \in TxnRow /\ NoTxn.what = "none" /\ Shaped(NoTxn)
BY DEF NoTxn, TxnRow, Shaped, Makers

\* An identifier with one profile at most is of the kind of that profile.
LEMMA KindsOnce ==
  ASSUME NEW S \in SUBSET Kinds, ~(Cardinality(S) > 1)
  PROVE  \A k \in S : S = {k}
<1> SUFFICES ASSUME NEW k \in S, S # {k} PROVE FALSE
  OBVIOUS
<1>1. S = {"customer"} \cup {"business"}
  BY DEF Kinds
<1>2. IsFiniteSet({"customer"}) /\ Cardinality({"customer"}) = 1
  BY FS_Singleton
<1>3. "business" \notin {"customer"}
  OBVIOUS
<1>4. Cardinality(S) = 2
  BY <1>1, <1>2, <1>3, FS_AddElement
<1> QED BY <1>4

LEMMA IdentityStarts == IdentityInit => IdentityInv
<1> SUFFICES ASSUME IdentityInit PROVE IdentityInv
  OBVIOUS
<1>1. profile \in [People -> SUBSET Kinds] /\ \A o \in People : ~(Cardinality(profile[o]) > 1)
  BY DEF IdentityInit, UpgradeRefused, Kinds
<1>2. \A o \in People : /\ party[o] \in Kinds \cup {"none"} /\ profile[o] \subseteq {party[o]}
                        /\ profile[o] # {} <=> party[o] # "none"
  <2> SUFFICES ASSUME NEW o \in People
               PROVE /\ party[o] \in Kinds \cup {"none"} /\ profile[o] \subseteq {party[o]}
                     /\ profile[o] # {} <=> party[o] # "none"
    OBVIOUS
  <2>1. party[o] = IF profile[o] = {} THEN "none" ELSE CHOOSE k \in profile[o] : TRUE
    BY DEF IdentityInit, PartiesOf
  <2>2. profile[o] \in SUBSET Kinds /\ \A k \in profile[o] : profile[o] = {k}
    BY <1>1, KindsOnce
  <2>3. CASE profile[o] = {}
    BY <2>1, <2>3
  <2>4. CASE profile[o] # {}
    <3>1. PICK k \in profile[o] : profile[o] = {k}
      BY <2>2, <2>4
    <3>2. party[o] = k
      BY <2>1, <2>4, <3>1
    <3> QED BY <2>2, <3>1, <3>2 DEF Kinds
  <2> QED BY <2>3, <2>4
<1>3. party \in [People -> Kinds \cup {"none"}]
  BY <1>2 DEF IdentityInit, PartiesOf
<1>4. Known = {o \in People : profile[o] # {}}
  BY <1>2 DEF Known
<1>5. PICK before \in SUBSET OwnedRows : \E owners \in [before -> Named0] : owned = Upgraded(owners, profile)
  BY DEF IdentityInit, Named0
<1>14. PICK owners \in [before -> Named0] : owned = Upgraded(owners, profile)
  BY <1>5
<1>6. \A r \in OwnedRows :
         \/ owned[r] = Gone
         \/ \E o \in Named0 : owned[r] = [there |-> TRUE, owner |-> o, crossed |-> FALSE, ref |-> Named(o, Known)]
  BY <1>4, <1>14 DEF Upgraded
<1>7. \A r \in OwnedRows : owned[r] \in OwnedRow /\ RefIsOwner(r) /\ MissingCrossed(r)
  <2> SUFFICES ASSUME NEW r \in OwnedRows
               PROVE owned[r] \in OwnedRow /\ RefIsOwner(r) /\ MissingCrossed(r)
    OBVIOUS
  <2>0. NoOne \notin Known /\ Known \subseteq Named0
    BY IdentityAssumption DEF Known, Named0
  <2>1. CASE owned[r] = Gone
    BY <2>1 DEF Gone, OwnedRow, Named0, RefIsOwner, MissingCrossed
  <2>2. CASE \E o \in Named0 : owned[r] = [there |-> TRUE, owner |-> o, crossed |-> FALSE, ref |-> Named(o, Known)]
    <3>1. PICK o \in Named0 : owned[r] = [there |-> TRUE, owner |-> o, crossed |-> FALSE, ref |-> Named(o, Known)]
      BY <2>2
    <3>2. Named(o, Known) \in Named0 /\ (o \in Known => Named(o, Known) = o) /\ (o \notin Known => Named(o, Known) = NoOne)
      BY DEF Named, Named0
    <3>3. owned[r] \in OwnedRow
      BY <3>1, <3>2 DEF OwnedRow
    <3> QED BY <3>1, <3>2, <3>3, <2>0 DEF RefIsOwner, MissingCrossed
  <2> QED BY <1>6, <2>1, <2>2
<1>8. owned \in [OwnedRows -> OwnedRow]
  BY <1>14, <1>7 DEF Upgraded
<1>9. \A s \in Sessions : txn[s] = NoTxn
  BY DEF IdentityInit
<1>10. Profiling = {}
  BY <1>9, ClosedTxn DEF Profiling
<1>11. IdentityTypeOK
  BY <1>1, <1>3, <1>8, ClosedTxn DEF IdentityInit, IdentityTypeOK
<1>12. TxnsShaped /\ OneMaker /\ NoClash /\ NoneMissed /\ RowsKnow
  BY <1>9, <1>10, ClosedTxn DEF TxnsShaped, OneMaker, NoClash, NoneMissed, RowsKnow, Triggered
<1> QED BY <1>2, <1>7, <1>11, <1>12 DEF IdentityInv, OneKind, RowsRight

-------------------------------------------------------------------------------
(* A session that leaves its transaction, or begins one that makes profiles,
   gives the others no trigger to reckon with. *)

LEMMA QuietStep ==
  ASSUME IdentityInv, NEW s \in Sessions, NEW x \in TxnRow, Shaped(x), x.what # "row",
         x.what \in Makers => x.step = "upserted" /\ Profiling = {},
         txn' = [txn EXCEPT ![s] = x], party' = party
  PROVE  /\ txn' \in [Sessions -> TxnRow] /\ TxnsShaped' /\ OneMaker' /\ NoClash' /\ RowsKnow'
         /\ \A u \in Sessions : Triggered(u)' => Triggered(u) /\ txn'[u] = txn[u]
<1> USE Types
<1>1. txn' \in [Sessions -> TxnRow] /\ txn'[s] = x /\ \A u \in Sessions \ {s} : txn'[u] = txn[u]
  OBVIOUS
<1>2. TxnsShaped'
  BY <1>1 DEF IdentityInv, TxnsShaped, Shaped
<1>3. OneMaker'
  BY <1>1 DEF IdentityInv, OneMaker, Profiling, Makers
<1>4. \A u \in Sessions : Triggered(u)' => u # s /\ Triggered(u) /\ txn'[u] = txn[u]
  BY <1>1 DEF Triggered, Profiling, Makers
<1>5. NoClash'
  BY <1>4 DEF IdentityInv, NoClash, KindOf
<1>6. RowsKnow'
  BY <1>1, <1>4 DEF IdentityInv, RowsKnow, Known
<1> QED BY <1>1, <1>2, <1>3, <1>4, <1>5, <1>6

\* Rows that lost their owner, or that are gone, break nothing.
LEMMA QuietRows ==
  ASSUME IdentityInv, NEW s \in Sessions, NEW x \in TxnRow, Shaped(x), x.what # "row",
         x.what \in Makers => x.step = "upserted" /\ Profiling = {},
         txn' = [txn EXCEPT ![s] = x], party' = party, profile' = profile,
         owned' \in [OwnedRows -> OwnedRow],
         \A r \in OwnedRows : owned'[r] = owned[r] \/ (owned'[r].owner = NoOne /\ owned'[r].ref = NoOne)
  PROVE  IdentityInv'
<1> USE Types
<1>1. /\ txn' \in [Sessions -> TxnRow] /\ TxnsShaped' /\ OneMaker' /\ NoClash' /\ RowsKnow'
      /\ \A u \in Sessions : Triggered(u)' => Triggered(u) /\ txn'[u] = txn[u]
  BY QuietStep
<1>2. IdentityTypeOK'
  BY <1>1 DEF IdentityTypeOK
<1>3. \A u \in Sessions : Triggered(u) => NoOne \notin txn[u].owners
  BY DEF IdentityInv, TxnsShaped, Shaped, Triggered, Profiling, Makers
<1>4. NoneMissed'
  BY <1>1, <1>3 DEF IdentityInv, NoneMissed
<1>5. OneKind'
  BY DEF IdentityInv, OneKind
<1>6. Known' = Known /\ NoOne \notin Known
  BY DEF Known
<1>7. RowsRight'
  BY <1>6 DEF IdentityInv, RowsRight, RefIsOwner, MissingCrossed
<1> QED BY <1>1, <1>2, <1>4, <1>5, <1>7 DEF IdentityInv

LEMMA MintKeeps ==
  ASSUME IdentityInv, NEW s \in Sessions, NEW o \in People, MintProfile(s, o)
  PROVE  IdentityInv'
<1> DEFINE x == [NoTxn EXCEPT !.what = "form", !.step = "upserted", !.owners = {o}]
<1>1. x \in TxnRow /\ Shaped(x) /\ x.what = "form" /\ x.step = "upserted"
  BY DEF NoTxn, TxnRow, Shaped, Makers, Named0
<1>2. /\ Profiling = {} /\ txn' = [txn EXCEPT ![s] = x]
      /\ profile' = profile /\ party' = party /\ owned' = owned
  BY DEF MintProfile
<1> HIDE DEF x
<1> QED BY <1>1, <1>2, Types, QuietRows

LEMMA LoadKeeps ==
  ASSUME IdentityInv, NEW s \in Sessions, NEW why \in {"seed", "reset"}, LoadSeed(s, why),
         owned' \in [OwnedRows -> OwnedRow],
         \A r \in OwnedRows : owned'[r] = owned[r] \/ (owned'[r].owner = NoOne /\ owned'[r].ref = NoOne)
  PROVE  IdentityInv'
<1> DEFINE x == [NoTxn EXCEPT !.what = why, !.step = "upserted", !.owners = {o \in People : SeedKind[o] # "none"}]
<1>1. x \in TxnRow /\ Shaped(x) /\ x.what = why /\ x.step = "upserted"
  BY DEF NoTxn, TxnRow, Shaped, Makers, Named0, Seeded
<1>2. Profiling = {} /\ txn' = [txn EXCEPT ![s] = x] /\ profile' = profile /\ party' = party
  BY DEF LoadSeed
<1> HIDE DEF x
<1> QED BY <1>1, <1>2, QuietRows

LEMMA LeavingKeeps ==
  ASSUME IdentityInv, NEW s \in Sessions, txn' = [txn EXCEPT ![s] = NoTxn],
         party' = party, profile' = profile, owned' \in [OwnedRows -> OwnedRow],
         \A r \in OwnedRows : owned'[r] = owned[r] \/ (owned'[r].owner = NoOne /\ owned'[r].ref = NoOne)
  PROVE  IdentityInv'
BY ClosedTxn, QuietRows DEF Makers

LEMMA BootKeeps ==
  ASSUME IdentityInv, NEW s \in Sessions, Boot(s)
  PROVE  IdentityInv'
BY Types, LoadKeeps DEF Boot

LEMMA ResetKeeps ==
  ASSUME IdentityInv, NEW s \in Sessions, Reset(s)
  PROVE  IdentityInv'
<1>1. Gone \in OwnedRow
  BY DEF Gone, OwnedRow, Named0
<1>2. owned' \in [OwnedRows -> OwnedRow]
  BY <1>1, Types DEF Reset
<1>3. \A r \in OwnedRows : owned'[r] = owned[r] \/ (owned'[r].owner = NoOne /\ owned'[r].ref = NoOne)
  BY DEF Reset, Gone
<1> QED BY <1>2, <1>3, LoadKeeps DEF Reset

LEMMA UnlinkKeeps ==
  ASSUME IdentityInv, NEW s \in Sessions, UnlinkAccounts(s)
  PROVE  IdentityInv'
<1> DEFINE linked == {r \in UserRows : owned[r].owner \in Minted}
<1>1. owned' = [r \in OwnedRows |->
                  IF r \in linked THEN [owned[r] EXCEPT !.owner = NoOne, !.ref = NoOne] ELSE owned[r]]
  BY DEF UnlinkAccounts
<1> HIDE DEF linked
<1>2. \A r \in OwnedRows : [owned[r] EXCEPT !.owner = NoOne, !.ref = NoOne] \in OwnedRow
  BY Types DEF OwnedRow, Named0
<1>3. owned' \in [OwnedRows -> OwnedRow]
  BY <1>1, <1>2, Types
<1>4. \A r \in OwnedRows : owned'[r] = owned[r] \/ (owned'[r].owner = NoOne /\ owned'[r].ref = NoOne)
  BY <1>1, Types DEF OwnedRow
<1> QED BY <1>3, <1>4, LeavingKeeps DEF UnlinkAccounts

LEMMA GivingUpKeeps ==
  ASSUME IdentityInv, NEW s \in Sessions, RefuseKind(s) \/ RollBack(s)
  PROVE  IdentityInv'
BY Types, LeavingKeeps DEF RefuseKind, RollBack


-------------------------------------------------------------------------------
(* Steps that the others' triggers have to reckon with *)

LEMMA RefreshKeeps ==
  ASSUME IdentityInv, NEW s \in Sessions, RefreshRows(s)
  PROVE  IdentityInv'
<1>0. /\ profile \in [People -> SUBSET Kinds] /\ party \in [People -> Kinds \cup {"none"}]
      /\ owned \in [OwnedRows -> OwnedRow] /\ txn \in [Sessions -> TxnRow]
  BY Types
<1> USE <1>0
<1>1. txn[s].step = "upserted" /\ ~Conflicts(s) /\ profile' = profile /\ party' = party /\ owned' = owned
  BY DEF RefreshRows
<1>2. txn[s].what \in Makers
  BY <1>1 DEF IdentityInv, TxnsShaped, Shaped, TxnRow
<1>3. txn'[s] = [txn[s] EXCEPT !.step = "refreshed", !.rows = Refresh(txn[s])]
  BY <1>2 DEF RefreshRows, Makers
<1>4. \A u \in Sessions \ {s} :
         txn'[u] = IF txn[u].what = "row" /\ txn[u].owners \subseteq txn[s].owners
                   THEN [txn[u] EXCEPT !.crossed = TRUE] ELSE txn[u]
  BY DEF RefreshRows
<1>5. Refresh(txn[s]) \in SUBSET OwnedRows
  BY DEF Refresh
<1>6. txn'[s] \in TxnRow
  BY <1>3, <1>5 DEF TxnRow
<1>7. ASSUME NEW u \in Sessions \ {s}
      PROVE  txn'[u] \in TxnRow
  <2>1. txn[u] \in TxnRow /\ [txn[u] EXCEPT !.crossed = TRUE] \in TxnRow
    BY DEF TxnRow
  <2> QED BY <1>4, <2>1
<1>8. \A u \in Sessions : txn'[u].what = txn[u].what /\ txn'[u].owners = txn[u].owners
  <2>1. txn'[s].what = txn[s].what /\ txn'[s].owners = txn[s].owners
    BY <1>3 DEF TxnRow
  <2>2. \A u \in Sessions \ {s} : txn'[u].what = txn[u].what /\ txn'[u].owners = txn[u].owners
    BY <1>4 DEF TxnRow
  <2> QED BY <2>1, <2>2
<1>9. \A u \in Sessions \ {s} : txn'[u].step = txn[u].step /\ txn'[u].rows = txn[u].rows
  BY <1>4 DEF TxnRow
<1>10. txn'[s].step = "refreshed" /\ txn'[s].rows = Refresh(txn[s])
  BY <1>3 DEF TxnRow
<1>11. IdentityTypeOK'
  BY <1>1, <1>6, <1>7 DEF IdentityTypeOK, RefreshRows
<1>12. TxnsShaped'
  BY <1>2, <1>8, <1>9, <1>10 DEF IdentityInv, TxnsShaped, Shaped, Makers
<1>13. Profiling' = Profiling
  BY <1>8 DEF Profiling
<1>14. OneMaker'
  BY <1>13 DEF IdentityInv, OneMaker
<1>15. \A u \in Sessions : Triggered(u)' => u = s
  BY <1>2, <1>13 DEF Triggered, IdentityInv, OneMaker, Profiling, Makers
<1>16. NoClash'
  BY <1>1, <1>8, <1>15 DEF NoClash, Conflicts, KindOf
<1>17. NoneMissed'
  BY <1>1, <1>8, <1>10, <1>15 DEF NoneMissed, Refresh
<1>18. ASSUME NEW u \in Sessions, txn'[u].what = "row", txn'[u].step = "unknown", ~txn'[u].crossed
       PROVE  /\ txn'[u].owners \cap Known' = {}
              /\ \A v \in Sessions : Triggered(v)' => txn'[u].owners \cap txn'[v].owners = {}
  <2>1. u # s
    BY <1>2, <1>8, <1>18 DEF Makers
  <2>2. txn[u].what = "row" /\ txn[u].step = "unknown"
    BY <1>8, <1>9, <1>18, <2>1
  <2>3. ~(txn[u].owners \subseteq txn[s].owners) /\ ~txn[u].crossed
    BY <1>4, <1>18, <2>1, <2>2 DEF TxnRow
  <2>4. \E o \in Named0 : txn[u].owners = {o}
    BY <2>2 DEF IdentityInv, TxnsShaped, Shaped
  <2>5. txn[u].owners \cap txn[s].owners = {}
    BY <2>3, <2>4
  <2> QED BY <1>1, <1>8, <1>15, <2>2, <2>3, <2>5 DEF IdentityInv, RowsKnow, Known
<1>19. ASSUME NEW u \in Sessions, txn'[u].what = "row", txn'[u].step = "found"
       PROVE  txn'[u].owners \subseteq Known'
  BY <1>1, <1>2, <1>8, <1>9, <1>19 DEF IdentityInv, RowsKnow, Known, Makers
<1>20. RowsKnow'
  BY <1>18, <1>19 DEF RowsKnow
<1>21. OneKind' /\ RowsRight'
  BY <1>1 DEF IdentityInv, OneKind, RowsRight, RefIsOwner, MissingCrossed, Known
<1> QED BY <1>11, <1>12, <1>14, <1>16, <1>17, <1>20, <1>21 DEF IdentityInv

LEMMA LinkKeeps ==
  ASSUME IdentityInv, NEW s \in Sessions, NEW r \in UserRows, LinkAccount(s, r)
  PROVE  IdentityInv'
<1>0. /\ profile \in [People -> SUBSET Kinds] /\ party \in [People -> Kinds \cup {"none"}]
      /\ owned \in [OwnedRows -> OwnedRow] /\ txn \in [Sessions -> TxnRow]
  BY Types
<1> USE <1>0
<1>1. txn[s].what = "form" /\ txn[s].step = "refreshed" /\ profile' = profile /\ party' = party /\ owned' = owned
  BY DEF LinkAccount
<1>2. txn'[s] = [txn[s] EXCEPT !.step = "linked", !.rows = @ \cup {r}]
  BY DEF LinkAccount, TxnRow
<1>3. \A u \in Sessions \ {s} : txn'[u] = txn[u]
  BY DEF LinkAccount
<1>4. txn'[s] \in TxnRow /\ txn' \in [Sessions -> TxnRow]
  <2>1. txn[s].rows \cup {r} \in SUBSET OwnedRows
    BY DEF TxnRow, OwnedRows
  <2>2. txn'[s] \in TxnRow
    BY <1>2, <2>1 DEF TxnRow
  <2>3. \A u \in Sessions : txn'[u] \in TxnRow
    BY <1>3, <2>2
  <2> QED BY <2>2, <2>3 DEF LinkAccount
<1>5. /\ txn'[s].what = "form" /\ txn'[s].owners = txn[s].owners /\ txn'[s].step = "linked"
      /\ txn[s].rows \subseteq txn'[s].rows
  BY <1>1, <1>2 DEF TxnRow
<1>7. IdentityTypeOK'
  BY <1>1, <1>4 DEF IdentityTypeOK
<1>8. TxnsShaped'
  <2>1. \E o \in People : txn[s].owners = {o}
    BY <1>1 DEF IdentityInv, TxnsShaped, Shaped
  <2>2. Shaped(txn'[s])
    BY <1>5, <2>1 DEF Shaped
  <2>3. \A u \in Sessions \ {s} : Shaped(txn'[u])
    BY <1>3 DEF IdentityInv, TxnsShaped
  <2>4. \A u \in Sessions : Shaped(txn'[u])
    BY <2>2, <2>3
  <2> QED BY <2>4 DEF TxnsShaped, Shaped
<1>9. \A u \in Sessions : /\ u \in Profiling' <=> u \in Profiling
                          /\ Triggered(u)' <=> Triggered(u)
  <2>1. /\ s \in Profiling' /\ s \in Profiling /\ Triggered(s)' /\ Triggered(s)
    BY <1>1, <1>5 DEF Triggered, Profiling
  <2>2. \A u \in Sessions \ {s} : u \in Profiling' <=> u \in Profiling
    BY <1>3 DEF Profiling
  <2>3. \A u \in Sessions \ {s} : Triggered(u)' <=> Triggered(u)
    BY <1>3, <2>2 DEF Triggered
  <2> QED BY <2>1, <2>2, <2>3
<1>10. \A u \in Sessions : /\ txn'[u].what = txn[u].what /\ txn'[u].owners = txn[u].owners
                           /\ txn[u].rows \subseteq txn'[u].rows
                           /\ txn[u].what = "row" => txn'[u] = txn[u]
  BY <1>1, <1>3, <1>5
<1>11. OneMaker'
  <2>1. Profiling' \subseteq Sessions /\ Profiling \subseteq Sessions
    BY DEF Profiling
  <2> QED BY <1>9, <2>1 DEF IdentityInv, OneMaker
<1>14. NoClash'
  BY <1>1, <1>9, <1>10 DEF IdentityInv, NoClash, KindOf
<1>15. NoneMissed'
  BY <1>1, <1>9, <1>10 DEF IdentityInv, NoneMissed
<1>12. RowsKnow'
  <2>1. ASSUME NEW u \in Sessions, txn'[u].what = "row"
        PROVE  txn'[u] = txn[u] /\ txn[u].what = "row"
    BY <1>10, <2>1
  <2>2. Known' = Known
    BY <1>1 DEF Known
  <2> QED BY <1>9, <1>10, <2>1, <2>2 DEF IdentityInv, RowsKnow
<1>13. OneKind' /\ RowsRight'
  BY <1>1 DEF IdentityInv, OneKind, RowsRight, RefIsOwner, MissingCrossed, Known
<1> QED BY <1>7, <1>8, <1>11, <1>12, <1>13, <1>14, <1>15 DEF IdentityInv

LEMMA WriteKeeps ==
  ASSUME IdentityInv, NEW s \in Sessions, NEW r \in UserRows \cup PaperRows, NEW o \in Named0, WriteRow(s, r, o)
  PROVE  IdentityInv'
<1>0. /\ profile \in [People -> SUBSET Kinds] /\ party \in [People -> Kinds \cup {"none"}]
      /\ owned \in [OwnedRows -> OwnedRow] /\ txn \in [Sessions -> TxnRow]
  BY Types
<1> USE <1>0
<1> DEFINE x == [what |-> "row", rows |-> {r}, owners |-> {o},
                 step |-> IF o \in Known THEN "found" ELSE "unknown",
                 crossed |-> \E u \in Profiling : o \in txn[u].owners /\ txn[u].step # "upserted"]
<1>1. txn[s] = NoTxn /\ txn' = [txn EXCEPT ![s] = x] /\ profile' = profile /\ party' = party /\ owned' = owned
  BY DEF WriteRow
<1>2. x \in TxnRow /\ Shaped(x)
  <2>1. {r} \in SUBSET OwnedRows /\ {o} \in SUBSET Named0
    BY DEF OwnedRows
  <2> QED BY <2>1 DEF TxnRow, Shaped, Makers
<1>3. /\ x.what = "row" /\ x.owners = {o}
      /\ x.step = "found" => o \in Known
      /\ x.step = "unknown" => o \notin Known
      /\ ~x.crossed => \A u \in Sessions : Triggered(u) => o \notin txn[u].owners
  BY DEF Triggered
<1> HIDE DEF x
<1>4. txn' \in [Sessions -> TxnRow] /\ txn'[s] = x /\ \A u \in Sessions \ {s} : txn'[u] = txn[u]
  BY <1>1, <1>2
<1>5. IdentityTypeOK' /\ TxnsShaped'
  BY <1>1, <1>2, <1>4 DEF IdentityInv, IdentityTypeOK, TxnsShaped, Shaped
<1>6. s \notin Profiling /\ Profiling' = Profiling
  BY <1>1, <1>3, <1>4 DEF Profiling, NoTxn
<1>7. \A u \in Sessions : Triggered(u)' <=> Triggered(u)
  BY <1>4, <1>6 DEF Triggered
<1>8. \A u \in Sessions : Triggered(u) => u # s /\ txn'[u] = txn[u]
  BY <1>4, <1>6 DEF Triggered
<1>9. OneMaker' /\ NoClash' /\ NoneMissed'
  BY <1>1, <1>6, <1>7, <1>8 DEF IdentityInv, OneMaker, NoClash, NoneMissed, KindOf
<1>10. RowsKnow'
  BY <1>1, <1>3, <1>4, <1>7, <1>8 DEF IdentityInv, RowsKnow, Known
<1>11. OneKind' /\ RowsRight'
  BY <1>1 DEF IdentityInv, OneKind, RowsRight, RefIsOwner, MissingCrossed, Known
<1> QED BY <1>5, <1>9, <1>10, <1>11 DEF IdentityInv


LEMMA CommitRowKeeps ==
  ASSUME IdentityInv, NEW s \in Sessions, CommitRow(s)
  PROVE  IdentityInv'
<1> DEFINE o == CHOOSE p \in txn[s].owners : TRUE
           new == [there |-> TRUE, owner |-> o, crossed |-> txn[s].crossed,
                   ref |-> IF txn[s].step = "found" THEN o ELSE NoOne]
<1>0. /\ owned \in [OwnedRows -> OwnedRow] /\ txn \in [Sessions -> TxnRow] /\ NoOne \notin People
      /\ Known \in SUBSET People
  BY Types
<1>1. /\ txn[s].what = "row" /\ profile' = profile /\ party' = party /\ txn' = [txn EXCEPT ![s] = NoTxn]
      /\ owned' = [q \in OwnedRows |-> IF q \notin txn[s].rows THEN owned[q] ELSE new]
  BY DEF CommitRow
<1>2. o \in Named0 /\ txn[s].owners = {o} /\ txn[s].step \in {"found", "unknown"}
  BY <1>1 DEF IdentityInv, TxnsShaped, Shaped
<1>3. txn[s].step = "found" => o \in Known
  BY <1>1, <1>2 DEF IdentityInv, RowsKnow
<1>4. /\ txn[s].step = "unknown" /\ ~txn[s].crossed =>
           o \notin Known /\ \A u \in Sessions : Triggered(u) => o \notin txn[u].owners
  BY <1>1, <1>2 DEF IdentityInv, RowsKnow
<1>5. /\ txn[s].crossed \in BOOLEAN /\ new \in OwnedRow /\ new.owner = o /\ new.crossed = txn[s].crossed
      /\ txn[s].step = "found" => new.ref = o
      /\ txn[s].step = "unknown" => new.ref = NoOne
  BY <1>0, <1>2 DEF OwnedRow, TxnRow, Named0
<1> HIDE DEF new, o
<1>6. /\ txn' \in [Sessions -> TxnRow] /\ TxnsShaped' /\ OneMaker' /\ NoClash' /\ RowsKnow'
      /\ \A u \in Sessions : Triggered(u)' => Triggered(u) /\ txn'[u] = txn[u]
  BY <1>1, ClosedTxn, QuietStep DEF Makers
<1>7. \A q \in OwnedRows : owned'[q] = IF q \in txn[s].rows THEN new ELSE owned[q]
  BY <1>1
<1>8. IdentityTypeOK' /\ OneKind'
  BY <1>0, <1>1, <1>5, <1>6, <1>7 DEF IdentityInv, IdentityTypeOK, OneKind
<1>9. Known' = Known
  BY <1>1 DEF Known
<1>10. NoneMissed'
  <2> SUFFICES ASSUME NEW u \in Sessions, Triggered(u)', NEW q \in OwnedRows, owned'[q].there,
                      owned'[q].owner \in txn'[u].owners, owned'[q].ref = NoOne
               PROVE  q \in txn'[u].rows \/ owned'[q].crossed
    BY DEF NoneMissed
  <2>1. Triggered(u) /\ txn'[u] = txn[u]
    BY <1>6
  <2>2. CASE q \in txn[s].rows
    <3>1. txn[s].step # "found"
      BY <1>0, <1>3, <1>5, <1>7, <2>2
    <3> QED BY <1>2, <1>4, <1>5, <1>7, <2>1, <2>2, <3>1
  <2>3. CASE q \notin txn[s].rows
    BY <1>7, <2>1, <2>3 DEF IdentityInv, NoneMissed
  <2> QED BY <2>2, <2>3
<1>11. RowsRight'
  <2> SUFFICES ASSUME NEW q \in OwnedRows PROVE RefIsOwner(q)' /\ MissingCrossed(q)'
    BY DEF RowsRight
  <2>2. CASE q \in txn[s].rows
    BY <1>0, <1>2, <1>3, <1>4, <1>5, <1>7, <1>9, <2>2 DEF RefIsOwner, MissingCrossed
  <2>3. CASE q \notin txn[s].rows
    BY <1>7, <1>9, <2>3 DEF IdentityInv, RowsRight, RefIsOwner, MissingCrossed
  <2> QED BY <2>2, <2>3
<1> QED BY <1>6, <1>8, <1>10, <1>11 DEF IdentityInv

LEMMA CommitProfilesKeeps ==
  ASSUME IdentityInv, NEW s \in Sessions, CommitProfiles(s)
  PROVE  IdentityInv'
<1> DEFINE t == txn[s]
           x == IF t.what = "reset" THEN [NoTxn EXCEPT !.step = "unlink"] ELSE NoTxn
<1>0. /\ owned \in [OwnedRows -> OwnedRow] /\ txn \in [Sessions -> TxnRow] /\ NoOne \notin People
      /\ profile \in [People -> SUBSET Kinds] /\ party \in [People -> Kinds \cup {"none"}]
      /\ Known \in SUBSET People /\ Seeded \in SUBSET People
  BY Types
<1>1. /\ txn' = [txn EXCEPT ![s] = x]
      /\ profile' = [o \in People |->
                      IF o \in t.owners THEN (IF t.what = "form" THEN profile[o] ELSE {}) \cup {KindOf(t, o)}
                      ELSE IF t.what = "form" THEN profile[o] ELSE {}]
      /\ party' = [o \in People |-> IF o \in t.owners THEN KindOf(t, o) ELSE party[o]]
      /\ owned' = [r \in OwnedRows |-> Settled(t, r)]
      /\ t.step = IF t.what = "form" THEN "linked" ELSE "refreshed"
  BY DEF CommitProfiles
<1>2. /\ t.what \in Makers /\ Triggered(s)
      /\ t.what = "form" => \E o \in People : t.owners = {o}
      /\ t.what # "form" => t.owners = Seeded
  BY <1>0, <1>1 DEF IdentityInv, TxnsShaped, Shaped, TxnRow, Makers, Triggered, Profiling
<1>3. t.owners \in SUBSET People /\ \A o \in t.owners : KindOf(t, o) \in Kinds
  BY <1>0, <1>2, IdentityAssumption DEF KindOf, Kinds, Seeded
<1>4. x \in TxnRow /\ x.what = "none" /\ Shaped(x)
  BY DEF NoTxn, TxnRow, Shaped, Makers
<1>5. Known' = Known \cup t.owners
  BY <1>1, <1>3 DEF Known, Kinds
<1>6. \A o \in t.owners : party[o] \in {"none", KindOf(t, o)}
  BY <1>2 DEF IdentityInv, NoClash
<1> HIDE DEF x
<1>7. txn' \in [Sessions -> TxnRow] /\ txn'[s] = x /\ \A u \in Sessions \ {s} : txn'[u] = txn[u]
  BY <1>0, <1>1, <1>4
<1>8. \A u \in Sessions : ~(u \in Profiling')
  BY <1>2, <1>4, <1>7 DEF IdentityInv, OneMaker, Triggered, Profiling
<1>9. TxnsShaped'
  <2>1. \A u \in Sessions : Shaped(txn'[u])
    BY <1>4, <1>7 DEF IdentityInv, TxnsShaped
  <2> QED BY <2>1 DEF TxnsShaped, Shaped
<1>10. OneMaker' /\ NoClash' /\ NoneMissed'
  <2>1. Profiling' \subseteq Sessions /\ \A u \in Sessions : ~Triggered(u)'
    BY <1>8 DEF Profiling, Triggered
  <2> QED BY <1>8, <2>1 DEF OneMaker, NoClash, NoneMissed
<1>11. RowsKnow'
  <2>1. \A u \in Sessions : ~Triggered(u)'
    BY <1>8 DEF Triggered
  <2>2. ASSUME NEW u \in Sessions, txn'[u].what = "row"
        PROVE  u # s /\ txn'[u] = txn[u]
    BY <1>4, <1>7, <2>2
  <2>3. ASSUME NEW u \in Sessions, txn'[u].what = "row", txn'[u].step = "found"
        PROVE  txn'[u].owners \subseteq Known'
    BY <1>5, <2>2, <2>3 DEF IdentityInv, RowsKnow
  <2>4. ASSUME NEW u \in Sessions, txn'[u].what = "row", txn'[u].step = "unknown", ~txn'[u].crossed
        PROVE  txn'[u].owners \cap Known' = {}
    BY <1>2, <1>5, <2>2, <2>4 DEF IdentityInv, RowsKnow
  <2> QED BY <2>1, <2>3, <2>4 DEF RowsKnow
<1>12. profile' \in [People -> SUBSET Kinds] /\ OneKind'
  <2>1. ASSUME NEW o \in People
        PROVE  profile'[o] \in SUBSET Kinds /\ profile'[o] \subseteq {party'[o]}
    <3>1. CASE o \in t.owners
      <4>1. profile[o] \subseteq {KindOf(t, o)}
        BY <1>0, <1>6, <3>1 DEF IdentityInv, OneKind, Kinds
      <4> QED BY <1>1, <1>3, <3>1, <4>1
    <3>2. CASE o \notin t.owners
      BY <1>0, <1>1, <3>2 DEF IdentityInv, OneKind
    <3> QED BY <3>1, <3>2
  <2> QED BY <1>1, <2>1 DEF OneKind
<1>13. party' \in [People -> Kinds \cup {"none"}]
  BY <1>0, <1>1, <1>3
<1>14. \A o \in Named0 :
          IF o \in Known' THEN Named(o, Known') = o ELSE Named(o, Known') = NoOne
  BY <1>0, <1>3, <1>5 DEF Named, Named0
<1>15. ASSUME NEW r \in OwnedRows
       PROVE  \/ owned'[r] = owned[r] /\ r \notin t.rows
              \/ \E o \in Named0 : owned'[r] = [there |-> TRUE, owner |-> o, ref |-> Named(o, Known'), crossed |-> FALSE]
  <2> DEFINE seeded == t.what # "form" /\ r \in SeedRows
             owner  == IF seeded THEN SeedOwner[r]
                       ELSE IF t.what = "form" THEN CHOOSE o \in t.owners : TRUE ELSE owned[r].owner
  <2>1. owned'[r] = IF seeded \/ r \in t.rows
                    THEN [there |-> TRUE, owner |-> owner, ref |-> Named(owner, Known'), crossed |-> FALSE]
                    ELSE owned[r]
    BY <1>1, <1>5 DEF Settled
  <2>2. owner \in Named0
    BY <1>0, <1>2, IdentityAssumption DEF Named0, OwnedRow
  <2> QED BY <2>1, <2>2
<1>16. ASSUME NEW r \in OwnedRows
       PROVE  owned'[r] \in OwnedRow /\ RefIsOwner(r)' /\ MissingCrossed(r)'
  <2>1. CASE owned'[r] = owned[r] /\ r \notin t.rows
    <3>1. owned'[r] \in OwnedRow
      BY <1>0, <2>1
    <3>2. RefIsOwner(r)'
      BY <1>5, <2>1 DEF IdentityInv, RowsRight, RefIsOwner
    <3>3. MissingCrossed(r)'
      BY <1>2, <1>5, <2>1 DEF IdentityInv, RowsRight, MissingCrossed, NoneMissed
    <3> QED BY <3>1, <3>2, <3>3
  <2>2. CASE \E o \in Named0 : owned'[r] = [there |-> TRUE, owner |-> o, ref |-> Named(o, Known'), crossed |-> FALSE]
    <3>1. PICK o \in Named0 : owned'[r] = [there |-> TRUE, owner |-> o, ref |-> Named(o, Known'), crossed |-> FALSE]
      BY <2>2
    <3>2. owned'[r] \in OwnedRow
      BY <1>14, <3>1 DEF OwnedRow, Named0
    <3>3. owned'[r].owner = o /\ owned'[r].ref = Named(o, Known')
      BY <3>1
    <3>4. o \in Known' => o # NoOne
      BY <1>0, <1>3, <1>5
    <3>5. RefIsOwner(r)'
      BY <1>14, <3>3, <3>4 DEF RefIsOwner
    <3>6. MissingCrossed(r)'
      BY <1>14, <3>3, <3>4 DEF MissingCrossed
    <3> QED BY <3>2, <3>5, <3>6
  <2> QED BY <1>15, <2>1, <2>2
<1>17. IdentityTypeOK'
  BY <1>1, <1>7, <1>12, <1>13, <1>16 DEF IdentityTypeOK
<1>18. RowsRight'
  BY <1>16 DEF RowsRight
<1> QED BY <1>9, <1>10, <1>11, <1>12, <1>17, <1>18 DEF IdentityInv

-------------------------------------------------------------------------------

LEMMA IdentityStep == IdentityInv /\ [IdentityNext]_identityVars => IdentityInv'
<1> SUFFICES ASSUME IdentityInv, [IdentityNext]_identityVars PROVE IdentityInv'
  OBVIOUS
<1>1. ASSUME NEW s \in Sessions, NEW o \in People, MintProfile(s, o) PROVE IdentityInv'
  BY <1>1, MintKeeps
<1>2. ASSUME NEW s \in Sessions, Boot(s) \/ Reset(s) PROVE IdentityInv'
  BY <1>2, BootKeeps, ResetKeeps
<1>3. ASSUME NEW s \in Sessions, RefuseKind(s) \/ RollBack(s) PROVE IdentityInv'
  BY <1>3, GivingUpKeeps
<1>4. ASSUME NEW s \in Sessions, RefreshRows(s) PROVE IdentityInv'
  BY <1>4, RefreshKeeps
<1>5. ASSUME NEW s \in Sessions, NEW r \in UserRows, LinkAccount(s, r) PROVE IdentityInv'
  BY <1>5, LinkKeeps
<1>6. ASSUME NEW s \in Sessions, CommitProfiles(s) PROVE IdentityInv'
  BY <1>6, CommitProfilesKeeps
<1>7. ASSUME NEW s \in Sessions, UnlinkAccounts(s) PROVE IdentityInv'
  BY <1>7, UnlinkKeeps
<1>8. ASSUME NEW s \in Sessions, NEW r \in UserRows \cup PaperRows, NEW o \in People \cup {NoOne}, WriteRow(s, r, o)
      PROVE  IdentityInv'
  BY <1>8, WriteKeeps DEF Named0
<1>9. ASSUME NEW s \in Sessions, CommitRow(s) PROVE IdentityInv'
  BY <1>9, CommitRowKeeps
<1>10. CASE UNCHANGED identityVars
  BY <1>10 DEF identityVars, IdentityInv, IdentityTypeOK, TxnsShaped, OneMaker, Profiling, NoClash, Triggered,
               NoneMissed, RowsKnow, OneKind, RowsRight, RefIsOwner, MissingCrossed, Known, KindOf
<1> QED BY <1>1, <1>2, <1>3, <1>4, <1>5, <1>6, <1>7, <1>8, <1>9, <1>10 DEF IdentityNext

\* An identifier is of one kind and every profile has its party, a reference is
\* the party of the row's owner, and a row whose owner is known lacks the
\* reference only when its transaction crossed the one that made the party,
\* whatever forms, agents, boots and resets do and in any interleaving
\* (migration 0d7a9e4c2b11, form_intake.py, seed_from_lab.py, reset_demo.py).
THEOREM OwnersStayKnown == IdentitySpec => []OwnersAreKnown
<1>1. IdentityInv => OwnersAreKnown
  BY DEF IdentityInv, OneKind, RowsRight, RefIsOwner, MissingCrossed, OwnersAreKnown, Issues
<1>2. IdentitySpec => []IdentityInv
  BY IdentityStarts, IdentityStep, PTL DEF IdentitySpec
<1> QED BY <1>1, <1>2, PTL
===============================================================================
