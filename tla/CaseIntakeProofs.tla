--------------------------- MODULE CaseIntakeProofs ---------------------------
(* What TLAPS proves of CaseIntake, for any cases, events and requests.      *)
EXTENDS CaseIntake, TLAPS

-------------------------------------------------------------------------------
(* The inductive invariant *)

\* A request under way carries an event, one at rest holds nothing.
Carried ==
    \A c \in Calls : call[c] # "idle" => req[c] \in Payloads

\* The advisory locks exclude: one transaction per event id from its first
\* statement on, one per case from the second on.
LocksExclude ==
    \A c, d \in Calls : c # d =>
        /\ call[c] \in HasEventLock /\ call[d] \in HasEventLock => req[c].id # req[d].id
        /\ call[c] \in HasCaseLock /\ call[d] \in HasCaseLock => req[c].case # req[d].case

\* What a transaction has read is still so when it writes.
ReadIsFresh ==
    \A c \in Calls :
        /\ call[c] \in {"link", "write"} => inbox[req[c].id] = NoEntry
        /\ call[c] = "write" => got[c] = link[req[c].case]

\* An event on record has a receipt.
EntriesAreWhole ==
    \A i \in Ids : inbox[i] # NoEntry => inbox[i].receipt \in Receipts

\* A case without a row has nothing, and no two cases share a conversation.
RowsAreSound ==
    /\ \A k \in Cases : link[k].version = 0 => link[k] = NoLink
    /\ \A k \in Cases : link[k].conv # NoConv => link[k].conv \in opened
    /\ \A k, l \in Cases : k # l /\ link[k].conv # NoConv => link[l].conv # link[k].conv

\* A bell about to ring belongs to one request and has not rung.
BellsArePending ==
    \A c \in Calls : call[c] = "bell" =>
        /\ inbox[req[c].id].payload = req[c]
        /\ Missing[req[c].body] # {}
        /\ rung[req[c]] = 0
        /\ \A d \in Calls : d # c /\ call[d] = "bell" => req[d] # req[c]

IntakeInv ==
    /\ TypeOK
    /\ Carried
    /\ LocksExclude
    /\ ReadIsFresh
    /\ EntriesAreWhole
    /\ RowsAreSound
    /\ BellsArePending
    /\ AnsweredIsRecorded
    /\ NewestWins
    /\ BellRingsOnce

-------------------------------------------------------------------------------
(* Facts about the helpers *)

\* What is written and answered has its type.
LEMMA RowFacts ==
    ASSUME NEW p \in Payloads, NEW old \in Links, NEW v \in Convs \cup {NoConv}
    PROVE  /\ RowAfter(p, old, v) \in Links
           /\ RowAfter(p, old, v).version = p.version
           /\ RowAfter(p, old, v).conv = v
           /\ ReceiptOf(RowAfter(p, old, v)) \in Receipts
           /\ ReceiptOf(old) \in Receipts
           /\ SameContent(p, RowAfter(p, old, v))
<1>1. StatusAfter(p, old) \in Statuses \cup {"none"}
  BY DEF StatusAfter, Links, Statuses
<1>2. p.version \in Nat /\ p.kind \in Kinds /\ p.body \in Bodies
  BY IntakeAssumption
<1> QED
  BY <1>1, <1>2 DEF RowAfter, Links, ReceiptOf, Receipts, SameContent

\* The status of a cancelled case stays, and nothing but a cancellation sets it.
LEMMA CancelledStays ==
    ASSUME NEW p \in Payloads, NEW old \in Links,
           old.version = 0 => old = NoLink
    PROVE  /\ old.status = "cancelled" => StatusAfter(p, old) = "cancelled"
           /\ StatusAfter(p, old) = "cancelled" =>
                 old.status = "cancelled" \/ p.kind = "cancelled"
           /\ OpensSession(p, old) => old.conv = NoConv /\ p.kind = "requested"
                                      /\ old.status # "cancelled"
<1>1. old.version \in Nat
  BY DEF Links
<1>2. old.version = 0 => old.status = "none"
  BY DEF NoLink
<1> QED
  BY <1>1, <1>2 DEF StatusAfter, OpensSession

\* No event is the absent one.
LEMMA PayloadFacts ==
    ASSUME NEW p \in Payloads
    PROVE  /\ p.id \in Ids /\ p.case \in Cases /\ p.version \in Nat /\ p.version > 0
           /\ p # NoPayload
           /\ p # NoEntry.payload
  BY IntakeAssumption DEF NoEntry

-------------------------------------------------------------------------------
(* Each action keeps the invariant *)

LEMMA IntakeInit == Init => IntakeInv
<1> SUFFICES ASSUME Init PROVE IntakeInv
  OBVIOUS
<1>1. TypeOK
  BY DEF Init, TypeOK, Links, NoLink, NoEntry, HasEventLock
<1>2. Carried /\ LocksExclude /\ ReadIsFresh /\ BellsArePending
  BY DEF Init, Carried, LocksExclude, ReadIsFresh, BellsArePending, HasEventLock, HasCaseLock
<1>3. RowsAreSound
  BY DEF Init, RowsAreSound, NoLink
<1>4. EntriesAreWhole /\ AnsweredIsRecorded /\ BellRingsOnce
  BY DEF Init, EntriesAreWhole, AnsweredIsRecorded, BellRingsOnce
<1>5. NewestWins
  <2>1. \A k \in Cases : RecordedFor(k) = {}
    BY PayloadFacts DEF Init, RecordedFor
  <2>2. \A k \in Cases : link[k].version = 0
    BY DEF Init, NoLink
  <2>3. ~(0 > 0)
    OBVIOUS
  <2> QED
    BY <2>1, <2>2, <2>3, Zenon DEF NewestWins
<1> QED
  BY <1>1, <1>2, <1>3, <1>4, <1>5 DEF IntakeInv

\* The steps that change neither the case, the inbox, the bells nor the answers.
LEMMA QuietStep ==
    ASSUME IntakeInv, UNCHANGED <<link, inbox, opened, rung, answers>>
    PROVE  /\ EntriesAreWhole' /\ RowsAreSound'
           /\ AnsweredIsRecorded' /\ NewestWins' /\ BellRingsOnce'
  BY DEF IntakeInv, EntriesAreWhole, RowsAreSound, AnsweredIsRecorded, NewestWins, BellRingsOnce, RecordedFor

\* A request that moves keeps the others where they are.
LEMMA GotoFacts ==
    ASSUME TypeOK, NEW c \in Calls, NEW pc, Goto(c, pc)
    PROVE  /\ \A d \in Calls : call'[d] = IF d = c THEN pc ELSE call[d]
           /\ \A d \in Calls : d # c => req'[d] = req[d] /\ got'[d] = got[d]
           /\ pc # "idle" => req'[c] = req[c]
           /\ pc \notin {"idle", "bell"} => got'[c] = got[c]
  BY DEF TypeOK, Goto

LEMMA ReceiveKeeps ==
    ASSUME IntakeInv, NEW c \in Calls, NEW p \in Payloads, Receive(c, p)
    PROVE  IntakeInv'
<1>1. TypeOK'
  BY DEF IntakeInv, TypeOK, Receive
<1>2. Carried'
  BY DEF IntakeInv, TypeOK, Carried, Receive
<1>3. LocksExclude'
  BY DEF IntakeInv, TypeOK, LocksExclude, Receive, HasEventLock, HasCaseLock
<1>4. ReadIsFresh'
  BY DEF IntakeInv, TypeOK, ReadIsFresh, Receive
<1>5. BellsArePending'
  BY DEF IntakeInv, TypeOK, BellsArePending, Receive
<1> QED
  BY <1>1, <1>2, <1>3, <1>4, <1>5, QuietStep DEF IntakeInv, Receive

LEMMA LockEventKeeps ==
    ASSUME IntakeInv, NEW c \in Calls, LockEvent(c)
    PROVE  IntakeInv'
<1>1. TypeOK'
  BY DEF IntakeInv, TypeOK, LockEvent, Goto, HasEventLock
<1>2. Carried'
  BY DEF IntakeInv, TypeOK, Carried, LockEvent, Goto
<1>3. LocksExclude'
  BY DEF IntakeInv, TypeOK, LocksExclude, LockEvent, Goto, EventFree, HasEventLock, HasCaseLock
<1>4. ReadIsFresh'
  BY DEF IntakeInv, TypeOK, ReadIsFresh, LockEvent, Goto
<1>5. BellsArePending'
  BY DEF IntakeInv, TypeOK, BellsArePending, LockEvent, Goto
<1> QED
  BY <1>1, <1>2, <1>3, <1>4, <1>5, QuietStep DEF IntakeInv, LockEvent

LEMMA LockCaseKeeps ==
    ASSUME IntakeInv, NEW c \in Calls, LockCase(c)
    PROVE  IntakeInv'
<1>1. TypeOK'
  BY DEF IntakeInv, TypeOK, LockCase, Goto, HasEventLock
<1>2. Carried'
  BY DEF IntakeInv, TypeOK, Carried, LockCase, Goto
<1>3. LocksExclude'
  BY DEF IntakeInv, TypeOK, LocksExclude, LockCase, Goto, CaseFree, HasEventLock, HasCaseLock
<1>4. ReadIsFresh'
  BY DEF IntakeInv, TypeOK, ReadIsFresh, LockCase, Goto
<1>5. BellsArePending'
  BY DEF IntakeInv, TypeOK, BellsArePending, LockCase, Goto
<1> QED
  BY <1>1, <1>2, <1>3, <1>4, <1>5, QuietStep DEF IntakeInv, LockCase

LEMMA ConflictKeeps ==
    ASSUME IntakeInv, NEW c \in Calls, Conflict(c)
    PROVE  IntakeInv'
<1>1. TypeOK'
  BY DEF IntakeInv, TypeOK, Conflict, Goto, HasEventLock, NoLink, Links
<1>2. Carried'
  BY DEF IntakeInv, TypeOK, Carried, Conflict, Goto
<1>3. LocksExclude'
  BY DEF IntakeInv, TypeOK, LocksExclude, Conflict, Goto, HasEventLock, HasCaseLock
<1>4. ReadIsFresh'
  BY DEF IntakeInv, TypeOK, ReadIsFresh, Conflict, Goto
<1>5. BellsArePending'
  BY DEF IntakeInv, TypeOK, BellsArePending, Conflict, Goto
<1> QED
  BY <1>1, <1>2, <1>3, <1>4, <1>5, QuietStep DEF IntakeInv, Conflict

LEMMA FailKeeps ==
    ASSUME IntakeInv, NEW c \in Calls, Fail(c)
    PROVE  IntakeInv'
<1>1. TypeOK'
  BY DEF IntakeInv, TypeOK, Fail, Goto, HasEventLock, NoLink, Links
<1>2. Carried'
  BY DEF IntakeInv, TypeOK, Carried, Fail, Goto
<1>3. LocksExclude'
  BY DEF IntakeInv, TypeOK, LocksExclude, Fail, Goto, HasEventLock, HasCaseLock
<1>4. ReadIsFresh'
  BY DEF IntakeInv, TypeOK, ReadIsFresh, Fail, Goto
<1>5. BellsArePending'
  BY DEF IntakeInv, TypeOK, BellsArePending, Fail, Goto
<1> QED
  BY <1>1, <1>2, <1>3, <1>4, <1>5, QuietStep DEF IntakeInv, Fail

LEMMA ReadLinkKeeps ==
    ASSUME IntakeInv, NEW c \in Calls, ReadLink(c)
    PROVE  IntakeInv'
<1>1. req[c] \in Payloads /\ req[c].case \in Cases
  BY PayloadFacts DEF IntakeInv, Carried, ReadLink
<1>2. TypeOK'
  BY <1>1 DEF IntakeInv, TypeOK, ReadLink, HasEventLock
<1>3. Carried'
  BY DEF IntakeInv, TypeOK, Carried, ReadLink
<1>4. LocksExclude'
  BY DEF IntakeInv, TypeOK, LocksExclude, ReadLink, HasEventLock, HasCaseLock
<1>5. ReadIsFresh'
  BY DEF IntakeInv, TypeOK, ReadIsFresh, ReadLink
<1>6. BellsArePending'
  BY DEF IntakeInv, TypeOK, BellsArePending, ReadLink
<1> QED
  BY <1>2, <1>3, <1>4, <1>5, <1>6, QuietStep DEF IntakeInv, ReadLink

LEMMA FindInboxKeeps ==
    ASSUME IntakeInv, NEW c \in Calls, FindInbox(c)
    PROVE  IntakeInv'
<1>1. /\ req[c] \in Payloads /\ req[c].id \in Ids
      /\ call[c] = "inbox"
      /\ UNCHANGED <<link, inbox, opened, rung>>
  BY PayloadFacts DEF IntakeInv, Carried, FindInbox
<1>2. \E pc \in {"link", "idle"} :
         /\ Goto(c, pc)
         /\ pc = "link" => inbox[req[c].id] = NoEntry
  BY DEF FindInbox, Answer
<1>3. \/ UNCHANGED answers
      \/ /\ inbox[req[c].id] = [payload |-> req[c], receipt |-> inbox[req[c].id].receipt]
         /\ inbox[req[c].id].receipt \in Receipts
         /\ answers' = [answers EXCEPT ![req[c]] = @ \cup {inbox[req[c].id].receipt}]
  <2>1. CASE Answer(c, inbox[req[c].id].receipt, "idle")
             /\ inbox[req[c].id].payload = req[c]
    <3>1. inbox[req[c].id] # NoEntry
      BY <1>1, <2>1, PayloadFacts
    <3> QED
      BY <1>1, <2>1, <3>1 DEF Answer, IntakeInv, TypeOK, EntriesAreWhole
  <2> QED
    BY <2>1 DEF FindInbox
<1>4. TypeOK'
  <2>1. NoLink \in Links
    BY DEF NoLink, Links
  <2>2. answers' \in [Payloads -> SUBSET Receipts]
    BY <1>1, <1>3 DEF IntakeInv, TypeOK
  <2>3. PICK pc \in {"link", "idle"} : Goto(c, pc)
    BY <1>2
  <2> QED
    BY <1>1, <2>1, <2>2, <2>3 DEF IntakeInv, TypeOK, Goto, HasEventLock
<1>5. Carried'
  BY <1>1, <1>2 DEF IntakeInv, TypeOK, Carried, Goto
<1>6. LocksExclude'
  BY <1>1, <1>2 DEF IntakeInv, TypeOK, LocksExclude, Goto, HasEventLock, HasCaseLock
<1>7. ReadIsFresh'
  BY <1>1, <1>2 DEF IntakeInv, TypeOK, ReadIsFresh, Goto
<1>8. BellsArePending'
  <2>1. PICK pc \in {"link", "idle"} : Goto(c, pc)
    BY <1>2
  <2>2. \A d \in Calls : call'[d] = "bell" => call[d] = "bell" /\ req'[d] = req[d]
    BY <1>1, <2>1, GotoFacts DEF IntakeInv
  <2> QED
    BY <1>1, <2>2 DEF IntakeInv, BellsArePending
<1>9. AnsweredIsRecorded'
  <2>1. CASE UNCHANGED answers
    BY <1>1, <2>1 DEF IntakeInv, AnsweredIsRecorded
  <2>2. CASE UNCHANGED answers => FALSE
    <3>1. answers' = [answers EXCEPT ![req[c]] = @ \cup {inbox[req[c].id].receipt}]
      BY <1>3, <2>2
    <3>2. ASSUME NEW p \in Payloads, NEW r \in answers'[p]
          PROVE  r \in answers[p] \/ (p = req[c] /\ r = inbox[req[c].id].receipt)
      BY <1>1, <3>1 DEF IntakeInv, TypeOK
    <3> QED
      BY <1>1, <1>3, <2>2, <3>2 DEF IntakeInv, AnsweredIsRecorded
  <2> QED
    BY <2>1, <2>2
<1>10. EntriesAreWhole' /\ RowsAreSound' /\ NewestWins' /\ BellRingsOnce'
  BY <1>1 DEF IntakeInv, EntriesAreWhole, RowsAreSound, NewestWins, BellRingsOnce, RecordedFor
<1> QED
  BY <1>4, <1>5, <1>6, <1>7, <1>8, <1>9, <1>10 DEF IntakeInv

LEMMA RingKeeps ==
    ASSUME IntakeInv, NEW c \in Calls, Ring(c)
    PROVE  IntakeInv'
<1>1. req[c] \in Payloads
  BY DEF IntakeInv, Carried, Ring
<1>2. TypeOK'
  BY <1>1 DEF IntakeInv, TypeOK, Ring, Goto, NoLink, Links
<1>3. Carried'
  BY DEF IntakeInv, TypeOK, Carried, Ring, Goto
<1>4. LocksExclude'
  BY DEF IntakeInv, TypeOK, LocksExclude, Ring, Goto, HasEventLock, HasCaseLock
<1>5. ReadIsFresh'
  BY DEF IntakeInv, TypeOK, ReadIsFresh, Ring, Goto
<1>6. BellsArePending'
  BY <1>1 DEF IntakeInv, TypeOK, Carried, BellsArePending, Ring, Goto
<1>7. BellRingsOnce'
  <2>1. \A p \in Payloads : rung'[p] = IF p = req[c] THEN rung[p] + 1 ELSE rung[p]
    BY <1>1 DEF IntakeInv, TypeOK, Ring
  <2>2. /\ rung[req[c]] = 0 /\ inbox[req[c].id].payload = req[c]
        /\ Missing[req[c].body] # {} /\ inbox' = inbox
    BY DEF IntakeInv, BellsArePending, Ring
  <2> QED
    BY <1>1, <2>1, <2>2 DEF IntakeInv, BellRingsOnce
<1>8. EntriesAreWhole' /\ RowsAreSound' /\ AnsweredIsRecorded' /\ NewestWins'
  BY DEF IntakeInv, EntriesAreWhole, RowsAreSound, AnsweredIsRecorded, NewestWins, RecordedFor, Ring
<1> QED
  BY <1>2, <1>3, <1>4, <1>5, <1>6, <1>7, <1>8 DEF IntakeInv

LEMMA DeleteConversationKeeps ==
    ASSUME IntakeInv, NEW k \in Cases, DeleteConversation(k)
    PROVE  IntakeInv'
<1>1. link[k].version > 0
  BY DEF IntakeInv, TypeOK, RowsAreSound, DeleteConversation, Links, NoLink
<1>2. link' = [link EXCEPT ![k].conv = NoConv] /\ link \in [Cases -> Links]
  BY DEF IntakeInv, TypeOK, DeleteConversation
<1>3. \A l \in Cases : /\ link'[l].version = link[l].version
                       /\ link'[l].kind = link[l].kind
                       /\ link'[l].body = link[l].body
                       /\ link'[l].conv = IF l = k THEN NoConv ELSE link[l].conv
                       /\ l # k => link'[l] = link[l]
  BY <1>2 DEF Links
<1>4. TypeOK'
  BY <1>2 DEF IntakeInv, TypeOK, DeleteConversation, Links
<1>5. Carried' /\ LocksExclude' /\ BellsArePending'
  BY DEF IntakeInv, Carried, LocksExclude, BellsArePending, DeleteConversation
<1>6. ReadIsFresh'
  <2>1. \A c \in Calls : call[c] = "write" => req[c].case # k
    BY <1>1 DEF DeleteConversation, RowFree, IntakeInv, ReadIsFresh
  <2> QED
    BY <1>3, <2>1, PayloadFacts DEF IntakeInv, Carried, ReadIsFresh, DeleteConversation
<1>7. RowsAreSound'
  BY <1>1, <1>3 DEF IntakeInv, RowsAreSound, DeleteConversation
<1>8. EntriesAreWhole' /\ AnsweredIsRecorded' /\ BellRingsOnce'
  BY DEF IntakeInv, EntriesAreWhole, AnsweredIsRecorded, BellRingsOnce, DeleteConversation
<1>9. NewestWins'
  BY <1>3 DEF IntakeInv, NewestWins, RecordedFor, SameContent, DeleteConversation
<1> QED
  BY <1>4, <1>5, <1>6, <1>7, <1>8, <1>9 DEF IntakeInv

\* What every commit does: the transaction of c puts its event on record with
\* receipt r and ends.
CommitOf(c, r) ==
    /\ call[c] = "write"
    /\ InsertInbox(c, r)
    /\ \E pc \in {"idle", "bell"} : Answer(c, r, pc)

\* An event that is not on record was neither answered nor rung for.
LEMMA NotRecorded ==
    ASSUME IntakeInv, NEW p \in Payloads, inbox[p.id] = NoEntry
    PROVE  answers[p] = {} /\ rung[p] = 0
<1>1. ASSUME NEW x \in answers[p] PROVE FALSE
  <2>1. inbox[p.id] = [payload |-> p, receipt |-> x]
    BY <1>1 DEF IntakeInv, AnsweredIsRecorded
  <2>2. NoEntry.payload = p
    BY <2>1
  <2> QED
    BY <2>2, PayloadFacts
<1>2. ~(rung[p] > 0)
  BY PayloadFacts DEF IntakeInv, BellRingsOnce
<1>3. answers[p] \subseteq Receipts /\ rung[p] \in Nat
  BY DEF IntakeInv, TypeOK
<1> QED
  BY <1>1, <1>2, <1>3

LEMMA CommitFacts ==
    ASSUME IntakeInv, NEW c \in Calls, NEW r \in Receipts, CommitOf(c, r)
    PROVE  /\ req[c] \in Payloads /\ req[c].id \in Ids /\ req[c].case \in Cases
           /\ inbox[req[c].id] = NoEntry
           /\ got[c] = link[req[c].case]
           /\ \A i \in Ids : inbox'[i] = IF i = req[c].id
                                         THEN [payload |-> req[c], receipt |-> r]
                                         ELSE inbox[i]
           /\ \A p \in Payloads : answers'[p] = IF p = req[c] THEN {r} ELSE answers[p]
           /\ \A d \in Calls : call'[d] = IF d = c THEN call'[c] ELSE call[d]
           /\ \A d \in Calls : d # c => req'[d] = req[d] /\ got'[d] = got[d]
           /\ call'[c] \in {"idle", "bell"}
           /\ call'[c] = "bell" => req'[c] = req[c]
<1>1. req[c] \in Payloads /\ req[c].id \in Ids /\ req[c].case \in Cases
  BY PayloadFacts DEF IntakeInv, Carried, CommitOf
<1>2. inbox[req[c].id] = NoEntry /\ got[c] = link[req[c].case]
  BY DEF IntakeInv, ReadIsFresh, CommitOf
<1>3. \A i \in Ids : inbox'[i] = IF i = req[c].id
                                 THEN [payload |-> req[c], receipt |-> r] ELSE inbox[i]
  BY <1>1 DEF CommitOf, InsertInbox, IntakeInv, TypeOK
<1>4. PICK pc \in {"idle", "bell"} : Answer(c, r, pc)
  BY DEF CommitOf
<1>5. answers[req[c]] = {}
  BY <1>1, <1>2, NotRecorded
<1>6. \A p \in Payloads : answers'[p] = IF p = req[c] THEN {r} ELSE answers[p]
  BY <1>1, <1>4, <1>5 DEF Answer, IntakeInv, TypeOK
<1>7. Goto(c, pc) /\ TypeOK
  BY <1>4 DEF Answer, IntakeInv
<1> QED
  BY <1>1, <1>2, <1>3, <1>6, <1>7, GotoFacts

\* What a commit leaves of the invariant, whatever it does to the case.
LEMMA CommitKeeps ==
    ASSUME IntakeInv, NEW c \in Calls, NEW r \in Receipts, CommitOf(c, r)
    PROVE  /\ inbox' \in [Ids -> [payload : Payloads \cup {NoPayload},
                                  receipt : Receipts \cup {NoReceipt}]]
           /\ answers' \in [Payloads -> SUBSET Receipts]
           /\ call' \in [Calls -> {"idle", "event", "bell"} \cup HasEventLock]
           /\ req' \in [Calls -> Payloads \cup {NoPayload}]
           /\ got' \in [Calls -> Links]
           /\ Carried' /\ LocksExclude' /\ EntriesAreWhole' /\ AnsweredIsRecorded'
<1> DEFINE e == [payload |-> req[c], receipt |-> r]
<1>0. /\ req[c] \in Payloads /\ req[c].id \in Ids /\ req[c].case \in Cases
      /\ inbox[req[c].id] = NoEntry
      /\ got[c] = link[req[c].case]
      /\ \A i \in Ids : inbox'[i] = IF i = req[c].id
                                    THEN [payload |-> req[c], receipt |-> r]
                                    ELSE inbox[i]
      /\ \A p \in Payloads : answers'[p] = IF p = req[c] THEN {r} ELSE answers[p]
      /\ \A d \in Calls : call'[d] = IF d = c THEN call'[c] ELSE call[d]
      /\ \A d \in Calls : d # c => req'[d] = req[d] /\ got'[d] = got[d]
      /\ call'[c] \in {"idle", "bell"}
      /\ call'[c] = "bell" => req'[c] = req[c]
  BY CommitFacts
<1>1. req[c] \in Payloads /\ req[c].id \in Ids
  BY <1>0
<1>2. inbox' = [inbox EXCEPT ![req[c].id] = e]
  BY DEF CommitOf, InsertInbox
<1>3. PICK pc \in {"idle", "bell"} : Answer(c, r, pc)
  BY DEF CommitOf
<1>4. Goto(c, pc)
  BY <1>3 DEF Answer
<1>5. inbox' \in [Ids -> [payload : Payloads \cup {NoPayload},
                          receipt : Receipts \cup {NoReceipt}]]
  BY <1>1, <1>2 DEF IntakeInv, TypeOK
<1>6. answers' \in [Payloads -> SUBSET Receipts]
  BY <1>1, <1>3 DEF IntakeInv, TypeOK, Answer
<1>7. call' \in [Calls -> {"idle", "event", "bell"} \cup HasEventLock]
  BY <1>4 DEF IntakeInv, TypeOK, Goto
<1>8. req' \in [Calls -> Payloads \cup {NoPayload}]
  BY <1>4 DEF IntakeInv, TypeOK, Goto
<1>9. got' \in [Calls -> Links]
  <2>1. NoLink \in Links
    BY DEF NoLink, Links
  <2> QED
    BY <1>4, <2>1 DEF IntakeInv, TypeOK, Goto
<1>10. Carried'
  BY <1>0 DEF IntakeInv, Carried
<1>11. LocksExclude'
  BY <1>0 DEF IntakeInv, LocksExclude, HasEventLock, HasCaseLock
<1>12. EntriesAreWhole'
  BY <1>0 DEF IntakeInv, EntriesAreWhole
<1>13. AnsweredIsRecorded'
  <2>1. \A p \in Payloads : p.id \in Ids /\ (p.id = req[c].id => answers[p] = {})
    BY <1>0, PayloadFacts, NotRecorded
  <2>2. ASSUME NEW p \in Payloads, NEW x \in answers'[p]
        PROVE  inbox'[p.id] = [payload |-> p, receipt |-> x]
    <3>1. CASE p = req[c]
      BY <1>0, <2>2, <3>1
    <3>2. CASE p # req[c]
      BY <1>0, <2>1, <2>2, <3>2 DEF IntakeInv, AnsweredIsRecorded
    <3> QED
      BY <3>1, <3>2
  <2> QED
    BY <2>2 DEF AnsweredIsRecorded
<1> QED
  BY <1>5, <1>6, <1>7, <1>8, <1>9, <1>10, <1>11, <1>12, <1>13

\* A bell belongs to one event and the event of c was not on record, so the
\* bells of the others and those that have rung are of other events.
LEMMA CommitKeepsBells ==
    ASSUME IntakeInv, NEW c \in Calls, NEW r \in Receipts, CommitOf(c, r),
           UNCHANGED rung,
           call'[c] = "bell" => Missing[req[c].body] # {}
    PROVE  BellsArePending' /\ BellRingsOnce'
<1>0. /\ req[c] \in Payloads /\ req[c].id \in Ids /\ req[c].case \in Cases
      /\ inbox[req[c].id] = NoEntry
      /\ got[c] = link[req[c].case]
      /\ \A i \in Ids : inbox'[i] = IF i = req[c].id
                                    THEN [payload |-> req[c], receipt |-> r]
                                    ELSE inbox[i]
      /\ \A p \in Payloads : answers'[p] = IF p = req[c] THEN {r} ELSE answers[p]
      /\ \A d \in Calls : call'[d] = IF d = c THEN call'[c] ELSE call[d]
      /\ \A d \in Calls : d # c => req'[d] = req[d] /\ got'[d] = got[d]
      /\ call'[c] \in {"idle", "bell"}
      /\ call'[c] = "bell" => req'[c] = req[c]
  BY CommitFacts
<1>1. \A p \in Payloads : rung[p] > 0 => p.id # req[c].id
  BY <1>0, PayloadFacts DEF IntakeInv, BellRingsOnce
<1>2. BellRingsOnce'
  BY <1>1, <1>0, PayloadFacts DEF IntakeInv, BellRingsOnce
<1>3. \A d \in Calls : call[d] = "bell" => req[d] \in Payloads /\ req[d].id # req[c].id
  BY <1>0, PayloadFacts DEF IntakeInv, BellsArePending, Carried
<1>4. rung[req[c]] = 0
  BY <1>1, <1>0 DEF IntakeInv, TypeOK
<1>5. BellsArePending'
  BY <1>3, <1>4, <1>0, PayloadFacts DEF IntakeInv, BellsArePending
<1> QED
  BY <1>2, <1>5

LEMMA IgnoreKeeps ==
    ASSUME IntakeInv, NEW c \in Calls, Ignore(c)
    PROVE  IntakeInv'
<1> DEFINE r == ReceiptOf(got[c])
<1>1. r \in Receipts /\ CommitOf(c, r) /\ UNCHANGED <<link, opened, rung>>
      /\ call'[c] = "idle"
  <2>1. r \in Receipts
    BY DEF IntakeInv, TypeOK, Links, ReceiptOf, Receipts
  <2>2. CommitOf(c, r) /\ UNCHANGED <<link, opened, rung>>
    BY DEF Ignore, CommitOf
  <2>3. call'[c] = "idle"
    BY DEF Ignore, Answer, Goto, IntakeInv, TypeOK
  <2> QED
    BY <2>1, <2>2, <2>3
<1> HIDE DEF r
<1>2. /\ req[c] \in Payloads /\ req[c].id \in Ids /\ req[c].case \in Cases
      /\ inbox[req[c].id] = NoEntry
      /\ got[c] = link[req[c].case]
      /\ \A i \in Ids : inbox'[i] = IF i = req[c].id
                                    THEN [payload |-> req[c], receipt |-> r]
                                    ELSE inbox[i]
      /\ \A p \in Payloads : answers'[p] = IF p = req[c] THEN {r} ELSE answers[p]
      /\ \A d \in Calls : call'[d] = IF d = c THEN call'[c] ELSE call[d]
      /\ \A d \in Calls : d # c => req'[d] = req[d] /\ got'[d] = got[d]
      /\ call'[c] \in {"idle", "bell"}
      /\ call'[c] = "bell" => req'[c] = req[c]
  BY <1>1, CommitFacts
<1>3. TypeOK' /\ Carried' /\ LocksExclude' /\ EntriesAreWhole' /\ AnsweredIsRecorded'
  <2>1. link' \in [Cases -> Links] /\ opened' \subseteq Convs /\ rung' \in [Payloads -> Nat]
    BY <1>1 DEF IntakeInv, TypeOK
  <2> QED
    BY <1>1, <2>1, CommitKeeps DEF TypeOK
<1>4. BellsArePending' /\ BellRingsOnce'
  BY <1>1, CommitKeepsBells
<1>5. ReadIsFresh'
  <2>1. ASSUME NEW d \in Calls, d # c, call[d] \in {"link", "write"}
        PROVE  req[d].id # req[c].id /\ req[d] \in Payloads
    BY <2>1 DEF IntakeInv, LocksExclude, Carried, HasEventLock, Ignore
  <2> QED
    BY <1>1, <1>2, <2>1, PayloadFacts DEF IntakeInv, ReadIsFresh
<1>6. RowsAreSound'
  BY <1>1 DEF IntakeInv, RowsAreSound
<1>7. NewestWins'
  <2>1. req[c].version <= link[req[c].case].version
    BY <1>2, PayloadFacts DEF Ignore, IntakeInv, TypeOK, Links
  <2>2. \A k \in Cases : RecordedFor(k)' =
           IF k = req[c].case THEN RecordedFor(k) \cup {req[c]} ELSE RecordedFor(k)
    BY <1>2, PayloadFacts DEF RecordedFor
  <2> QED
    BY <1>1, <2>1, <2>2 DEF IntakeInv, NewestWins
<1> QED
  BY <1>3, <1>4, <1>5, <1>6, <1>7 DEF IntakeInv

LEMMA AcceptKeeps ==
    ASSUME IntakeInv, NEW c \in Calls, Accept(c)
    PROVE  IntakeInv'
<1> DEFINE k == req[c].case
<1>0. PICK v \in Convs \cup {NoConv} :
         /\ IF OpensSession(req[c], got[c])
            THEN v \in Convs \ opened /\ opened' = opened \cup {v}
            ELSE v = got[c].conv /\ UNCHANGED opened
         /\ LET row == RowAfter(req[c], got[c], v)
            IN /\ link' = [link EXCEPT ![k] = row]
               /\ InsertInbox(c, ReceiptOf(row))
               /\ Answer(c, ReceiptOf(row), IF Rings(req[c], got[c]) THEN "bell" ELSE "idle")
  BY DEF Accept
<1> DEFINE row == RowAfter(req[c], got[c], v)
<1> DEFINE r == ReceiptOf(row)
<1>a. req[c] \in Payloads /\ got[c] \in Links
  BY DEF Accept, IntakeInv, Carried, TypeOK
<1>1. /\ r \in Receipts /\ CommitOf(c, r) /\ UNCHANGED rung
      /\ row \in Links /\ row.version = req[c].version /\ row.conv = v
      /\ SameContent(req[c], row)
      /\ call'[c] = "bell" => Missing[req[c].body] # {}
      /\ link' = [link EXCEPT ![k] = row]
  <2>1. CommitOf(c, r)
    BY <1>0 DEF CommitOf, Accept
  <2>2. UNCHANGED rung
    BY DEF Accept
  <2>3. call'[c] = "bell" => Rings(req[c], got[c])
    BY <1>0 DEF Answer, Goto, IntakeInv, TypeOK
  <2> QED
    BY <1>0, <1>a, <2>1, <2>2, <2>3, RowFacts DEF Rings
<1> HIDE DEF r, row
<1>2. /\ req[c] \in Payloads /\ req[c].id \in Ids /\ req[c].case \in Cases
      /\ inbox[req[c].id] = NoEntry
      /\ got[c] = link[req[c].case]
      /\ \A i \in Ids : inbox'[i] = IF i = req[c].id
                                    THEN [payload |-> req[c], receipt |-> r]
                                    ELSE inbox[i]
      /\ \A p \in Payloads : answers'[p] = IF p = req[c] THEN {r} ELSE answers[p]
      /\ \A d \in Calls : call'[d] = IF d = c THEN call'[c] ELSE call[d]
      /\ \A d \in Calls : d # c => req'[d] = req[d] /\ got'[d] = got[d]
      /\ call'[c] \in {"idle", "bell"}
      /\ call'[c] = "bell" => req'[c] = req[c]
  BY <1>1, CommitFacts
<1>b. /\ req[c].version > link[k].version
      /\ \A l \in Cases : link'[l] = IF l = k THEN row ELSE link[l]
  BY <1>1, <1>2 DEF Accept, IntakeInv, TypeOK
<1>3. TypeOK' /\ Carried' /\ LocksExclude' /\ EntriesAreWhole' /\ AnsweredIsRecorded'
  <2>1. link' \in [Cases -> Links]
    BY <1>1, <1>2 DEF IntakeInv, TypeOK
  <2>2. opened' \subseteq Convs
    BY <1>0 DEF IntakeInv, TypeOK
  <2>3. rung' \in [Payloads -> Nat]
    BY <1>1 DEF IntakeInv, TypeOK
  <2> QED
    BY <1>1, <2>1, <2>2, <2>3, CommitKeeps DEF TypeOK
<1>4. BellsArePending' /\ BellRingsOnce'
  BY <1>1, CommitKeepsBells
<1>5. ReadIsFresh'
  <2>1. ASSUME NEW d \in Calls, d # c, call[d] \in {"link", "write"}
        PROVE  req[d].id # req[c].id /\ req[d].case # k /\ req[d] \in Payloads
    BY <2>1 DEF IntakeInv, LocksExclude, Carried, HasEventLock, HasCaseLock, Accept
  <2> QED
    BY <1>2, <1>b, <2>1, PayloadFacts DEF IntakeInv, ReadIsFresh
<1>6. RowsAreSound'
  <2>1. row.version # 0
    BY <1>1, <1>2, PayloadFacts
  <2>2. row.conv # NoConv => row.conv \in opened'
    BY <1>0, <1>1, <1>2 DEF IntakeInv, RowsAreSound
  <2>3. \A l \in Cases : l # k /\ row.conv # NoConv => link[l].conv # row.conv
    BY <1>0, <1>1, <1>2, IntakeAssumption DEF IntakeInv, RowsAreSound
  <2>4. opened \subseteq opened'
    BY <1>0
  <2> QED
    BY <1>2, <1>b, <2>1, <2>2, <2>3, <2>4 DEF IntakeInv, RowsAreSound
<1>7. NewestWins'
  <2>1. \A l \in Cases : RecordedFor(l)' =
           IF l = k THEN RecordedFor(l) \cup {req[c]} ELSE RecordedFor(l)
    BY <1>2, PayloadFacts DEF RecordedFor
  <2>2. \A l \in Cases \ {k} : link'[l] = link[l] /\ RecordedFor(l)' = RecordedFor(l)
    BY <1>b, <2>1
  <2>3. \A p \in RecordedFor(k) : p.version \in Nat /\ p.version <= link[k].version
    BY <1>2, PayloadFacts DEF IntakeInv, NewestWins, RecordedFor
  <2>4. link[k].version \in Nat /\ req[c].version \in Nat
    BY <1>2, PayloadFacts DEF IntakeInv, TypeOK, Links
  <2>5. ASSUME NEW l \in Cases, l = k
        PROVE  /\ \A p \in RecordedFor(l)' : p.version <= link'[l].version
               /\ \E p \in RecordedFor(l)' :
                     p.version = link'[l].version /\ SameContent(p, link'[l])
    <3>1. link'[l] = row /\ RecordedFor(l)' = RecordedFor(l) \cup {req[c]}
      BY <1>b, <2>1, <2>5
    <3>2. \A p \in RecordedFor(l) : p.version <= req[c].version
      BY <1>b, <2>3, <2>4, <2>5
    <3>3. \A p \in RecordedFor(l)' : p.version <= link'[l].version
      BY <1>1, <2>4, <3>1, <3>2
    <3> QED
      BY <1>1, <3>1, <3>3
  <2> QED
    BY <2>2, <2>5 DEF IntakeInv, NewestWins
<1> QED
  BY <1>3, <1>4, <1>5, <1>6, <1>7 DEF IntakeInv

LEMMA NextKeeps == IntakeInv /\ [Next]_vars => IntakeInv'
<1> SUFFICES ASSUME IntakeInv, [Next]_vars PROVE IntakeInv'
  OBVIOUS
<1>1. CASE UNCHANGED vars
  BY <1>1 DEF vars, IntakeInv, TypeOK, Carried, LocksExclude, ReadIsFresh, EntriesAreWhole,
              RowsAreSound, BellsArePending, AnsweredIsRecorded, NewestWins, BellRingsOnce,
              RecordedFor
<1>2. ASSUME NEW c \in Calls, CallStep(c) PROVE IntakeInv'
  BY <1>2, LockEventKeeps, LockCaseKeeps, FindInboxKeeps, ReadLinkKeeps, IgnoreKeeps,
     ConflictKeeps, AcceptKeeps, RingKeeps DEF CallStep
<1>3. ASSUME NEW c \in Calls, Fail(c) PROVE IntakeInv'
  BY <1>3, FailKeeps
<1>4. ASSUME NEW c \in Calls, NEW p \in Payloads, Receive(c, p) PROVE IntakeInv'
  BY <1>4, ReceiveKeeps
<1>5. ASSUME NEW k \in Cases, DeleteConversation(k) PROVE IntakeInv'
  BY <1>5, DeleteConversationKeeps
<1> QED
  BY <1>1, <1>2, <1>3, <1>4, <1>5 DEF Next

-------------------------------------------------------------------------------
(* The theorems *)

THEOREM InvHolds == Spec => []IntakeInv
  BY IntakeInit, NextKeeps, PTL DEF Spec

\* Every variable keeps its type (the rows, the receipts and the answers).
THEOREM TypesHold == Spec => []TypeOK
<1>1. IntakeInv => TypeOK
  BY DEF IntakeInv
<1> QED
  BY <1>1, InvHolds, PTL

\* However many requests deliver however many events, repeated and out of order,
\* a case shows the highest version on record (ingest_case_event).
THEOREM NewestAlwaysWins == Spec => []NewestWins
<1>1. IntakeInv => NewestWins
  BY DEF IntakeInv
<1> QED
  BY <1>1, InvHolds, PTL

\* A receipt that was answered is on record, and it is the only answer an event
\* ever gets (FindInbox, Ignore, Accept).
THEOREM AnswersAreRecorded == Spec => []AnsweredIsRecorded
<1>1. IntakeInv => AnsweredIsRecorded
  BY DEF IntakeInv
<1> QED
  BY <1>1, InvHolds, PTL

\* No event rings its bell twice and none that is not committed rings
\* (_notify_rfi).
THEOREM BellsRingOnce == Spec => []BellRingsOnce
<1>1. IntakeInv => BellRingsOnce
  BY DEF IntakeInv
<1> QED
  BY <1>1, InvHolds, PTL

-------------------------------------------------------------------------------
(* CaseIntake implements CaseLedger *)

LEMMA LedgerInit == Init => Ledger!CLInit
<1> SUFFICES ASSUME Init PROVE Ledger!CLInit
  OBVIOUS
<1>1. [k \in Cases |-> link[k].version] = [k \in Cases |-> 0]
  BY DEF Init, NoLink
<1>2. [k \in Cases |-> link[k].status = "cancelled"] = [k \in Cases |-> FALSE]
  BY DEF Init, NoLink
<1>3. [k \in Cases |-> link[k].conv] = [k \in Cases |-> NoConv]
  BY DEF Init, NoLink
<1>4. {i \in Ids : inbox[i] # NoEntry} = {}
  BY DEF Init
<1> QED
  BY <1>1, <1>2, <1>3, <1>4 DEF Ledger!CLInit

\* The quiet steps leave the ledger alone.
LEMMA LedgerStutter ==
    ASSUME UNCHANGED <<link, inbox>>
    PROVE  UNCHANGED Ledger!clVars
  BY DEF Ledger!clVars

\* An event that is ignored is a record of the ledger.
LEMMA LedgerRecord ==
    ASSUME IntakeInv, NEW c \in Calls, Ignore(c)
    PROVE  \E p \in Payloads : Ledger!Record(p)
<1> DEFINE r == ReceiptOf(got[c])
<1>1. r \in Receipts /\ CommitOf(c, r) /\ UNCHANGED link
  BY DEF Ignore, CommitOf, IntakeInv, TypeOK, Links, ReceiptOf, Receipts
<1> HIDE DEF r
<1>2. /\ req[c] \in Payloads /\ req[c].id \in Ids /\ req[c].case \in Cases
      /\ inbox[req[c].id] = NoEntry
      /\ got[c] = link[req[c].case]
      /\ \A i \in Ids : inbox'[i] = IF i = req[c].id
                                    THEN [payload |-> req[c], receipt |-> r]
                                    ELSE inbox[i]
  BY <1>1, CommitFacts
<1>3. [payload |-> req[c], receipt |-> r] # NoEntry
  BY <1>2, PayloadFacts DEF NoEntry
<1>4. {i \in Ids : inbox[i] # NoEntry}' = {i \in Ids : inbox[i] # NoEntry} \cup {req[c].id}
  BY <1>2, <1>3
<1>5. req[c].id \notin {i \in Ids : inbox[i] # NoEntry}
  BY <1>2
<1>6. [k \in Cases |-> link[k].version][req[c].case] >= req[c].version
  BY <1>2, PayloadFacts DEF Ignore, IntakeInv, TypeOK, Links
<1> QED
  BY <1>1, <1>2, <1>4, <1>5, <1>6 DEF Ledger!Record

\* A conversation that is deleted is an unlinking.
LEMMA LedgerUnlink ==
    ASSUME IntakeInv, NEW k \in Cases, DeleteConversation(k)
    PROVE  Ledger!Unlink(k)
<1>1. link' = [link EXCEPT ![k].conv = NoConv] /\ link \in [Cases -> Links]
  BY DEF IntakeInv, TypeOK, DeleteConversation
<1>2. \A l \in Cases : /\ link'[l].version = link[l].version
                       /\ link'[l].status = link[l].status
                       /\ link'[l].conv = IF l = k THEN NoConv ELSE link[l].conv
  BY <1>1 DEF Links
<1>3. [l \in Cases |-> link[l].version]' = [l \in Cases |-> link[l].version]
  BY <1>2
<1>4. [l \in Cases |-> link[l].status = "cancelled"]'
         = [l \in Cases |-> link[l].status = "cancelled"]
  BY <1>2
<1>5. [l \in Cases |-> link[l].conv]'
         = [[l \in Cases |-> link[l].conv] EXCEPT ![k] = NoConv]
  BY <1>2
<1> QED
  BY <1>3, <1>4, <1>5 DEF Ledger!Unlink, DeleteConversation

\* An event that is accepted advances its case.
LEMMA LedgerAdvance ==
    ASSUME IntakeInv, NEW c \in Calls, Accept(c)
    PROVE  \E p \in Payloads : Ledger!Advance(p)
<1>0. PICK v \in Convs \cup {NoConv} :
         /\ IF OpensSession(req[c], got[c])
            THEN v \in Convs \ opened /\ opened' = opened \cup {v}
            ELSE v = got[c].conv /\ UNCHANGED opened
         /\ LET row == RowAfter(req[c], got[c], v)
            IN /\ link' = [link EXCEPT ![req[c].case] = row]
               /\ InsertInbox(c, ReceiptOf(row))
               /\ Answer(c, ReceiptOf(row), IF Rings(req[c], got[c]) THEN "bell" ELSE "idle")
  BY DEF Accept
<1> DEFINE row == RowAfter(req[c], got[c], v)
<1> DEFINE r == ReceiptOf(row)
<1> DEFINE k == req[c].case
<1>1. req[c] \in Payloads /\ got[c] \in Links
  BY DEF Accept, IntakeInv, Carried, TypeOK
<1>2. /\ r \in Receipts /\ CommitOf(c, r)
      /\ row.version = req[c].version /\ row.conv = v
      /\ row.status = StatusAfter(req[c], got[c])
      /\ link' = [link EXCEPT ![k] = row]
  <2>1. CommitOf(c, r)
    BY <1>0 DEF CommitOf, Accept
  <2>2. row.status = StatusAfter(req[c], got[c])
    BY DEF RowAfter
  <2> QED
    BY <1>0, <1>1, <2>1, <2>2, RowFacts
<1> HIDE DEF r, row
<1>3. /\ k \in Cases /\ req[c].id \in Ids
      /\ inbox[req[c].id] = NoEntry
      /\ got[c] = link[k]
      /\ \A i \in Ids : inbox'[i] = IF i = req[c].id
                                    THEN [payload |-> req[c], receipt |-> r]
                                    ELSE inbox[i]
  <2>1. r \in Receipts /\ CommitOf(c, r)
    BY <1>2
  <2> QED
    BY <2>1, CommitFacts, ZenonT(60)
<1>4. \A l \in Cases : link'[l] = IF l = k THEN row ELSE link[l]
  BY <1>2, <1>3 DEF IntakeInv, TypeOK
<1>5. [payload |-> req[c], receipt |-> r] # NoEntry
  BY <1>1, PayloadFacts DEF NoEntry
<1>6. /\ req[c].id \notin {i \in Ids : inbox[i] # NoEntry}
      /\ {i \in Ids : inbox[i] # NoEntry}' = {i \in Ids : inbox[i] # NoEntry} \cup {req[c].id}
  BY <1>3, <1>5
<1>7. /\ link[k].version < req[c].version
      /\ [l \in Cases |-> link[l].version]'
            = [[l \in Cases |-> link[l].version] EXCEPT ![k] = req[c].version]
  BY <1>1, <1>2, <1>3, <1>4, PayloadFacts DEF Accept, IntakeInv, TypeOK, Links
<1>8. got[c].version = 0 => got[c] = NoLink
  BY <1>3 DEF IntakeInv, RowsAreSound
<1>9. \E b \in BOOLEAN :
         /\ link[k].status = "cancelled" => b
         /\ b => link[k].status = "cancelled" \/ req[c].kind = "cancelled"
         /\ [l \in Cases |-> link[l].status = "cancelled"]'
               = [[l \in Cases |-> link[l].status = "cancelled"] EXCEPT ![k] = b]
  <2> DEFINE b == row.status = "cancelled"
  <2>1. /\ link[k].status = "cancelled" => b
        /\ b => link[k].status = "cancelled" \/ req[c].kind = "cancelled"
    BY <1>1, <1>2, <1>3, <1>8, CancelledStays
  <2>2. [l \in Cases |-> link[l].status = "cancelled"]'
           = [[l \in Cases |-> link[l].status = "cancelled"] EXCEPT ![k] = b]
    BY <1>3, <1>4
  <2> QED
    BY <2>1, <2>2
<1>10. [l \in Cases |-> link[l].conv]' = [[l \in Cases |-> link[l].conv] EXCEPT ![k] = v]
  <2>1. row.conv = v
    BY <1>2
  <2> QED
    BY <1>3, <1>4, <2>1
<1>11. \/ UNCHANGED [l \in Cases |-> link[l].conv]
       \/ /\ req[c].kind = "requested" /\ ~(link[k].status = "cancelled")
          /\ link[k].conv = NoConv
          /\ v \in Convs
          /\ \A l \in Cases : link[l].conv # v
  <2>1. CASE OpensSession(req[c], got[c])
    BY <1>0, <1>1, <1>3, <1>8, <2>1, CancelledStays, IntakeAssumption
       DEF IntakeInv, RowsAreSound
  <2>2. CASE ~OpensSession(req[c], got[c])
    BY <1>0, <1>3, <1>10, <2>2
  <2> QED
    BY <2>1, <2>2
<1>12. \/ UNCHANGED [l \in Cases |-> link[l].conv]
       \/ /\ req[c].kind = "requested"
          /\ ~[l \in Cases |-> link[l].status = "cancelled"][k]
          /\ [l \in Cases |-> link[l].conv][k] = NoConv
          /\ \E w \in Convs :
                /\ \A l \in Cases : [m \in Cases |-> link[m].conv][l] # w
                /\ [l \in Cases |-> link[l].conv]'
                      = [[l \in Cases |-> link[l].conv] EXCEPT ![k] = w]
  BY <1>3, <1>10, <1>11, Zenon
<1>13. \E b \in BOOLEAN :
         /\ [l \in Cases |-> link[l].status = "cancelled"][k] => b
         /\ b => [l \in Cases |-> link[l].status = "cancelled"][k] \/ req[c].kind = "cancelled"
         /\ [l \in Cases |-> link[l].status = "cancelled"]'
               = [[l \in Cases |-> link[l].status = "cancelled"] EXCEPT ![k] = b]
  BY <1>3, <1>9, Zenon
<1>14. [l \in Cases |-> link[l].version][k] < req[c].version
  BY <1>3, <1>7
<1>15. ASSUME NEW p \in Payloads, p = req[c] PROVE Ledger!Advance(p)
  BY <1>6, <1>7, <1>12, <1>13, <1>14, <1>15 DEF Ledger!Advance
<1> QED
  BY <1>1, <1>15

\* The requests, with all their statements, locks and failures, implement the
\* atomic ledger of CaseLedger.
THEOREM Refinement == Spec => KeepsPromise
<1>1. IntakeInv /\ [Next]_vars => [Ledger!CLNext]_(Ledger!clVars)
  <2> SUFFICES ASSUME IntakeInv, [Next]_vars PROVE [Ledger!CLNext]_(Ledger!clVars)
    OBVIOUS
  <2>1. ASSUME NEW c \in Calls, Ignore(c) PROVE Ledger!CLNext
    BY <2>1, LedgerRecord DEF Ledger!CLNext
  <2>2. ASSUME NEW c \in Calls, Accept(c) PROVE Ledger!CLNext
    BY <2>2, LedgerAdvance DEF Ledger!CLNext
  <2>3. ASSUME NEW k \in Cases, DeleteConversation(k) PROVE Ledger!CLNext
    BY <2>3, LedgerUnlink DEF Ledger!CLNext
  <2>4. ASSUME NEW c \in Calls,
               \/ LockEvent(c) \/ LockCase(c) \/ FindInbox(c) \/ ReadLink(c)
               \/ Conflict(c) \/ Ring(c) \/ Fail(c)
        PROVE  UNCHANGED <<link, inbox>>
    BY <2>4 DEF LockEvent, LockCase, FindInbox, ReadLink, Conflict, Ring, Fail
  <2>5. ASSUME NEW c \in Calls, NEW p \in Payloads, Receive(c, p)
        PROVE  UNCHANGED <<link, inbox>>
    BY <2>5 DEF Receive
  <2>6. CASE UNCHANGED vars
    BY <2>6, LedgerStutter DEF vars
  <2> QED
    BY <2>1, <2>2, <2>3, <2>4, <2>5, <2>6, LedgerStutter DEF Next, CallStep
<1> QED
  BY <1>1, InvHolds, LedgerInit, PTL DEF Spec, KeepsPromise, Ledger!CLSpec
===============================================================================
