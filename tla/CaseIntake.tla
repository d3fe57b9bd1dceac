------------------------------ MODULE CaseIntake ------------------------------
(***************************************************************************)
(* The intake of cases from other systems (case_intake/service.py and its  *)
(* endpoint, api/case_intake.py): concurrent requests deliver events of a  *)
(* source, repeated, late and out of order, each in one transaction under  *)
(* two advisory locks; a bell rings after the commit; a user may delete    *)
(* the conversation of a case (orch/store.py).                             *)
(*                                                                         *)
(* Left out: the checks of the endpoint that need no state (credential,    *)
(* schema, allowlists), the fields of a case that decide nothing, and the  *)
(* delivery of the bell.  A source belongs to one tenant.                  *)
(***************************************************************************)
EXTENDS Integers

CONSTANTS
    Cases,      \* external_case_id
    Ids,        \* event_id
    Payloads,   \* events a source may send: id, kind, case, version and body
    Missing,    \* Missing[b]: the normalised missing fields of body b
    Convs,      \* ids of conversations
    Calls,      \* requests under way at once
    Shadow,     \* the profile of the product is auto_start: shadow
    NoPayload, NoConv, NoReceipt

Kinds == {"snapshot", "requested", "cancelled"}

\* Bodies are the contents of a case; case.cancelled carries one too.
Bodies == DOMAIN Missing

ASSUME IntakeAssumption ==
    /\ \A p \in Payloads :
          /\ p.id \in Ids
          /\ p.kind \in Kinds
          /\ p.case \in Cases
          /\ p.version \in Nat \ {0}
          /\ p.body \in Bodies
    /\ NoPayload \notin Payloads
    /\ NoConv \notin Convs
    /\ Shadow \in BOOLEAN
    /\ "none" \notin Bodies

VARIABLES
    link,       \* external_case_links: version 0 for a case without a row
    inbox,      \* integration_inbox: the payload and the receipt of an event
    opened,     \* conversations the intake has created
    call,       \* call[c]: where a request stands
    req,        \* req[c]: its event
    got,        \* got[c]: the row it read FOR UPDATE
    rung,       \* rung[p]: bells rung for the event p
    answers     \* answers[p]: receipts answered with 202 to event p

vars == <<link, inbox, opened, call, req, got, rung, answers>>

Statuses == {"received", "missing_information", "ready_for_preassessment", "cancelled"}

NoLink == [version |-> 0, kind |-> "none", body |-> "none", status |-> "none",
           conv |-> NoConv]

Links == [version : Nat, kind : Kinds \cup {"none"}, body : Bodies \cup {"none"},
          status : Statuses \cup {"none"}, conv : Convs \cup {NoConv}]

\* What a receipt says of the case, apart from the way the event was taken.
ReceiptOf(row) == [status |-> row.status, conv |-> row.conv]
Receipts == [status : Statuses \cup {"none"}, conv : Convs \cup {NoConv}]

NoEntry == [payload |-> NoPayload, receipt |-> NoReceipt]

\* Where a request holds the lock of its event and the lock of its case, and
\* where it holds the row it read.
HasEventLock == {"case", "inbox", "link", "write"}
HasCaseLock  == {"inbox", "link", "write"}

EventFree(i) == \A c \in Calls : call[c] \in HasEventLock => req[c].id # i
CaseFree(k)  == \A c \in Calls : call[c] \in HasCaseLock => req[c].case # k
RowFree(k)   ==
    \A c \in Calls : call[c] = "write" /\ got[c].version > 0 => req[c].case # k

Init ==
    /\ link = [k \in Cases |-> NoLink]
    /\ inbox = [i \in Ids |-> NoEntry]
    /\ opened = {}
    /\ call = [c \in Calls |-> "idle"]
    /\ req = [c \in Calls |-> NoPayload]
    /\ got = [c \in Calls |-> NoLink]
    /\ rung = [p \in Payloads |-> 0]
    /\ answers = [p \in Payloads |-> {}]

\* A request that is over forgets its event, and the row it read no later than
\* its transaction.
Goto(c, pc) ==
    /\ call' = [call EXCEPT ![c] = pc]
    /\ req' = IF pc = "idle" THEN [req EXCEPT ![c] = NoPayload] ELSE req
    /\ got' = IF pc \in {"idle", "bell"} THEN [got EXCEPT ![c] = NoLink] ELSE got

-------------------------------------------------------------------------------
(* The transaction, statement by statement; a faulty variant of a definition *)
(* stands before it.                                                         *)

\* A source sends an event, for the first time or again.
Receive(c, p) ==
    /\ call[c] = "idle"
    /\ req' = [req EXCEPT ![c] = p]
    /\ call' = [call EXCEPT ![c] = "event"]
    /\ UNCHANGED <<link, inbox, opened, got, rung, answers>>

LockEvent(c) ==
    /\ call[c] = "event"
    /\ EventFree(req[c].id)
    /\ Goto(c, "case")
    /\ UNCHANGED <<link, inbox, opened, rung, answers>>

LockCase(c) ==
    /\ call[c] = "case"
    /\ CaseFree(req[c].case)
    /\ Goto(c, "inbox")
    /\ UNCHANGED <<link, inbox, opened, rung, answers>>

\* A 202 answer with receipt r; the transaction is over.
Answer(c, r, pc) ==
    /\ answers' = [answers EXCEPT ![req[c]] = @ \cup {r}]
    /\ Goto(c, pc)

\* A faulty FindInbox: a repeated event is told of the case as it is now.
FindInboxCurrent(c) ==
    /\ call[c] = "inbox"
    /\ \/ /\ inbox[req[c].id] = NoEntry
          /\ Goto(c, "link")
          /\ UNCHANGED answers
       \/ /\ inbox[req[c].id].payload = req[c]
          /\ Answer(c, ReceiptOf(link[req[c].case]), "idle")
       \/ /\ inbox[req[c].id].payload \notin {NoPayload, req[c]}
          /\ Goto(c, "idle")
          /\ UNCHANGED answers
    /\ UNCHANGED <<link, inbox, opened, rung>>

\* The event is on record: the same payload gets the receipt of old, another
\* one 409 idempotency_conflict.
FindInbox(c) ==
    /\ call[c] = "inbox"
    /\ \/ /\ inbox[req[c].id] = NoEntry
          /\ Goto(c, "link")
          /\ UNCHANGED answers
       \/ /\ inbox[req[c].id].payload = req[c]
          /\ Answer(c, inbox[req[c].id].receipt, "idle")
       \/ /\ inbox[req[c].id].payload \notin {NoPayload, req[c]}
          /\ Goto(c, "idle")
          /\ UNCHANGED answers
    /\ UNCHANGED <<link, inbox, opened, rung>>

\* SELECT ... FOR UPDATE.
ReadLink(c) ==
    /\ call[c] = "link"
    /\ RowFree(req[c].case)
    /\ got' = [got EXCEPT ![c] = link[req[c].case]]
    /\ call' = [call EXCEPT ![c] = "write"]
    /\ UNCHANGED <<link, inbox, opened, req, rung, answers>>

\* INSERT INTO integration_inbox: its unique index takes an event id once; the
\* error it raises otherwise is a Fail.
InsertInbox(c, r) ==
    /\ inbox[req[c].id] = NoEntry
    /\ inbox' = [inbox EXCEPT ![req[c].id] = [payload |-> req[c], receipt |-> r]]

SameContent(p, row) == p.kind = row.kind /\ p.body = row.body

\* An older version, or the current one again: on record, and no more.
Ignore(c) ==
    /\ call[c] = "write"
    /\ \/ req[c].version < got[c].version
       \/ req[c].version = got[c].version /\ SameContent(req[c], got[c])
    /\ InsertInbox(c, ReceiptOf(got[c]))
    /\ Answer(c, ReceiptOf(got[c]), "idle")
    /\ UNCHANGED <<link, opened, rung>>

\* A faulty Conflict: forgets that the kind is part of the content.
ConflictByBody(c) ==
    /\ call[c] = "write"
    /\ req[c].version = got[c].version
    /\ req[c].body # got[c].body
    /\ Goto(c, "idle")
    /\ UNCHANGED <<link, inbox, opened, rung, answers>>

\* 409 source_version_conflict: the transaction is rolled back.
Conflict(c) ==
    /\ call[c] = "write"
    /\ req[c].version = got[c].version
    /\ ~SameContent(req[c], got[c])
    /\ Goto(c, "idle")
    /\ UNCHANGED <<link, inbox, opened, rung, answers>>

\* _case_status, and what keeps the status of a case that is known.
StatusAfter(p, row) ==
    IF row.version > 0 /\ (p.kind = "snapshot" \/ row.status = "cancelled")
    THEN row.status
    ELSE CASE p.kind = "cancelled" -> "cancelled"
           [] p.kind # "cancelled" /\ Missing[p.body] # {} -> "missing_information"
           [] p.kind = "requested" /\ Missing[p.body] = {} -> "ready_for_preassessment"
           [] OTHER -> "received"

\* A faulty OpensSession: every request opens a session of its own.
OpensSessionAgain(p, row) ==
    /\ p.kind = "requested"
    /\ Shadow
    /\ StatusAfter(p, row) # "cancelled"

OpensSession(p, row) ==
    /\ p.kind = "requested"
    /\ Shadow
    /\ StatusAfter(p, row) # "cancelled"
    /\ row.conv = NoConv

RowAfter(p, row, v) ==
    [version |-> p.version, kind |-> p.kind, body |-> p.body,
     status |-> StatusAfter(p, row), conv |-> v]

MissingOf(row) == IF row.version = 0 THEN {} ELSE Missing[row.body]

\* The missing fields are new: the bell will ring.
Rings(p, row) ==
    /\ p.kind # "cancelled"
    /\ Missing[p.body] # {}
    /\ Missing[p.body] # MissingOf(row)

\* A newer version, or the first one: the row, the conversation, the inbox and
\* the commit.
Accept(c) ==
    /\ call[c] = "write"
    /\ req[c].version > got[c].version
    /\ \E v \in Convs \cup {NoConv} :
          /\ IF OpensSession(req[c], got[c])
             THEN v \in Convs \ opened /\ opened' = opened \cup {v}
             ELSE v = got[c].conv /\ UNCHANGED opened
          /\ LET row == RowAfter(req[c], got[c], v)
             IN /\ link' = [link EXCEPT ![req[c].case] = row]
                /\ InsertInbox(c, ReceiptOf(row))
                /\ Answer(c, ReceiptOf(row),
                          IF Rings(req[c], got[c]) THEN "bell" ELSE "idle")
    /\ UNCHANGED rung

\* _notify_rfi, after the commit and outside of every lock.
Ring(c) ==
    /\ call[c] = "bell"
    /\ rung' = [rung EXCEPT ![req[c]] = @ + 1]
    /\ Goto(c, "idle")
    /\ UNCHANGED <<link, inbox, opened, answers>>

\* The database fails or the process dies: what is not committed is undone, a
\* bell that has not rung is lost.
Fail(c) ==
    /\ call[c] # "idle"
    /\ Goto(c, "idle")
    /\ UNCHANGED <<link, inbox, opened, rung, answers>>

\* DELETE of a conversation: ON DELETE SET NULL writes the row of the case.
DeleteConversation(k) ==
    /\ link[k].conv # NoConv
    /\ RowFree(k)
    /\ link' = [link EXCEPT ![k].conv = NoConv]
    /\ UNCHANGED <<inbox, opened, call, req, got, rung, answers>>

-------------------------------------------------------------------------------
CallStep(c) ==
    \/ LockEvent(c)
    \/ LockCase(c)
    \/ FindInbox(c)
    \/ ReadLink(c)
    \/ Ignore(c)
    \/ Conflict(c)
    \/ Accept(c)
    \/ Ring(c)

Next ==
    \/ \E c \in Calls : CallStep(c) \/ Fail(c) \/ \E p \in Payloads : Receive(c, p)
    \/ \E k \in Cases : DeleteConversation(k)

Spec == Init /\ [][Next]_vars

\* The threads run, and a lock goes to a request that keeps asking for it; no
\* failure is relied on.
FairSpec ==
    /\ Spec
    /\ \A c \in Calls :
          WF_vars(CallStep(c)) /\ SF_vars(LockEvent(c)) /\ SF_vars(LockCase(c))

-------------------------------------------------------------------------------
(* Properties *)

\* The variables have their types.
TypeOK ==
    /\ link \in [Cases -> Links]
    /\ inbox \in [Ids -> [payload : Payloads \cup {NoPayload},
                          receipt : Receipts \cup {NoReceipt}]]
    /\ opened \subseteq Convs
    /\ call \in [Calls -> {"idle", "event", "bell"} \cup HasEventLock]
    /\ req \in [Calls -> Payloads \cup {NoPayload}]
    /\ got \in [Calls -> Links]
    /\ rung \in [Payloads -> Nat]
    /\ answers \in [Payloads -> SUBSET Receipts]

RecordedFor(k) == {p \in Payloads : p.case = k /\ inbox[p.id].payload = p}

\* In whatever order the events come, the row of a case shows the content of the
\* highest version on record, and every event on record has been weighed
\* against it (ingest_case_event).
NewestWins ==
    \A k \in Cases :
        /\ \A p \in RecordedFor(k) : p.version <= link[k].version
        /\ link[k].version > 0 =>
              \E p \in RecordedFor(k) :
                  p.version = link[k].version /\ SameContent(p, link[k])

\* What a source was answered is on record, and a repeated event gets the
\* answer it got before, whatever happened to the case in between.
AnsweredIsRecorded ==
    \A p \in Payloads : \A r \in answers[p] : inbox[p.id] = [payload |-> p, receipt |-> r]

\* The bell of an event rings at most once, however often the event is sent,
\* and never for an event that was not committed (_notify_rfi).
BellRingsOnce ==
    \A p \in Payloads :
        rung[p] > 0 => rung[p] = 1 /\ inbox[p.id].payload = p /\ Missing[p.body] # {}

\* The transactions implement the atomic ledger of CaseLedger.
Ledger == INSTANCE CaseLedger WITH
    version <- [k \in Cases |-> link[k].version],
    cancelled <- [k \in Cases |-> link[k].status = "cancelled"],
    session <- [k \in Cases |-> link[k].conv],
    recorded <- {i \in Ids : inbox[i] # NoEntry}
KeepsPromise == Ledger!CLSpec

\* Every request ends although it waits for two locks.
RequestEnds == \A c \in Calls : call[c] # "idle" ~> call[c] = "idle"
===============================================================================
