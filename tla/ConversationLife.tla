--------------------------- MODULE ConversationLife ---------------------------
(***************************************************************************)
(* The life of one conversation of a bank that is not the default tenant:  *)
(* requests create it, move it between groups, change its provider, write  *)
(* to it and delete it (api/conversations.py, orch/store.py,               *)
(* orch/store_groups.py), while the main agent's turns run and leave rows  *)
(* behind (orch/main_session.py).  A request is several statements, and    *)
(* nothing is held between them.                                           *)
(*                                                                         *)
(* A child row names its conversation as text; a trigger of the database   *)
(* resolves the name when the row is written.  The agent's memory is a     *)
(* session of the agent SDK, whose id the conversation keeps.              *)
(***************************************************************************)
EXTENDS Integers, FiniteSets

CONSTANTS
    Groups,      \* ids of conversation groups
    Callers,     \* requests
    MaxTurns,    \* bound: turns of the main agent
    MaxEvents,   \* bound: events that wait for the room
    MaxRows      \* bound: child rows that are kept

ASSUME LifeAssumption == {MaxTurns, MaxEvents, MaxRows} \subseteq Nat

NoGroup   == "no group"
NoSession == 0
Erased    == {"message", "active", "ended"}     \* kinds delete_conversation erases

VARIABLES
    groups,     \* absent, ours (of the same bank) or elsewhere (of another one)
    conv,       \* [there, status, group, session]
    rows,       \* messages, tasks and approvals: [n, kind, attached, home]
    written,    \* child rows written so far
    call,       \* the requests: [pc, what, group, doomed]
    events,     \* events that wait for the room
    turn,       \* the main agent's turn: [pc, number, expected, id, good]
    memory,     \* memory[id]: the last turn the session id remembers
    heard       \* the last turn whose answer is in the log

lifeVars == <<groups, conv, rows, written, call, events, turn, memory, heard>>

NoTurn == [pc |-> "idle", number |-> 0, expected |-> NoSession, id |-> NoSession, good |-> TRUE]
Stands == conv.there = "stands"
Ours   == {g \in Groups : groups[g] = "ours"}
Busy   == turn.pc # "idle"

\* A faulty Row: the reference is taken as it comes, without looking it up.
RowAsNamed(kind) == [n |-> written + 1, kind |-> kind, attached |-> TRUE, home |-> Stands]

\* shb_resolve_conversation_reference: a row of a conversation that is not
\* there has no reference and belongs to the default tenant.
Row(kind) == [n |-> written + 1, kind |-> kind, attached |-> Stands, home |-> Stands]

\* Rows past the bound are not kept.
Write(kind) ==
    IF written < MaxRows
    THEN rows' = rows \cup {Row(kind)} /\ written' = written + 1
    ELSE UNCHANGED <<rows, written>>

Raised == IF events < MaxEvents THEN events + 1 ELSE events

Advance(c, pc) == call' = [call EXCEPT ![c].pc = pc]

\* The request is answered, whatever the answer.
Idle      == [pc |-> "idle", what |-> "none", group |-> NoGroup, doomed |-> {}]
Answer(c) == call' = [call EXCEPT ![c] = [Idle EXCEPT !.pc = "answered"]]

-------------------------------------------------------------------------------

LifeInit ==
    /\ groups \in [Groups -> {"absent", "elsewhere"}]
    /\ conv \in {[there |-> t, status |-> "idle", group |-> NoGroup, session |-> NoSession] :
                    t \in {"never", "stands"}}
    /\ rows = {}
    /\ written = 0
    /\ call = [c \in Callers |-> Idle]
    /\ events = 0
    /\ turn = NoTurn
    /\ memory = [i \in 1 .. MaxTurns |-> 0]
    /\ heard = 0

(* Groups *)

CreateGroup(g) ==
    /\ groups[g] = "absent"
    /\ groups' = [groups EXCEPT ![g] = "ours"]
    /\ UNCHANGED <<conv, rows, written, call, events, turn, memory, heard>>

\* FOR UPDATE, then the conversations and the group in one transaction.
DeleteGroup(g) ==
    /\ groups[g] = "ours"
    /\ groups' = [groups EXCEPT ![g] = "absent"]
    /\ conv' = IF conv.group = g THEN [conv EXCEPT !.group = NoGroup] ELSE conv
    /\ UNCHANGED <<rows, written, call, events, turn, memory, heard>>

(* Requests.  Each but the first reads the conversation, and its owner. *)

Ask(c, what, g) ==
    /\ call[c].pc = "idle"
    /\ call' = [call EXCEPT ![c] = [pc |-> IF what = "create" THEN "group" ELSE "read",
                                    what |-> what, group |-> g, doomed |-> {}]]
    /\ UNCHANGED <<groups, conv, rows, written, events, turn, memory, heard>>

Checks(what) ==
    CASE what \in {"provider", "delete"} -> "running"
      [] what = "group"                  -> "group"
      [] what = "chat"                   -> "write"

ReadConversation(c) ==
    /\ call[c].pc = "read"
    /\ IF Stands THEN Advance(c, Checks(call[c].what)) ELSE Answer(c)
    /\ UNCHANGED <<groups, conv, rows, written, events, turn, memory, heard>>

\* _conv_is_running: the room, then the tasks; a read that fails says no.
CheckRunning(c) ==
    /\ call[c].pc = "running"
    /\ \/ /\ Busy \/ \E r \in rows : r.kind = "active"
          /\ Answer(c)
       \/ /\ ~Busy
          /\ Advance(c, IF call[c].what = "delete" THEN "pend" ELSE "update")
    /\ UNCHANGED <<groups, conv, rows, written, events, turn, memory, heard>>

\* can_use_group, when a group is given: one of ours that the caller made, or
\* any of ours for an administrator.
CheckGroup(c) ==
    /\ call[c].pc = "group"
    /\ \/ /\ call[c].group \in Ours \cup {NoGroup}
          /\ Advance(c, IF call[c].what = "create" THEN "insert" ELSE "update")
       \/ call[c].group # NoGroup /\ Answer(c)
    /\ UNCHANGED <<groups, conv, rows, written, events, turn, memory, heard>>

\* A faulty MayJoin: the group was looked up by can_use_group and is not
\* looked at again.
MayJoinAnyway(g) == TRUE

\* The foreign key, and the trigger that compares the tenants.
MayJoin(g) == g \in Ours \cup {NoGroup}

InsertConversation(c) ==
    /\ call[c].pc = "insert"
    /\ conv.there = "never"
    /\ conv' = IF MayJoin(call[c].group)
               THEN [conv EXCEPT !.there = "stands", !.group = call[c].group] ELSE conv
    /\ Answer(c)
    /\ UNCHANGED <<groups, rows, written, events, turn, memory, heard>>

\* update_conversation: of a provider nothing is kept here.
UpdateConversation(c) ==
    /\ call[c].pc = "update"
    /\ conv' = IF Stands /\ call[c].what = "group" /\ MayJoin(call[c].group)
               THEN [conv EXCEPT !.group = call[c].group] ELSE conv
    /\ Answer(c)
    /\ UNCHANGED <<groups, rows, written, events, turn, memory, heard>>

\* delete_conversation: it is there, and no approval waits.
CheckPending(c) ==
    /\ call[c].pc = "pend"
    /\ IF Stands /\ ~(\E r \in rows : r.kind = "pending") THEN Advance(c, "rows") ELSE Answer(c)
    /\ UNCHANGED <<groups, conv, rows, written, events, turn, memory, heard>>

DeleteRows(c) ==
    /\ call[c].pc = "rows"
    /\ call' = [call EXCEPT ![c].pc = "row", ![c].doomed = {r.n : r \in {r \in rows : r.kind \in Erased}}]
    /\ UNCHANGED <<groups, conv, rows, written, events, turn, memory, heard>>

\* DELETE FROM conversations, and the commit.  Rows written since the rows
\* were deleted stay, and so do the approvals: ON DELETE SET NULL.
DeleteConversation(c) ==
    /\ call[c].pc = "row"
    /\ rows' = {[r EXCEPT !.attached = FALSE] : r \in {r \in rows : r.n \notin call[c].doomed}}
    /\ conv' = [conv EXCEPT !.there = "gone", !.group = NoGroup]
    /\ Answer(c)
    /\ UNCHANGED <<groups, written, events, turn, memory, heard>>

\* A statement of a request fails; an open transaction is undone.
FailCall(c) ==
    /\ call[c].pc \in {"read", "group", "insert", "update", "pend", "rows", "row", "write"}
    /\ Answer(c)
    /\ UNCHANGED <<groups, conv, rows, written, events, turn, memory, heard>>

\* The message is written; the turn is another task of the event loop.
WriteMessage(c) ==
    /\ call[c].pc = "write"
    /\ Write("message")
    /\ events' = Raised
    /\ Answer(c)
    /\ UNCHANGED <<groups, conv, turn, memory, heard>>

(* The main agent's turn *)

\* _turn_runner, when the resume guard lets the event through; the room is
\* busy.  The conversation is running.
StartTurn ==
    /\ turn.pc = "idle"
    /\ events > 0
    /\ turn.number < MaxTurns
    /\ events' = events - 1
    /\ conv' = IF Stands THEN [conv EXCEPT !.status = "running"] ELSE conv
    /\ turn' = [NoTurn EXCEPT !.pc = "connect", !.number = turn.number + 1,
                              !.expected = IF Stands THEN conv.session ELSE NoSession]
    /\ UNCHANGED <<groups, rows, written, call, memory, heard>>

\* The client resumes the stored session; a session that cannot be resumed is
\* forgotten, and a fresh one is begun.
Connect ==
    /\ turn.pc = "connect"
    /\ \/ turn' = [turn EXCEPT !.pc = "stream", !.id = turn.expected] /\ UNCHANGED conv
       \/ /\ turn.expected # NoSession
          /\ conv' = [conv EXCEPT !.session = NoSession]
          /\ turn' = [turn EXCEPT !.pc = "stream", !.id = NoSession]
    /\ UNCHANGED <<groups, rows, written, call, events, memory, heard>>

\* The tools of the stream: orch_dispatch, and the gate's approvals.
CallTool(kind) ==
    /\ turn.pc = "stream"
    /\ Write(kind)
    /\ UNCHANGED <<groups, conv, call, events, turn, memory, heard>>

\* The result: the session goes on under its id or under a new one.
EndStream(id, good) ==
    /\ turn.pc = "stream"
    /\ id \in {turn.id, turn.number} \ {NoSession}
    /\ memory' = [memory EXCEPT ![id] = turn.number]
    /\ turn' = [turn EXCEPT !.pc = "session", !.id = id, !.good = good]
    /\ UNCHANGED <<groups, conv, rows, written, call, events, heard>>

\* A faulty StoreSession: only the first session of a conversation is stored.
StoreFirstSession ==
    /\ turn.pc = "session"
    /\ conv' = IF Stands /\ turn.expected = NoSession THEN [conv EXCEPT !.session = turn.id] ELSE conv
    /\ turn' = [turn EXCEPT !.pc = "answer"]
    /\ UNCHANGED <<groups, rows, written, call, events, memory, heard>>

StoreSession ==
    /\ turn.pc = "session"
    /\ conv' = IF Stands /\ turn.id # turn.expected THEN [conv EXCEPT !.session = turn.id] ELSE conv
    /\ turn' = [turn EXCEPT !.pc = "answer"]
    /\ UNCHANGED <<groups, rows, written, call, events, memory, heard>>

\* The assistant's message, or the system's when the result is an error.
StoreAnswer ==
    /\ turn.pc = "answer"
    /\ Write("message")
    /\ heard' = IF turn.good THEN turn.number ELSE heard
    /\ turn' = [turn EXCEPT !.pc = "status"]
    /\ UNCHANGED <<groups, conv, call, events, memory>>

EndTurn(status) ==
    /\ conv' = IF Stands THEN [conv EXCEPT !.status = status] ELSE conv
    /\ turn' = [turn EXCEPT !.pc = "idle"]

StoreStatus ==
    /\ turn.pc = "status"
    /\ EndTurn(IF turn.good THEN "idle" ELSE "failed")
    /\ UNCHANGED <<groups, rows, written, call, events, memory, heard>>

\* Whatever raises inside the turn is told in the log, and the conversation is
\* failed; if the database does not take that either, it stays running.
FailTurn ==
    /\ turn.pc \in {"connect", "stream", "session", "answer", "status"}
    /\ \/ Write("message") /\ EndTurn("failed")
       \/ EndTurn(conv.status) /\ UNCHANGED <<rows, written>>
    /\ UNCHANGED <<groups, call, events, memory, heard>>

(* The others: a sub-agent ends, an administrator decides; each is an event *)
(* for the room.  The process dies and boots.                              *)

Become(r, kind) == rows' = (rows \ {r}) \cup {[r EXCEPT !.kind = kind]}

EndTask(r) ==
    /\ r.kind = "active"
    /\ Become(r, "ended")
    /\ events' = Raised
    /\ UNCHANGED <<groups, conv, written, call, turn, memory, heard>>

DecideApproval(r) ==
    /\ r.kind = "pending"
    /\ Become(r, "decided")
    /\ events' = Raised
    /\ UNCHANGED <<groups, conv, written, call, turn, memory, heard>>

\* lifespan: tasks of the last process are failed, a conversation without an
\* active task is idle again; if the database does not answer, they are not.
RestartProcess ==
    /\ \/ /\ rows' = {[r EXCEPT !.kind = IF @ = "active" THEN "ended" ELSE @] : r \in rows}
          /\ conv' = IF Stands /\ conv.status = "running" THEN [conv EXCEPT !.status = "idle"]
                     ELSE conv
       \/ UNCHANGED <<rows, conv>>
    /\ turn' = [NoTurn EXCEPT !.number = turn.number]
    /\ events' = 0
    /\ call' = [c \in Callers |-> IF call[c].pc = "idle" THEN call[c]
                                  ELSE [Idle EXCEPT !.pc = "answered"]]
    /\ UNCHANGED <<groups, written, memory, heard>>

CallStep(c) ==
    \/ ReadConversation(c) \/ CheckRunning(c) \/ CheckGroup(c) \/ InsertConversation(c)
    \/ UpdateConversation(c) \/ CheckPending(c) \/ DeleteRows(c) \/ DeleteConversation(c)
    \/ WriteMessage(c) \/ FailCall(c)

LifeNext ==
    \/ \E g \in Groups : CreateGroup(g) \/ DeleteGroup(g)
    \/ \E c \in Callers :
          \/ \E what \in {"create", "group"}, g \in Groups \cup {NoGroup} : Ask(c, what, g)
          \/ \E what \in {"provider", "delete", "chat"} : Ask(c, what, NoGroup)
          \/ CallStep(c)
    \/ StartTurn \/ Connect \/ StoreSession \/ StoreAnswer \/ StoreStatus \/ FailTurn
    \/ \E kind \in {"active", "pending"} : CallTool(kind)
    \/ \E id \in 1 .. MaxTurns, good \in BOOLEAN : EndStream(id, good)
    \/ \E r \in rows : EndTask(r) \/ DecideApproval(r)
    \/ RestartProcess

LifeSpec == LifeInit /\ [][LifeNext]_lifeVars

-------------------------------------------------------------------------------

\* A conversation is never in a group that is not there or that is of another
\* bank, however a deletion of the group falls between the look-up and the
\* update; and a row refers to its conversation exactly as long as that stands,
\* and only one that was written after the deletion is counted as another
\* bank's (can_use_group, update_conversation, _delete_sync,
\* delete_conversation, shb_resolve_conversation_reference).
RowsFollowTheCase ==
    /\ conv.group # NoGroup => Stands /\ conv.group \in Ours
    /\ \A r \in rows :
          /\ r.attached <=> Stands
          /\ ~r.home => conv.there = "gone"

\* An answer that is in the log is one that the agent remembers: the stored
\* session knows the turn, or there is none, and it is never the session of
\* an earlier turn, whatever fails or dies in between (run_main_turn,
\* _turn_runner).
AnswerIsRemembered ==
    Stands /\ conv.session # NoSession => memory[conv.session] >= heard
=============================================================================
