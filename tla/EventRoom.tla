------------------------------ MODULE EventRoom -------------------------------
(***************************************************************************)
(* One conversation's room (orch/room.py over orch/registry.py): events    *)
(* come from people (user_message, approval_decided) and from sub-agents   *)
(* (task_done), each one carried by a handler coroutine.  A handler either *)
(* takes the free room and runs a turn of the main agent, or leaves its    *)
(* event in the room's queue and ends.  The handler whose turn ends frees  *)
(* the room and starts a new handler for the first event of the queue,     *)
(* which competes for the room with whatever arrived in between.           *)
(*                                                                         *)
(* room_lock is held over no await, so each of try_acquire and release is  *)
(* one step.  The queue is the set of queued events with, for each, the    *)
(* set of queued events ahead of it: a Python list by its order.           *)
(* Left out: reset_room and reset_all (a restart empties the room).        *)
(***************************************************************************)
EXTENDS Naturals, FiniteSets

CONSTANTS
    Events,    \* the events of a run, each submitted at most once
    Human,     \* those that carry a person's words: user_message, approval_decided
    RoleOf,    \* the role a task_done event reports on
    MaxQueue   \* registry.MAX_QUEUE

ASSUME RoomAssumption ==
    /\ IsFiniteSet(Events)
    /\ Human \subseteq Events
    /\ MaxQueue \in Nat

VARIABLES
    busy,      \* the room is in _busy_rooms
    queue,     \* the events of _event_queues[conv]
    ahead,     \* ahead[e]: the queued events in front of queued event e
    handler,   \* the handler coroutine of an event: none, arriving, turn
    turns,     \* turns[e]: how often _turn_runner was called with e; its
               \* resume guard may settle e without a turn of the main agent
    earlier,   \* earlier[e]: the events submitted before e (history)
    merged,    \* events release dropped for a later report of the same role
    evicted    \* events try_acquire dropped from a full queue

vars == <<busy, queue, ahead, handler, turns, earlier, merged, evicted>>

Done == Events \ Human

SameRole(e, f) == e \in Done /\ f \in Done /\ RoleOf[e] = RoleOf[f]

Submitted == {e \in Events : handler[e] # "none" \/ e \in queue \/ turns[e] > 0
                             \/ e \in merged \/ e \in evicted}

Init ==
    /\ busy = FALSE
    /\ queue = {}
    /\ ahead = [e \in Events |-> {}]
    /\ handler = [e \in Events |-> "none"]
    /\ turns = [e \in Events |-> 0]
    /\ earlier = [e \in Events |-> {}]
    /\ merged = {}
    /\ evicted = {}

-------------------------------------------------------------------------------
(* Helpers over a queue q ordered by ord *)

\* The order that remains among the events of q.
Reorder(q, ord) == [e \in Events |-> IF e \in q THEN ord[e] \cap q ELSE {}]

\* The loop of try_acquire: while the queue is too long, drop its oldest
\* task_done; stop when there is none.
Overflow(q, ord) ==
    {e \in q \cap Done : Cardinality(ord[e] \cap Done) + MaxQueue < Cardinality(q)}

\* A faulty Superseded: one report of any role supersedes another.
SupersededAnyRole(q, ord) ==
    {e \in q : \E f \in q : e \in ord[f] /\ e \in Done /\ f \in Done}

\* A faulty Superseded: dedups by the kind of event, not by its role.
SupersededByKind(q, ord) ==
    {e \in q : \E f \in q : e \in ord[f] /\ (e \in Human <=> f \in Human)}

\* The reversed scan of release: a task_done goes when a report of the same
\* role stands behind it.
Superseded(q, ord) ==
    {e \in q : \E f \in q : e \in ord[f] /\ SameRole(e, f)}

\* The first event of q: a set with one element, or none when q is empty.
First(q, ord) == {h \in q : ord[h] \cap q = {}}

-------------------------------------------------------------------------------
(* Actions *)

\* A person's event: the chat endpoint and the wake of a decided approval
\* schedule a handler for it.
Arrive(e) ==
    /\ e \in Human \ Submitted
    /\ handler' = [handler EXCEPT ![e] = "arriving"]
    /\ earlier' = [earlier EXCEPT ![e] = Submitted]
    /\ UNCHANGED <<busy, queue, ahead, turns, merged, evicted>>

\* The event e reaches try_acquire: in a scheduled handler, or inside the
\* report of a sub-agent, which awaits handle_room_event where it stands.
Reaches(e) ==
    \/ handler[e] = "arriving" /\ UNCHANGED earlier
    \/ e \in Done \ Submitted /\ earlier' = [earlier EXCEPT ![e] = Submitted]

\* try_acquire on a free room, and the call of the turn runner.
Begin(e) ==
    /\ Reaches(e)
    /\ ~busy
    /\ busy' = TRUE
    /\ handler' = [handler EXCEPT ![e] = "turn"]
    /\ turns' = [turns EXCEPT ![e] = @ + 1]
    /\ UNCHANGED <<queue, ahead, merged, evicted>>

\* try_acquire on a busy room: the event joins the tail of the queue, the
\* queue is cut to its limit, and the handler ends.
Enqueue(e) ==
    /\ Reaches(e)
    /\ busy
    /\ LET joined == queue \cup {e}
           order  == [ahead EXCEPT ![e] = queue]
           out    == Overflow(joined, order)
       IN /\ queue' = joined \ out
          /\ ahead' = Reorder(joined \ out, order)
          /\ evicted' = evicted \cup out
    /\ handler' = [handler EXCEPT ![e] = "none"]
    /\ UNCHANGED <<busy, turns, merged>>

\* A faulty Release: forgets to start the next handler.
ReleaseAsleep(e) ==
    /\ handler[e] = "turn"
    /\ busy' = FALSE
    /\ LET out  == Superseded(queue, ahead)
           kept == queue \ out
       IN /\ merged' = merged \cup out
          /\ queue' = kept
          /\ ahead' = Reorder(kept, ahead)
          /\ handler' = [handler EXCEPT ![e] = "none"]
    /\ UNCHANGED <<turns, earlier, evicted>>

\* The turn ends, normally or with an exception: the finally block frees the
\* room, merges the queue, and starts a handler for its first event.
Release(e) ==
    /\ handler[e] = "turn"
    /\ busy' = FALSE
    /\ LET out  == Superseded(queue, ahead)
           kept == queue \ out
           next == First(kept, ahead)
       IN /\ merged' = merged \cup out
          /\ queue' = kept \ next
          /\ ahead' = Reorder(kept \ next, ahead)
          /\ handler' = [f \in Events |-> IF f \in next THEN "arriving"
                                          ELSE IF f = e THEN "none" ELSE handler[f]]
    /\ UNCHANGED <<turns, earlier, evicted>>

Next == \E e \in Events : Arrive(e) \/ Begin(e) \/ Enqueue(e) \/ Release(e)

Spec == Init /\ [][Next]_vars

\* The event loop runs every ready handler.  That a turn of the main agent ends
\* is an assumption about the provider: its stream ends, fails or is
\* interrupted, and no timeout of the code bounds it (_real_turn).
RoomFairness ==
    \A e \in Events :
        /\ WF_vars(handler[e] = "arriving" /\ (Begin(e) \/ Enqueue(e)))
        /\ WF_vars(Release(e))

FairSpec == Spec /\ RoomFairness

-------------------------------------------------------------------------------
(* Properties *)

\* The variables have their types.
TypeOK ==
    /\ busy \in BOOLEAN
    /\ queue \subseteq Events
    /\ ahead \in [Events -> SUBSET Events]
    /\ handler \in [Events -> {"none", "arriving", "turn"}]
    /\ turns \in [Events -> Nat]
    /\ earlier \in [Events -> SUBSET Events]
    /\ merged \subseteq Events
    /\ evicted \subseteq Events

\* One turn per room: the main agent never runs twice at once, and the busy
\* flag says exactly whether it runs (try_acquire, release).
OneTurnAtATime ==
    /\ \A e, f \in Events : handler[e] = "turn" /\ handler[f] = "turn" => e = f
    /\ busy <=> \E e \in Events : handler[e] = "turn"

\* An event in flight is in one place only (a handler or the queue), it is not
\* yet answered, and no event is answered twice, however often release hands
\* it out and the room puts it back.
InOnePlace ==
    \A e \in Events :
        /\ turns[e] <= 1
        /\ handler[e] = "turn" => turns[e] = 1 /\ e \notin queue
        /\ turns[e] = 1 => e \notin queue /\ handler[e] # "arriving"
        /\ e \in queue => handler[e] = "none"
        /\ e \in merged \cup evicted =>
              e \notin queue /\ handler[e] = "none" /\ turns[e] = 0

\* The queue is a list: an event is not ahead of itself, and what is ahead of
\* an event that is ahead of another is ahead of that one too.
QueueOrder ==
    \A e \in queue :
        /\ ahead[e] \subseteq queue \ {e}
        /\ \A f \in ahead[e] : ahead[f] \subseteq ahead[e]

\* A queue is never left behind in an idle room: whenever the room is free and
\* something is queued, a handler is on its way that will drain it.
QueueIsNeverStranded ==
    ~busy /\ queue # {} => \E e \in Events : handler[e] = "arriving"

\* A person's words are never merged, evicted or otherwise forgotten: what was
\* submitted is on its way, queued or answered.
HumanNeverDropped ==
    \A e \in Human : e \notin merged \cup evicted

\* The queue passes its limit only when people alone fill it.
QueueBounded == Cardinality(queue) > MaxQueue => queue \subseteq Human

\* Merging never silences a role: whatever report release drops, another
\* report of the same role stays in the room to be told.
MergeKeepsTheRole ==
    [][\A e \in merged' \ merged : \E f \in Done :
          SameRole(e, f) /\ (f \in queue' \/ handler'[f] = "arriving")]_vars

\* Merging keeps the newest report of a role (the comment of the pattern the
\* room implements): what is dropped was submitted before what is kept.
MergeKeepsTheNewest ==
    [][\A e \in merged' \ merged : \E f \in Done :
          SameRole(e, f) /\ e \in earlier[f]
          /\ (f \in queue' \/ handler'[f] = "arriving")]_vars

\* Every message and every decision of a person is taken up by a turn of the
\* room of its own, once the turns before it end.  Taken up, not told: the turn
\* may fail, and of a decision whose role still runs the resume guard returns
\* without a turn of the main agent (handle_room_event, _turn_runner).
HumanIsServed == \A e \in Human : handler[e] = "arriving" ~> turns[e] > 0

\* After a report a turn of the room is about that role: on the report itself
\* or on a later one of the role, unless the full queue evicted one.  The
\* resume guard may settle that turn too, by running the role again.
RoleIsHeard ==
    \A e \in Done : e \in Submitted ~>
        \E f \in Done : SameRole(e, f) /\ (turns[f] > 0 \/ f \in evicted)

-------------------------------------------------------------------------------
(* The room keeps the promise of TurnTaking *)

StageOf(e) ==
    CASE handler[e] = "turn" -> "turn"
      [] handler[e] # "turn" /\ turns[e] > 0 -> "served"
      [] turns[e] = 0 /\ e \in merged \cup evicted -> "dropped"
      [] turns[e] = 0 /\ e \notin merged \cup evicted
         /\ (handler[e] = "arriving" \/ e \in queue) -> "waiting"
      [] OTHER -> "new"

Promise == INSTANCE TurnTaking
    WITH Discardable <- Done, stage <- [e \in Events |-> StageOf(e)]

KeepsPromise == Promise!TTSpec
===============================================================================
