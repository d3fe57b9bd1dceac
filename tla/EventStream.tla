----------------------------- MODULE EventStream -----------------------------
(***************************************************************************)
(* The live stream of one case: what the main agent and its experts write  *)
(* is stored first and then published on the bus (app/sse/bus.py, emit.py);*)
(* a browser tab subscribes (app/api/sse.py), asks for the whole case, and *)
(* puts together what it reads and what it is told (useConversationSSE).   *)
(*                                                                         *)
(* An item is the answer of a turn or a card of the canvas; a task of the  *)
(* board is stored, published and shown as a card is.  A tab is told the   *)
(* events in order, the bus and the network being one queue; closing a tab *)
(* leaves its subscription on the bus until the server's generator notices.*)
(***************************************************************************)
EXTENDS Integers, Sequences, FiniteSets

CONSTANTS
    Tabs,          \* browser tabs that look at the case
    CanvasCards,   \* cards the agents put on its canvas
    TurnMax,       \* turns of the main agent (a bound)
    ChunkMax,      \* pieces of text a turn streams at most (a bound)
    ConnMax,       \* subscriptions a case has at most (MAX_CONN_PER_CONV)
    QueueMax,      \* events a subscription holds (_MAX_QUEUE)
    OpenMax        \* times a tab connects (a bound)

ASSUME StreamAssumption ==
    /\ TurnMax \in Nat /\ ChunkMax \in Nat /\ OpenMax \in Nat
    /\ ConnMax \in Nat \ {0} /\ QueueMax \in Nat \ {0}

VARIABLES
    mainTurn, \* the turn of the main agent: its number, the pieces it has sent (_turn_seq), its step
    saved,    \* items in the database
    unsent,   \* cards that are stored and not yet published
    ghosts,   \* subscriptions on the bus with nobody behind them
    tab       \* what each tab has, and the queue of its subscription

streamVars == <<mainTurn, saved, unsent, ghosts, tab>>

TurnIds == 1 .. TurnMax
Answers == {<<n>> : n \in TurnIds}
Items   == Answers \cup CanvasCards

\* How a turn ends: with an answer, with a text that says what failed, with an
\* error that is stored and not sent along, or with nothing to say.
Replies == {"answer", "error", "raised", "silent"}

\* Kinds of event: a piece of text, the end of a turn with its full text or
\* without one, a card, the status of a failed turn.
Piece(n, seq)       == [type |-> "piece", turn |-> n, seq |-> seq, full |-> {}]
Done(n, seq, full)  == [type |-> "done", turn |-> n, seq |-> seq, full |-> full]
CardEvent(c)        == [type |-> "card", turn |-> 0, seq |-> 0, full |-> {c}]
FailedEvent         == [type |-> "failed", turn |-> 0, seq |-> 0, full |-> {}]

Unread == [last |-> 0, buf |-> {}, done |-> 0]
NoFetch == [step |-> "none", items |-> {}]
NewTab == [open |-> FALSE, opens |-> 0, queue |-> <<>>, at |-> [n \in TurnIds |-> Unread],
           text |-> <<>>, taken |-> 0, shown |-> {}, fetch |-> NoFetch,
           seen |-> {}, joined |-> 0, missed |-> FALSE]

StreamInit ==
    /\ mainTurn = [no |-> 0, seq |-> 0, step |-> "none", reply |-> "silent"]
    /\ saved = {} /\ unsent = {} /\ ghosts = 0
    /\ tab = [b \in Tabs |-> NewTab]

-------------------------------------------------------------------------------
(* The bus *)

\* A tab gets the event unless its queue is full: then it alone misses it.
Published(tabs, event) ==
    [b \in Tabs |->
        IF ~tabs[b].open THEN tabs[b]
        ELSE IF Len(tabs[b].queue) < QueueMax
             THEN [tabs[b] EXCEPT !.queue = Append(@, event)]
             ELSE [tabs[b] EXCEPT !.missed = TRUE]]

Publish(event) == tab' = Published(tab, event)

Subscriptions == ghosts + Cardinality({b \in Tabs : tab[b].open})

-------------------------------------------------------------------------------
(* The agents *)

BeginTurn ==
    /\ mainTurn.step = "none" /\ mainTurn.no < TurnMax
    /\ mainTurn' = [no |-> mainTurn.no + 1, seq |-> 0, step |-> "streaming", reply |-> "silent"]
    /\ UNCHANGED <<saved, unsent, ghosts, tab>>

SendPiece ==
    /\ mainTurn.step = "streaming" /\ mainTurn.seq < ChunkMax
    /\ mainTurn' = [mainTurn EXCEPT !.seq = @ + 1]
    /\ Publish(Piece(mainTurn.no, mainTurn.seq + 1))
    /\ UNCHANGED <<saved, unsent, ghosts>>

Kept(n, reply) == IF reply = "silent" THEN {} ELSE {<<n>>}

\* The reply becomes a message of the case ...
StoreReply ==
    /\ mainTurn.step = "streaming"
    /\ \E reply \in Replies :
          /\ mainTurn' = [mainTurn EXCEPT !.step = "stored", !.reply = reply]
          /\ saved' = saved \cup Kept(mainTurn.no, reply)
    /\ UNCHANGED <<unsent, ghosts, tab>>

\* ... then the tabs are told the end of the turn, with the highest number ...
TellDone ==
    /\ mainTurn.step = "stored"
    /\ mainTurn' = [mainTurn EXCEPT !.step = "told"]
    /\ Publish(Done(mainTurn.no, mainTurn.seq + 1,
                    IF mainTurn.reply \in {"answer", "error"} THEN {<<mainTurn.no>>} ELSE {}))
    /\ UNCHANGED <<saved, unsent, ghosts>>

\* ... and then the status: only that of a failed turn makes a tab do more.
TellStatus ==
    /\ mainTurn.step = "told"
    /\ mainTurn' = [mainTurn EXCEPT !.step = "none", !.seq = 0]
    /\ IF mainTurn.reply \in {"error", "raised"} THEN Publish(FailedEvent) ELSE UNCHANGED tab
    /\ UNCHANGED <<saved, unsent, ghosts>>

StoreCard(c) ==
    /\ c \notin saved
    /\ saved' = saved \cup {c} /\ unsent' = unsent \cup {c}
    /\ UNCHANGED <<mainTurn, ghosts, tab>>

EmitCard(c) ==
    /\ c \in unsent
    /\ unsent' = unsent \ {c}
    /\ Publish(CardEvent(c))
    /\ UNCHANGED <<mainTurn, saved, ghosts>>

-------------------------------------------------------------------------------
(* The connection of a tab *)

\* A tab that is connected, as the server sees it and as it begins itself.
Connected(t) ==
    [t EXCEPT !.open = TRUE, !.opens = @ + 1, !.queue = <<>>,
              !.at = [n \in TurnIds |-> Unread], !.seen = {}, !.missed = FALSE,
              !.joined = IF mainTurn.seq > 0 THEN mainTurn.no ELSE 0]

MayOpen(b) ==
    /\ ~tab[b].open /\ tab[b].opens < OpenMax /\ tab[b].fetch = NoFetch
    /\ Subscriptions < ConnMax

\* A faulty Open: a tab that comes back only listens.
OpenAskingOnce(b) ==
    /\ MayOpen(b)
    /\ tab' = [tab EXCEPT ![b] =
                  [Connected(tab[b]) EXCEPT !.fetch.step = IF tab[b].opens = 0 THEN "asked" ELSE "none"]]
    /\ UNCHANGED <<mainTurn, saved, unsent, ghosts>>

\* The bus takes the tab unless it has too many; the tab forgets the pieces of
\* every turn and asks for the case (one request of a tab at a time: a bound).
Open(b) ==
    /\ MayOpen(b)
    /\ tab' = [tab EXCEPT ![b] = [Connected(tab[b]) EXCEPT !.fetch.step = "asked"]]
    /\ UNCHANGED <<mainTurn, saved, unsent, ghosts>>

Cut(t) == [t EXCEPT !.open = FALSE, !.queue = <<>>]

Close(b) ==
    /\ tab[b].open
    /\ tab' = [tab EXCEPT ![b] = Cut(@)]
    /\ ghosts' = ghosts + 1
    /\ UNCHANGED <<mainTurn, saved, unsent>>

\* The generator finds its client gone, at the latest after a heartbeat.
Unsubscribe ==
    /\ ghosts > 0
    /\ ghosts' = ghosts - 1
    /\ UNCHANGED <<mainTurn, saved, unsent, tab>>

\* The process starts again: the turn, the bus and what was to be published are gone.
RestartServer ==
    /\ mainTurn' = [mainTurn EXCEPT !.step = "none", !.seq = 0]
    /\ unsent' = {} /\ ghosts' = 0
    /\ tab' = [b \in Tabs |-> Cut(tab[b])]
    /\ UNCHANGED saved

-------------------------------------------------------------------------------
(* What a tab does *)

\* A faulty Flush: the last piece that came is taken for the next one.
FlushToLast(at) == [at EXCEPT !.last = CHOOSE n \in at.buf : \A i \in at.buf : i <= n]

\* The pieces of a turn are put on the screen in order, as far as none is missing.
Flush(at) == [at EXCEPT !.last = CHOOSE n \in at.last .. at.last + Cardinality(at.buf) :
                                    /\ \A i \in at.last + 1 .. n : i \in at.buf
                                    /\ n + 1 \notin at.buf]

\* New pieces go on with the text of their turn, the first of a turn replaces
\* that of another (appendText), and the turn's end closes the text once every
\* piece before it was there (0 would be a piece that is shown and is not
\* there).  "taken" counts the pieces of the text a full state has taken away.
HearPiece(t, event) ==
    LET old  == t.at[event.turn]
        at   == Flush([old EXCEPT !.buf = {i \in @ : i > old.last} \cup {event.seq},
                                  !.done = IF event.type = "done" THEN event.seq ELSE @])
        end  == at.done > 0 /\ at.last >= at.done
        text == [i \in 1 .. at.last - old.last |-> IF old.last + i \in at.buf THEN old.last + i ELSE 0]
    IN IF event.seq <= old.last THEN t
       ELSE [t EXCEPT !.at[event.turn] = IF end THEN Unread ELSE [at EXCEPT !.buf = {i \in @ : i > at.last}],
                      !.text = IF end THEN <<>>
                               ELSE IF old.last = 0 /\ text # <<>> THEN text ELSE @ \o text,
                      !.taken = IF old.last = 0 /\ text # <<>> THEN 0 ELSE @,
                      !.shown = IF end THEN @ \cup event.full ELSE @,
                      !.seen = IF end THEN @ \cup event.full ELSE @]

Hear(t, event) ==
    CASE event.type \in {"piece", "done"} -> HearPiece(t, event)
      [] event.type = "card" -> [t EXCEPT !.shown = @ \cup event.full, !.seen = @ \cup event.full]
      [] event.type = "failed" ->
            [t EXCEPT !.fetch = IF @ = NoFetch THEN [NoFetch EXCEPT !.step = "asked"] ELSE @]

Deliver(b) ==
    /\ tab[b].queue # <<>>
    /\ Head(tab[b].queue).type = "failed" => tab[b].fetch = NoFetch
    /\ tab' = [tab EXCEPT ![b] = [Hear(tab[b], Head(tab[b].queue)) EXCEPT !.queue = Tail(@)]]
    /\ UNCHANGED <<mainTurn, saved, unsent, ghosts>>

\* The server reads the messages and then the cards of the case, each on its own;
\* the answer replaces what the tab shows, the text of the running turn with it
\* (setStreaming(null)), while the hook goes on from the piece it was at; or the
\* answer is lost on its way.
ReadMessages(b) ==
    /\ tab[b].fetch.step = "asked"
    /\ tab' = [tab EXCEPT ![b].fetch = [step |-> "messages", items |-> saved \cap Answers]]
    /\ UNCHANGED <<mainTurn, saved, unsent, ghosts>>

ReadCards(b) ==
    /\ tab[b].fetch.step = "messages"
    /\ tab' = [tab EXCEPT ![b].fetch = [step |-> "read", items |-> @.items \cup (saved \cap CanvasCards)]]
    /\ UNCHANGED <<mainTurn, saved, unsent, ghosts>>

ApplyFullState(b) ==
    /\ tab[b].fetch.step = "read"
    /\ tab' = [tab EXCEPT ![b] = [tab[b] EXCEPT !.shown = tab[b].fetch.items,
                                                !.seen = @ \cup tab[b].fetch.items,
                                                !.text = <<>>, !.taken = @ + Len(tab[b].text),
                                                !.fetch = NoFetch]]
    /\ UNCHANGED <<mainTurn, saved, unsent, ghosts>>

FetchFails(b) ==
    /\ tab[b].fetch # NoFetch
    /\ tab' = [tab EXCEPT ![b] = [tab[b] EXCEPT !.fetch = NoFetch, !.missed = TRUE]]
    /\ UNCHANGED <<mainTurn, saved, unsent, ghosts>>

StreamNext ==
    \/ BeginTurn \/ SendPiece \/ StoreReply \/ TellDone \/ TellStatus
    \/ \E c \in CanvasCards : StoreCard(c) \/ EmitCard(c)
    \/ Unsubscribe \/ RestartServer
    \/ \E b \in Tabs : \/ Open(b) \/ Close(b) \/ Deliver(b)
                       \/ ReadMessages(b) \/ ReadCards(b) \/ ApplyFullState(b) \/ FetchFails(b)

-------------------------------------------------------------------------------

OnTheWay(b) ==
    (UNION {tab[b].queue[i].full : i \in DOMAIN tab[b].queue}) \cup tab[b].fetch.items

\* An item is published after it was stored, and a tab asks for the case after
\* it subscribed, so no item falls between the two: a connected tab has shown
\* every item there is, or is about to (it is in its queue, in the answer it
\* waits for, or not read or published yet); only an event that found the queue
\* full, a lost answer, and the turn the tab came into the middle of are
\* excepted.  And a tab shows nothing that a reload would lose (emit_chat_done,
\* present_tool, useConversationSSE).
NothingFallsBetween ==
    \A b \in Tabs :
        /\ tab[b].shown \subseteq saved
        /\ tab[b].open /\ ~tab[b].missed =>
              \A i \in saved \ (tab[b].seen \cup OnTheWay(b)) :
                  \/ i \in unsent
                  \/ i \in Answers /\ mainTurn.step \in {"stored", "told"} /\ i = <<mainTurn.no>>
                  \/ \E k \in DOMAIN tab[b].queue : tab[b].queue[k].type = "failed"
                  \/ tab[b].fetch.step = "asked"
                  \/ tab[b].fetch.step = "messages" /\ i \in CanvasCards
                  \/ i = <<tab[b].joined>>

\* The text a tab shows of a turn is a run of its pieces, none missing between
\* two and none twice, whatever was dropped and however often the tab reconnects;
\* and it begins with the first piece, except for those a full state has taken
\* off the screen since: the pieces that come after it are then shown without the
\* head of the text, which only the turn's end brings back (useConversationSSE,
\* applyFullState of useWorkspaceController).
PreviewIsContiguous ==
    \A b \in Tabs : \A i \in DOMAIN tab[b].text : tab[b].text[i] = tab[b].taken + i

\* A tab that is told the end of a turn with its full text shows that text
\* (useConversationSSE: the end of a turn carries the text as it was stored).
DoneShowsTheAnswer ==
    [][\A b \in Tabs :
          tab[b].open /\ tab'[b].open /\ tab[b].queue # <<>> /\ tab'[b].queue = Tail(tab[b].queue)
          => Head(tab[b].queue).type # "done" \/ Head(tab[b].queue).full \subseteq tab'[b].shown]_streamVars
=============================================================================
