------------------------------ MODULE FormIntake ------------------------------
(***************************************************************************)
(* The form of a new customer: the agent shows it as a card                *)
(* (orch/common_tools.py), the customer submits it (api/form_intake.py)    *)
(* and one transaction marks the card, mints a customer number, links the  *)
(* account to it and appends a consent record (consent.py).  After the     *)
(* commit the main agent is woken, best effort.                            *)
(*                                                                         *)
(* A wording is a natural number; the server's own changes with a          *)
(* deployment.  The minted id is C9 and the number with two digits, and    *)
(* the last id is looked up by text order.                                 *)
(***************************************************************************)
EXTENDS Integers, FiniteSets

CONSTANTS
    Cards,          \* form cards
    Requests,       \* submissions, each answered at most once
    OwnerOf,        \* OwnerOf[c]: the account whose conversation holds c
    Foreign,        \* accounts whose row is in another tenant than their token says
    Taken,          \* the numbers there may be at the start: a set of sets
    MaxWording      \* bound: deployments

ASSUME FormAssumption == MaxWording \in Nat

NoSnapshot == 0 - 1     \* a card of before there was a consent text
NoRow      == [status |-> "none", wording |-> NoSnapshot]
Wide       == 100       \* from here on a number has three digits
Request0   == [pc |-> "idle", card |-> "none", wording |-> NoSnapshot, answer |-> "none"]

VARIABLES
    wording,    \* the text on the server
    cards,      \* cards[c]: status and wording, or NoRow
    minted,     \* numbers of customers
    customers,  \* committed submissions: [card, number]
    linked,     \* users.owner_id: account to number, 0 when there is none
    consents,   \* consent_records: [card, wording]
    request,    \* the submissions
    woken       \* cards whose submission reached the main agent

formVars == <<wording, cards, minted, customers, linked, consents, request, woken>>

Goto(r, pc) == request' = [request EXCEPT ![r].pc = pc]
Reply(r, answer) == request' = [request EXCEPT ![r].pc = "answered", ![r].answer = answer]

\* Row lock of the card, and the advisory lock under which numbers are minted:
\* each is held to the end of the transaction.
HoldsCard(r, c) == request[r].card = c /\ request[r].pc \in {"check", "mint", "insert"}
\* A faulty HoldsMint: the lock belongs to the session and outlives the commit.
HoldsMintOnwards(r) == request[r].pc \in {"insert", "wake", "answered"}
HoldsMint(r) == request[r].pc = "insert"

-------------------------------------------------------------------------------

FormInit ==
    /\ wording = 0
    /\ cards \in [Cards -> {NoRow, [status |-> "pending", wording |-> NoSnapshot]}]
    /\ minted \in Taken
    /\ customers = {}
    /\ linked = [u \in {OwnerOf[c] : c \in Cards} |-> 0]
    /\ consents = {}
    /\ request = [r \in Requests |-> Request0]
    /\ woken = {}

\* A deployment replaces the wording; cards keep the one they showed.
Redeploy ==
    /\ wording < MaxWording
    /\ wording' = wording + 1
    /\ UNCHANGED <<cards, minted, customers, linked, consents, request, woken>>

\* present_form: nothing stops the agent from showing a second form.
PresentForm(c) ==
    /\ cards[c] = NoRow
    /\ cards' = [cards EXCEPT ![c] = [status |-> "pending", wording |-> wording]]
    /\ UNCHANGED <<wording, minted, customers, linked, consents, request, woken>>

\* form_submit of a customer's own conversation up to the transaction: the
\* consent box, the wording on the server, the required fields, the income.
Submit(r, c) ==
    /\ request[r].pc = "idle"
    /\ request' = [request EXCEPT
                      ![r] = [pc |-> "lock", card |-> c, wording |-> wording, answer |-> "none"]]
    /\ UNCHANGED <<wording, cards, minted, customers, linked, consents, woken>>

\* consent_required, consent_wording_invalid, missing_fields or bad_income.
RefuseSubmit(r) ==
    /\ request[r].pc = "idle"
    /\ Reply(r, "bad_request")
    /\ UNCHANGED <<wording, cards, minted, customers, linked, consents, woken>>

\* SELECT ... FOR UPDATE
LockCard(r) ==
    /\ request[r].pc = "lock"
    /\ \A q \in Requests \ {r} : ~HoldsCard(q, request[r].card)
    /\ IF cards[request[r].card] = NoRow THEN Reply(r, "card_not_found") ELSE Goto(r, "check")
    /\ UNCHANGED <<wording, cards, minted, customers, linked, consents, woken>>

\* A faulty CheckCard: the card's wording is not compared with the server's.
CheckCardOfAnyWording(r) ==
    /\ request[r].pc = "check"
    /\ LET card == cards[request[r].card]
       IN CASE card.status = "submitted" -> Reply(r, "already_submitted")
            [] card.status # "submitted" /\ card.wording = NoSnapshot ->
                   Reply(r, "consent_wording_unavailable")
            [] OTHER -> Goto(r, "mint")
    /\ UNCHANGED <<wording, cards, minted, customers, linked, consents, woken>>

\* The checks under the row lock; snapshot_matches compares the card with the
\* wording read at the start of the request.
CheckCard(r) ==
    /\ request[r].pc = "check"
    /\ LET card == cards[request[r].card]
       IN CASE card.status = "submitted" -> Reply(r, "already_submitted")
            [] card.status # "submitted" /\ card.wording = NoSnapshot ->
                   Reply(r, "consent_wording_unavailable")
            [] card.status # "submitted" /\ card.wording \notin {NoSnapshot, request[r].wording} ->
                   Reply(r, "consent_wording_invalid")
            [] OTHER -> Goto(r, "mint")
    /\ UNCHANGED <<wording, cards, minted, customers, linked, consents, woken>>

LockMint(r) ==
    /\ request[r].pc = "mint"
    /\ \A q \in Requests \ {r} : ~HoldsMint(q)
    /\ Goto(r, "insert")
    /\ UNCHANGED <<wording, cards, minted, customers, linked, consents, woken>>

\* ORDER BY id DESC: "C9" and the digits, compared as text.
TextBelow(m, n) ==
    CASE m < Wide /\ n >= Wide -> 10 * m <= n
      [] m >= Wide /\ n < Wide -> m < 10 * n
      [] OTHER -> m < n

\* _next_c9xx
NextNumber == IF minted = {} THEN 1
              ELSE 1 + CHOOSE n \in minted : \A m \in minted \ {n} : TextBelow(m, n)

\* INSERT INTO customers, UPDATE users, the consent record, COMMIT.  The key
\* of customers refuses a number twice, and the account must be one row.
Insert(r) ==
    LET c == request[r].card
        n == NextNumber
    IN /\ request[r].pc = "insert"
       /\ n \notin minted
       /\ OwnerOf[c] \notin Foreign
       /\ cards' = [cards EXCEPT ![c].status = "submitted"]
       /\ minted' = minted \cup {n}
       /\ customers' = customers \cup {[card |-> c, number |-> n]}
       /\ linked' = [linked EXCEPT ![OwnerOf[c]] = n]
       /\ consents' = consents \cup {[card |-> c, wording |-> request[r].wording]}
       /\ Goto(r, "wake")
       /\ UNCHANGED <<wording, woken>>

\* The key of customers, or the count of the accounts, says no.
RefuseInsert(r) ==
    /\ request[r].pc = "insert"
    /\ NextNumber \in minted \/ OwnerOf[request[r].card] \in Foreign
    /\ Reply(r, "error")
    /\ UNCHANGED <<wording, cards, minted, customers, linked, consents, woken>>

\* Any statement may fail: nothing is left of the transaction.
FailSubmit(r) ==
    /\ request[r].pc \in {"lock", "check", "mint", "insert"}
    /\ Reply(r, "error")
    /\ UNCHANGED <<wording, cards, minted, customers, linked, consents, woken>>

\* _wake_main: a failure is logged, and the answer is the same.
Wake(r) ==
    /\ request[r].pc = "wake"
    /\ Reply(r, "created")
    /\ woken' \in {woken, woken \cup {request[r].card}}
    /\ UNCHANGED <<wording, cards, minted, customers, linked, consents>>

\* The process dies: an open transaction is undone, and nobody is answered.
Crash ==
    /\ \E r \in Requests : request[r].pc \notin {"idle", "answered", "gone"}
    /\ request' = [r \in Requests |->
                      IF request[r].pc \in {"idle", "answered"} THEN request[r]
                      ELSE [request[r] EXCEPT !.pc = "gone"]]
    /\ UNCHANGED <<wording, cards, minted, customers, linked, consents, woken>>

SubmitStep(r) == LockCard(r) \/ CheckCard(r) \/ LockMint(r) \/ Insert(r) \/ RefuseInsert(r) \/ Wake(r)

FormNext ==
    \/ Redeploy \/ Crash
    \/ \E c \in Cards : PresentForm(c)
    \/ \E r \in Requests :
          RefuseSubmit(r) \/ FailSubmit(r) \/ SubmitStep(r) \/ \E c \in Cards : Submit(r, c)

\* A transaction goes on as long as no statement of it fails; none has to.
FormFairness == \A r \in Requests : WF_formVars(SubmitStep(r))
FormSpec == FormInit /\ [][FormNext]_formVars /\ FormFairness

-------------------------------------------------------------------------------

\* A submitted card, a customer with a number of its own and a consent to the
\* very wording the card showed come and go together, whatever fails, is sent
\* twice or is deployed meanwhile; and "created" is answered for no other
\* card (_submit_txn, snapshot_matches).
FormIsWhole ==
    /\ \A c \in Cards :
          LET mine == {x \in customers : x.card = c}
          IN /\ Cardinality(mine) = (IF cards[c].status = "submitted" THEN 1 ELSE 0)
             /\ {x \in consents : x.card = c} =
                   {[card |-> x.card, wording |-> cards[c].wording] : x \in mine}
    /\ \A x, y \in customers : x.number = y.number => x = y
    /\ \A r \in Requests : request[r].answer = "created" => request[r].card \in {x.card : x \in customers}

\* A submission that is not cut off by a crash is answered: the two locks of
\* concurrent submissions, of one card or of two, are always given back.
SubmissionEnds ==
    \A r \in Requests : request[r].pc # "idle" ~> request[r].pc \in {"answered", "gone"}
=============================================================================
