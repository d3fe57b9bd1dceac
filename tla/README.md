# A verification of the Digital Expert Guild backend

The repository is a bank assistant: people and other systems open cases, a main
agent works on each case in turns, it dispatches sub-agents of specialised
roles, and every action that moves money passes a gate that asks a person or
decides by rule.  Agents are nondeterministic: what they say, when and how
often they call a tool is free in every model here.  What is verified is the
code around them, which has to be right whatever they do.

Paths are relative to the root of the repository; `app/` stands for
`backend/app/`.

## 1. The system

### Parts that carry state

| Part | State | Operations | Meets | Module |
|---|---|---|---|---|
| Money gate: `app/orch/gated.py`, `disburse_guard.py`, `ops_bridge.py`, `store_approvals.py`, `roles/operations/functions.py` | `approvals` (one live row for an idempotency key), approval cards, `shadow_reviews`, `loans`, `disbursements` | a gated call (replay, claim, pending, terminal, automatic, human), a decision of an administrator, peek / claim / fail of the resume guard | sub-agents call it; administrators decide; a decision wakes the room | `ApprovalGate` |
| Event room: `app/orch/room.py`, `registry.py` | busy flag and queue of a conversation, in memory | `handle_room_event`, `try_acquire`, `release` | messages, decisions and reports come in; it runs the main agent's turn | `EventRoom` |
| Sub-agents: `app/orch/dispatch.py`, `sub_runner.py`, `store.py`, `app/api/interrupt.py`, boot in `app/main.py` | `tasks` rows; `_running_tasks`, `sub_tasks` and semaphores in memory | dispatch, start, take a slot, run, report, cancel, recover at boot | the main agent dispatches; a `task_done` event goes to the room | `SubTasks` |
| Case intake: `app/case_intake/service.py`, `app/api/case_intake.py` | `external_case_links`, `integration_inbox`, conversations it opens | receive an event, ring the bell for missing information | outside systems; deletion of conversations | `CaseIntake` |
| Conversations, groups, the main session: `app/orch/store.py`, `store_groups.py`, `main_session.py`, `app/api/conversations.py` | conversations, groups, child rows that name a conversation, the stored agent session | create, rename, group, change provider, delete; a turn with its session, answer and status; boot | the room, the sub-agents, the gate | `ConversationLife` |
| Forms and consent: `app/api/form_intake.py`, `app/consent.py`, `app/orch/common_tools.py` | form cards, customers, owner of an account, consent records | show a form, submit it once | the room, accounts | `FormIntake` |
| Owners of rows: migration `0d7a9e4c2b11`, `app/db/seed_from_lab.py`, `seed_if_empty.py`, `seed_users.py`, `reset_demo.py` | `parties`, references kept by triggers beside the texts that name owners | forms mint customers, agents write rows, boots and resets load the seed | everything that has an owner | `Identity` |
| Storage pool: `app/storage/postgres.py` | semaphore and connections of a pool, its replacement after `close` | acquire, release, close | a gate call that reads the verdict on a second connection | `StoragePool` |
| Prompt catalogue: `app/prompting/` | definitions, numbered versions, bindings, a cache with a time to live | save, activate, synchronise, read | every turn | `PromptCatalog` |
| Shadow ledger: `app/orch/store_shadow.py` | `shadow_reviews` as a browser reads them | decide, list mismatches page by page, add up | the gate | `ShadowLedger` |
| Event stream: `app/sse/`, `frontend/src/hooks/useConversationSSE.ts` | bounded queues of subscribers, what a browser shows | subscribe, publish, connect, read the case | everything that is shown | `EventStream` |

### Parts that calculate

| Part | What it decides | Module |
|---|---|---|
| Tiered brake: `app/orch/verdict.py`, `store_shadow.py` | by rule or by a person; the recommendation shown to the person | `Verdict` |
| Credit expert: `roles/credit/functions.py` | instalment, DSCR, LTV, verdict and reasons | `CreditAssessment` |
| Legal expert: `roles/legal/functions.py` | the criteria and the lane green, yellow or red, the advice | `LegalReview` |
| Product expert: `roles/products/functions.py` | which products an owner may have | `Catalogue` |
| Group exposure and wiki walk: `roles/_retrieval/functions.py` | related owners and their debts; documents behind a page | `Relations` |
| Dashboard: `app/api/stats.py`, `cost.py` | counts, sparklines, costs, trend, anomalies | `Figures` |
| Registry of stores: `app/storage/registry.py` | which configurations are refused, what a name stands for, which stores can be made and are asked for their health | `StoreCatalogue` |
| The desk: `app/auth/deps.py`, `tenancy.py`, `app/orch/store_approvals.py`, `store_groups.py`, `app/api/notifications.py`, `app/case_intake/read_model.py` | who sees, opens, renames, deletes and decides what; the list of cases | `Desk` |

### How they interact

A person's message, an administrator's decision and a sub-agent's report all
become *events* of a conversation's room.  The room runs one turn of the main
agent at a time; during a turn the agent dispatches sub-agents, which run
concurrently in the four slots of the conversation, call read-only tools and the
gate, and report.  The lane that the legal expert writes into the ledger of
assessments is what the gate reads before it decides.  A gate call that needs a
person writes a pending approval and returns; the decision comes back as an
event, the resume guard counts the attempt and the main agent dispatches the same
work again, whose call now finds the grant.  Whatever happens is stored first and
then published to the browsers.  Everything durable is in PostgreSQL (READ
COMMITTED), reached through one pool; the room, the registry, the semaphores, the
cache and the subscriptions die with the process.

### What is hard about it

* **Two kinds of concurrency.**  Coroutines of one event loop interleave at each
  `await`; database statements run in threads and go on when the coroutine that
  awaits them is cancelled.
* **READ COMMITTED.**  Each statement sees what is committed when it runs, so a
  check and the write it justifies are two different moments unless a lock
  spans both.  Several places take different locks for the same table (prompts),
  or none (groups, deletion of conversations, triggers of the parties).
* **Retries that nobody controls.**  Agents repeat calls, source systems repeat
  events, browsers reconnect, and all do so after an answer was lost.
* **Restarts.**  What lives in memory vanishes, what is in the database stays.
* **Cancellation** reaches a coroutine at any `await`, also before its first
  step.
* **Limits.**  A queue of 50 events, four slots, ten connections of which a gate
  call takes two, a subscriber's queue that drops what it cannot hold.
* **Absent figures.**  A missing income, value or amount has to make a decision
  stricter, never laxer.

Section 6 lists the code behaviours that the models found to disagree with what
the repository says; `PROJECT.json` lists every hazard at its line, those that
no property covers with the reason.

## 2. Modules

```
Verdict -- ApprovalGate == implements ==> SingleUse       CaseIntake ==> CaseLedger
                |                                             |
        MCApprovalGate, ApprovalGateProofs        MCCaseIntake, CaseIntakeProofs

EventRoom == implements ==> TurnTaking            SubTasks
    |                                                |
EventRoomProofs, MCEventRoom (room_newest)        MCSubTasks, SubTasksProofs
    |
MCEventRoom + StoragePool + FormIntake --> MCWaiting (waiting)
                  |             |
                   WaitingProofs

CreditAssessment + Verdict -- LegalReview
LegalReview, Catalogue, Relations, Figures, StoreCatalogue, Desk,
ShadowLedger, PromptCatalog, ConversationLife, EventStream, Identity
    --> MCServices (services, stream_done) --> ServiceProofs
OwnershipProofs (ConversationLife, Identity)
ReaderProofs (EventStream, PromptCatalog)
```

An `MC` module names model values and small sets; `MCWaiting` and `MCServices`
also put components next to each other that do not meet: a behaviour picks a
*scene*, plays the component of that scene, and leaves the others as they begin.
That is one run instead of one for each component, and no product of their
states.  What `MCServices` adds beside that are reference definitions (`IsClean`,
`Worse`, `Reached`) and the properties of the calculations, which compare several
modules.  A `Proofs` module adds nothing to a component but theorems and what they
are stated with.  Some extend two components that do not meet, one after the other.
`ServiceProofs` extends `MCServices`, because the properties of the calculations are
stated there; its theorems about the calculations are nevertheless stated for every
input, and only then for the inputs of the runs.

Operators called "a faulty ..." are variants of the definition that follows them
with one plausible bug; no specification uses them.  Each shows that a property
really depends on that piece of the code.

### Verdict and ApprovalGate

`Verdict` is `gated_decision` and the comparison of `store_shadow.py` as
operators over an action, an amount, a lane and a threshold.  Amounts are
natural numbers; a missing or non-finite amount is a value of its own, and so
is the fail-closed threshold 0.

`ApprovalGate` runs `_gated_txn` for any number of concurrent calls, one step
for each SQL statement:

| Model | Code |
|---|---|
| `row`, `card`, `review` | the approval of a key, its card, its shadow review |
| `runs`, `ledger` | committed executions of a key, rows of `disbursements` |
| `pc`, `req`, `thr`, `mode`, `advice`, `dsb` | the locals of a call in a thread |
| `grant` | what the resume guard of a conversation peeked at |
| `RefuseLinked`, `Begin`, `CheckOwner`, `TakeLock` | the two pre-assessment checks, the threshold read before the transaction, `cross_owner_refusal`, the advisory lock |
| `Replay`, `Claim`, `FindPending`, `FindTerminal` | the four branches, in their order |
| `DecideAuto`, `DecideHuman`, `RequestApproval` | `gated_decision`, `_branch_human` |
| `UpdateLoan`; `GateCheck`, `DupCheck`, `Count`, `InsertDisbursement` | `disburse`; the statements of `ops_disburse` |
| `FinalizeReceipt`, `InsertAuto`, `Abort` | the writes that end with COMMIT, and ROLLBACK anywhere |
| `Deliver` | what the caller hears: the answer, or `gated_error` in place of the answer of a committed execution |
| `AdminDecide`, `PeekGrant`, `ClaimAttempt`, `MarkExecFailed`, `DropGrant` | the approval store and the resume guard |

An intent is an idempotency key; the hash, the arguments and the texts of
answers are abstracted to it.  Uncommitted writes are invisible and are met only
as locks (`RowFree`, `HoldsLoan`, `HoldsNumber`).  `SingleUse` is what the gate
promises: an intent takes effect at most once, by rule or after a grant.

### EventRoom

One conversation's room.  `room_lock` is held over no `await`, so `try_acquire`
(`Begin`, `Enqueue` with its overflow rule) and `release` (`Release`, with the
merging of reports and the scheduling of the next event) are one step each.  The
queue is a set with, for each event, the set ahead of it.  `turns`, `earlier`,
`merged` and `evicted` are history.  `TurnTaking` is the promise: one turn at a
time, no event twice, and only reports may be discarded.

### SubTasks

The rows, the registry, the semaphore and the coroutines of one conversation; a
step is what runs between two awaits.  `marking` is the thread of
`mark_running`, which outlives its coroutine.  `Dispatch` to `Spawn` are
`dispatch`, under the lock of the role; `Start` to `ReportFails` are `_run_sub`;
`ReadTarget` and `Cancel` the interrupt endpoint; `Restart` and `PeerBoot` are a
boot of this process or of another one on the same database.  `Interrupts`,
`DbFails` and `MaxBoots` switch the environment's faults on.

### CaseIntake

`ingest_case_event` statement by statement (`LockEvent`, `LockCase`,
`FindInbox`, `ReadLink`, then `Ignore`, `Conflict` or `Accept`), the bell after
the commit, `Fail` anywhere, and `DeleteConversation`, which the code reaches
from another endpoint and which sets the link to null.  A body is the content of
a case; `Missing` gives its missing fields, which is all that decides status and
bells.  `CaseLedger` is the promise: one record for an event, versions only
rise, a cancelled case stays so, a session is opened only for a request of an
open case that has none.

### ConversationLife

One conversation, from nobody having created it to its deletion, of a bank that
is not the default tenant (a row whose conversation is gone falls to the default
one, which is the interesting case).  A request is several statements and nothing
is held between them: `ReadConversation`, `CheckRunning` (`_conv_is_running`: the
room, then the tasks), `CheckGroup` (`can_use_group`), then the write with what
the database still checks (`MayJoin`: the foreign key and the trigger that
compares tenants; `Row`: the trigger that resolves a child row's conversation).
`DeleteRows` and `DeleteConversation` are the two halves of one transaction whose
first half has a snapshot of its own.  `StartTurn` to `StoreStatus` are
`_turn_runner` and `run_main_turn`: a turn resumes the stored session or loses
it, ends under the same id or a new one, and stores session, answer and status one
after the other, while `FailTurn` and `RestartProcess` may fall anywhere.
`memory` and `heard` are history: what each session remembers, and the last turn
whose answer is in the log.

### EventStream

The main agent's turn, the bus and the browser's hook.  `StoreReply`, `TellDone`
and `TellStatus` are three steps, as are storing and publishing a card, because a
browser may read the case between them; reading the case is itself two reads.
`ApplyFullState` is the controller's: it shows what was read and takes the text of
the running turn off the screen, while the hook keeps its place among the pieces.
`Published` is the bus with its full queues, `HearPiece` the hook's numbered
pieces, with `Flush` where it waits for a missing one; `Open` asks for the case
after it has subscribed, and `Cut` and `RestartServer` end a connection.  The
tab's `seen`, `joined`, `missed` and `taken` (how many pieces a full state has taken
off the screen) are history.

### FormIntake

`_submit_txn` statement by statement: the row lock of the card, the checks under
it, the lock of the mint, and the step that writes card, customer, account and
consent, with the next number found by *text* order (`TextBelow`), so that after
C999 numbers stop growing.  `Redeploy` changes the server's wording between two
requests; `FailSubmit` and `Crash` undo what is open; the wake-up after the
commit may be lost.

### StoragePool

A thread on its way through `acquire` and `release`, each read of the shared
fields a step of its own, because `close` runs beside them: pools are numbered, a
thread keeps the pool and the semaphore it read, and either may be old when it is
used.  `Nested` threads are gate calls that borrow a second connection inside
their first.  `BuildFails` is a pool that cannot be built and `GetConn` may fail on a
pool that is open and has room, as when PostgreSQL refuses a connection: the slot
must come back on either way.  The pool proper is psycopg2's; of it only what the code relies on is
modelled, and its entries in the map name the code that relies on it.

### PromptCatalog

`save_prompt` and the synchronisation as transactions that write under two
different locks and meet only at the unique keys and at the row of a binding;
`MissCache`, `ReadActive` and `StoreEntry` are a reader of the cache, which
`ClearCache` empties meanwhile.

### ShadowLedger

Decisions start and commit in any order, so reviews appear out of the order of
their dates; a browser pages with the cursor of `_mismatches_sync`, another adds
up in three statements.

### Identity

Parties, profiles and the rows that name owners, under the triggers of the
migration: the row's look-up (`WriteRow`), the new party's refresh of rows that
were there before (`RefreshRows`), and the transactions around them, which do not
see each other.  The initial states are what the migration makes of any earlier
database, `UpgradeRefused` included.  `crossed` is history: the row was written
beside the creation of its party.

### The calculations

`CreditAssessment`, `LegalReview`, `Catalogue`, `Relations`, `Figures`,
`StoreCatalogue` and `Desk` have no variables: an operator is a function or a
query of the code, over a record of what the tables hold.  Texts are members of
small sets, money a natural number, a ratio a number of thousandths (the code
rounds to three digits), a missing value either 0 where the code reads it as 0 or
a value of its own.  An operator sees the rows that one statement sees: where the
code shows the results of several statements together, the property evaluates each
over rows of its own.  Recursive queries are recursive functions, and the rounds of
the annuity (`Power`) a recursive function of the number of months.

## 3. Runs

States are distinct states; each passing run explores all of them.

| Run | Shows | Bounds, and why they are enough |
|---|---|---|
| `gate_mix` | Money moves once, claims hold, every execution was authorised, answers are true. 675,259 states. | Two calls: every lock and check is between two transactions. One intent of each kind (operations, loan, pre-assessment, foreign loan); threshold closed and open; the amount is decided by the lane. |
| `gate_ops` | Numbers of disbursements are dense, the statements implement `SingleUse`, every call returns. 291,750 states. | Two intents of two conversations for two applications, so that nothing but the shared counter couples them. There is no loan among them: `CallReturns` is checked over the advisory locks, the rows and the unique key, and the lock of a loan only occurs in `gate_mix`. |
| `gate_double` | *Violation*, section 6. | The same with one application. |
| `waiting` | Three places where callers wait for one another. Room: no stranded queue, refinement of `TurnTaking`, a turn takes up every message and, after a report, its role. Pool: slots balance, every borrower returns. Forms: a form is whole or was never sent, every submission ends. 127,265 states. | Room: two messages and three reports, two of one role, against a queue of two: overflow, merging and overtaking all happen. Pool: three threads, two of them nested, against two slots: the nested ones can hold every slot and wait for another, a pool is closed and built again under them, and a connection or a pool cannot be made. Forms: two cards of one account, two submissions, one redeployment; numbers start empty or at 98 and 99, next to where the text order turns. |
| `room_newest` | *Violation*, section 6. | The room with a queue of five, so that overflow plays no part. |
| `subs_safe` | Registry, slots, events and board agree; who was spawned is told of. 33,404 states. | Two tasks, two roles, one slot (so that one must wait), two dispatches at once, one boot of either kind; nobody cancels and the database answers. |
| `subs_faults` | One live sub-agent of a role, a cancelled task ends, a dispatch returns. 53,135 states. | One role (so that dispatches compete), cancellations and database failures; no boot. |
| `subs_unstarted`, `subs_late_mark` | *Violations*, section 6. | Cancellations, no other fault. |
| `intake` | One answer for an event, refinement of `CaseLedger`, every request ends. 151,722 states. | Two requests over two cases; two events of one id, two of one version, a cancellation with a newer request after it, missing fields that vanish and return. |
| `services` | Eight scenes, below. 730,537 states. | Below. |
| `stream_done` | *Violation*, section 6. | The stream scene of `services`. |

The scenes of `services`:

| Scene | Properties | Bounds |
|---|---|---|
| `pure` | `DecisionMatchesAdvice`, `WorseNeverHelps`, `WalksReach`, `FiguresAddUp`, `ListsAgree`, `DeskIsCurrent`; each initial state is one input | Amounts 0..12 cross every boundary of thresholds 0, 3, 5, 11 and ceiling 10 from both sides; applications over the figures (amount, type, income, payments, collateral, value, CIC group, kind) and over the checks (police, employment, documents, purpose, dispute, zoning); all graphs over four owners with edges both ways; catalogues of three stores with every alias, required or not, configured or not, with an adapter or without; the rows of one statement and those of the next, which a commit separates, on either side of a window; three people of two banks; two assessments in every order of numbers and times; links whose texts are written at three offsets beside applications with a time, a bare date or none. |
| `pages` | `PagesTellEach` | Three decisions, two moments, pages of one row: two reviews of one moment, and a review that commits after the page it would have been on. |
| `sums` | `SummaryOnlyGrows` | Two decisions (`SumsBound`) between three statements. |
| `versions` | `VersionsAreDense` | Two administrators and a synchronisation on two keys and two texts, an empty database or one that was synchronised with other texts. |
| `cache` | `CacheIsRecent` | One writer, one reader, a time to live of 1 and a clock to 2: the entry can run out and be renewed. |
| `life` | `RowsFollowTheCase`, `AnswerIsRemembered` | Two requests, one group, two turns, one waiting event, two child rows. |
| `stream` | `NothingFallsBetween`, `PreviewIsContiguous` | One tab that connects twice, one turn of three pieces and a card, against a queue of two; two subscriptions, one of which may be a dead one. |
| `owners` | `OwnersAreKnown` | Two identifiers, one of the seed and one a form mints, a row of each sort, two transactions. |

What a run counts is bounded in the model and named there: `MaxAttempts` (the
code's 3 is 1 here, so that the guard's last attempt is reached with one call),
`MaxQueue` (50 in the code), `Slots` (4), `MaxBoots`, `PoolMax` (10), `MaxGen`
(how often a pool is built), `MaxWording`, `MaxClock`, `MaxNow`, `MaxTurns`,
`MaxEvents`, `MaxRows`, `TurnMax`, `ChunkMax`, `OpenMax`, `QueueMax` and `ConnMax`
of the stream, the set `Events` (each submitted once), `Tasks`, and the finite sets
of events and conversations of the intake.  `gate_mix` and `gate_double` use the
symmetry of the two calls; the runs with liveness use none.
`CHECK_DEADLOCK FALSE` stands where the bounded supply of events, tasks or
requests runs out (the pure scene has no steps at all); `gate_*` and `intake`
never stop and are checked for deadlock.

### Properties that are easy to misread

* `ExecutionIsAuthorised` (gate): what ran by a person's decision has the card
  and the shadow review of that decision, and what ran by rule never had any.
  It says nothing of the lane: a failed read of the verdict counts as no
  verdict, as in the code, so a red case may run by rule.
* `AnswersAreTrue` (gate) is about the answers that speak of the row: executed,
  rejected, failed, waiting.  `gated_error` and `disburse_blocked` say nothing of the
  money: the first is also what a caller hears when the answer of a committed
  execution is lost (`Deliver`), and the retry it asks for finds the receipt.
* `HumanIsServed` (room): a turn of the room takes up every message and decision.
  That is less than telling the main agent: of a decision whose role still runs the
  resume guard returns without a turn of the agent (section 6).
* `RoleIsHeard` (room): after a report arrives, a turn of the room takes up some
  report of its role, unless the limit evicted one; not necessarily the newest one,
  and the resume guard may settle that turn by running the role again.
* `EveryOutcomeIsTold` (sub-agents) is required while nobody cancels; the two
  violations show why that condition is needed.
* `SlotsBalance` (pool) allows more than the size of the pool once one has been
  closed: a thread that read the new semaphore gives a slot back to it that came
  from the old one.  What it excludes is a slot that is lost.
* `OwnersAreKnown` (owners) excepts the row whose transaction crossed the one
  that made its party.  The code leaves such a row without a reference and lists
  it in `operational_data_issues`; every other row with a known owner refers to it.
* `CacheIsRecent` (prompts) allows an old prompt for one time to live after the
  activation, which is what the cache promises across processes.
* `NothingFallsBetween` (stream) excepts what a tab has lost: an
  event that found its queue full, an answer that was lost, and the turn it came
  into the middle of.  The last is the subject of `stream_done`.
* `PreviewIsContiguous` (stream) says that no piece is missing inside the text on the
  screen.  Its head may be: a full state takes the text away in the middle of a turn,
  and what follows is shown without it (section 6); `taken` says where it begins.
* `DeskIsCurrent` does not say that a page holds the newest cases.  The database cuts
  the links by their moments, and the program sorts the merged list by ISO texts,
  which read in the offset of the session or of an application's own column: a row
  newer than one that is shown may be missing, but only where a missing row no older
  than it has a text no later than that one's.  Nor does it say that the
  lane shown is the lane judged: the one query sorts by number, the other by date, and
  where they name two assessments the one shown has the higher number and the earlier
  date, which two assessments get that overtake one another between clock and INSERT.
* `DecisionMatchesAdvice` says what the gate makes of each of the four advices; it does
  not follow all of them (section 6).  "Clean" has no income check where no income was
  verified.
* `FiguresAddUp` does not say that a figure is the sum of the columns beside it: they
  are two statements.  It says that they differ by exactly the rows that a commit put
  or changed between the two; so do the total, the models and the roles.
* `WalksReach` does not promise a store behind every name of an accepted registry: one
  without an adapter, or an optional one without an address, is met only when it is
  asked for.  It says which names answer, and what the health check can fail on.
* `WorseNeverHelps` compares applications that differ in one fact that is there.  Facts
  that are absent are stated apart: an absent record never helps to green, an absent
  verified income or value of the collateral silences its own check, and takes the
  lane to green, or the loan to eligible, where that check was the only objection
  (`AbsentSilencesItsCheck`).  A smaller
  declared income is compared for the credit verdict only: it may agree better with
  the employer's figure, or be absent and then not be compared at all.

### Fairness, and why the code justifies it

* Weak fairness of a thread's or coroutine's next step: the event loop and the
  thread pool run what is ready.
* Strong fairness only where a step waits for a lock or a slot: PostgreSQL grants
  locks in the order of requests and `asyncio` locks and semaphores are first
  come, first served, so a waiter is not overtaken for ever.
* `CallReturns` and `RequestEnds` assume that statements return; a call that is
  aborted counts as one that returned.
* A turn of the main agent ends (`RoomFairness`), and a provider of a sub-agent
  answers (`AnsweringSpec`, only `subs_safe`).  The code has no timeout that would
  force this, for a turn of the main agent none at all; `PROJECT.json` lists that as a
  hazard.  `subs_faults` does without it.
* `PoolFairness` is weak fairness of a thread's step, its time-out among them: the
  wait for a slot is bounded by the clock, which is what makes the nested
  borrowing return.  No thread is promised a slot.
* `FormFairness` is weak fairness of a submission's statements; `FailSubmit` and
  `Crash` may happen and need not.
* No fairness of administrators, of cancellations, of faults or of new events.

## 4. Proofs

The proofs hold for every value of the constants (any set of calls, intents,
cases, tasks and so on; the room's events are a finite set), under the
assumption each module names (`GateAssumption`,
`VerdictAssumption`, `RoomAssumption`, `SubTasksAssumption`,
`IntakeAssumption`, `PoolAssumption`, `FormAssumption`, `LifeAssumption`,
`IdentityAssumption`, `PromptAssumption`, `StreamAssumption`, `ShadowAssumption`,
`CreditAssumption`, `LoanAssumption`, `RecordAssumption`, `CapAssumption`,
`FiguresAssumption`), which say that the constants have their types, that
placeholder values are not real ones, and that what the code divides by (the months
of a loan, the columns of a sparkline, the width of a bucket) is not zero.

**ApprovalGateProofs.**  The inductive invariant `GateInv` adds to the stated
properties that a call is in a branch exactly when it runs the tool (`ModeInv`)
and that two transactions never work on one key (`OneTxnPerIntent`, the advisory
lock).  Without the second, a claim could be finalised by another transaction;
without the first, nothing ties the claim to the row lock it took.  From it:
`TypeCorrect`, `MoneyMovesOnce`, `ClaimsHold`, `TerminalStays`,
`PaidOnlyIfOpen`, and `Refinement`: every statement is one move of `SingleUse`
or none.  Three further invariants rest on `GateInv`.  `AuthInv` says what row,
card and shadow review say together in each status (`PaperTrail`) and that only a
disbursement of a known amount goes by rule (`RuleInv`); it gives
`ExecutionsAuthorised` and, with the fact that what was answered cannot become
false (`FactsStay`), `AnswersStayTrue`.  `NumbersInv` says that a number was
counted no later than now and that an inserted one is nobody else's, so it is the
next one; it gives `NumbersDense`.  `BarredInv` says how far a refused intent
gets; it gives `RefusedStayInert`.

**EventRoomProofs.**  `RoomInv` adds the order of the queue (`ahead` is an
irreflexive, transitive order on the queued events), which is needed to
know that a non-empty queue has a first event to hand over.  From it: types, one
turn at a time, no event in two places, nothing of a person dropped, no stranded
queue, the merge, and the refinement of `TurnTaking`.  `LimitHolds` counts: a
queue within its limit gets one event too many at most, and its oldest report
goes; one that people have filled takes in no report.

**SubTasksProofs.**  `SubInv` says who is in the lock of a role and what such a
dispatch may rely on, and that a live coroutine is registered; it gives
`RolesRunOnce` and `SlotsAreKept` with every fault switched on.  `QuietInv`
(nobody cancels) adds that the thread of `mark_running` flies only while its
coroutine waits for it; `CalmInv` (the database answers too) adds that events
are counted right.  They give `TerminalStays`, `ToldAfterSaved`,
`RegistryStaysExact` (with `RegisteredIsLive`: nobody is registered who does not
live), `EndsAreTold` and `BoardStaysTrue`.

**CaseIntakeProofs.**  `IntakeInv` says that the two locks exclude
(`LocksExclude`), that what a request read is still so while it holds them
(`ReadIsFresh`: the row is locked, so that a deletion cannot slip in), and that
a pending bell belongs to a recorded event (`BellsArePending`).  From it:
`NewestAlwaysWins`, `AnswersAreRecorded`, `BellsRingOnce` and the refinement of
`CaseLedger`.

**WaitingProofs.**  `PoolInv` says that pools come in order and all but the one in
use are closed (`PoolsInOrder`), that a thread holds exactly the slots its place in
the code says (`SlotsInHand`), and that a slot goes back to the semaphore it came
from unless that pool has been closed meanwhile (`SlotsGoHome`).  The last is the
point: `release` reads the shared semaphore again, so a slot may go to a newer one,
and the balance of the pool in use survives only because its own slots cannot leave
it.  Counting rests on two lemmas, that taking a slot adds one lease to one pool and
giving it back takes one from one pool.  From it: `PoolTypesHold` and
`SlotsAreNeverLost`.  `FormInv` says that one submission holds a card (`OneHolder`),
that one which has checked the card still finds it open and with its own wording
(`RequestFacts`, what the row lock gives), that a card is submitted exactly when it
has a customer, and one (`OneCustomer`), and that consents follow customers.  From
it `FormsAreWhole`, for any numbers taken before, also those that the text order
turns round.

**OwnershipProofs.**  `LifeInv` adds that nothing is there before the conversation
is (`NothingBefore`), because a row's reference is right only for a conversation that
has been begun, and what the turn may rely on between resuming and storing a session
(`SessionFacts`): the stored session is the one the turn expected, the one it ended
with or none, whatever was lost in between.  From it `RowsAlwaysFollow` and
`AnswersStayRemembered`.  `IdentityInv` adds what holds between the trigger of a
transaction and its commit: no other transaction makes profiles meanwhile
(`OneMaker`), the kinds still agree (`NoClash`), each row that names a new party is
among those it refreshed or has crossed it (`NoneMissed`), and a row that found
nobody still has nobody, or knows of the crossing (`RowsKnow`).  The two last are the
two directions in which two transactions miss each other.  From it
`OwnersStayKnown`, starting from whatever the migration accepts.

**ReaderProofs.**  `PromptInv` says that the rows of a prompt are numbered from 1
without a gap (`Numbered`), that a row which is inserted and not committed has the
next number and a text of its own, and that no other transaction has one of that
prompt (`RowsWait`).  Nothing else holds the versions dense: administrators and the
synchronisation take different locks and meet at the unique keys, and a number that
was counted may be old when it is inserted (`WritersKnow`).  For the cache
(`ReadersKnow`) it says that who has read after the last change of a binding has the
active text, and an entry is dated by the reading and not by the storing.  From it
`VersionsStayDense` and `CacheStaysRecent`.  `StreamInv` says of every connected tab
that has missed nothing where its pieces are: from the next one on they lie in its
queue, in order, up to the last one sent, and the end after them (`NoGap`); and of
every stored item why the tab will see it (`Coming`): it has been seen, is in the
queue, in an answer that was read, waits to be published, or a read is yet to begin.
That a turn's text comes in the order of the turns (`InOrder`) ties the two to the
text on the screen (`TextFits`).  From it `NothingIsLostBetween` and
`PreviewStaysContiguous`, for any number of pieces and any length of a queue.

**ServiceProofs: the ledger.**  `ShadowInv` says that the pages a reader has been
told descend to his cursor, that each mismatch he is to be told has been told or
lies after the cursor (`ReaderOK`), and that what each statement of a summary
counted the ledger still has, and more (`SummaryOK`).  A review that commits late
with an earlier date may fall on either side of the cursor, which is why the
property speaks of what was committed before the first page.  `PageIsLatest`, for
which a page of a given size is defined by counting, carries the first; that sums
over lanes and over days are the count of all rows, `GroupsAddUp`, the second.  From
it `PagesAlwaysTellEach` and `SummaryAlwaysGrows`.

**ServiceProofs: the calculations.**  A scene without steps has an invariant as
simple as `CaseStays`; all the work is in theorems about the operators, for every
input, from which the invariants of the runs follow.

* `GreenIsClean`, `GateAgreesWithSnapshot`, `GateFollowsAdvice` give
  `DecisionMatchesAdvice`.
* `AbsentIsSilentOnly`, for every application and either kind of owner, and
  `WorseIsNeverBetter` and `WorseHasNoMoreProducts` give `WorseNeverHelps`.  An
  application is worse than another when no fact of it is better for the bank and no
  figure of it is absent that the other has (`NoBetter`), however many facts differ; each criterion can then only get stricter,
  and instalment, DSCR and LTV grow with what they are made of, through the rounding
  of divisions (`QuotientsGrow`, `AnnuitiesGrow`).  Two hypotheses say where the code
  needs them.  The CIC group that blocks is above 1: an owner without a CIC record
  is never blocked, only flagged, so a bank that blocked group 1 would treat a
  missing record better than a good one.  For the catalogue, no product accepts a group above
  2: a missing record misses every limit, so a product open to group 3 would prefer
  bad debt to no record.
* `ListsAgreeForAll`, `PageIsAlwaysCurrent` and `LaneIsAlwaysCurrent` give
  `ListsAgree` and `DeskIsCurrent`.  The second rests on `CutTwice`, about any rows cut
  by one key and then by another, and assumes nothing of how texts and moments agree.
* `GroupsAreReached`, `FewerRelationsFewerDebts`, `DocumentsAreReached`,
  `AcceptedNamesAreStores` and `AcceptedNamesAnswer` give `WalksReach`.  The last but
  one is a pigeonhole: a walk along
  as many aliases as there are names passes one of them twice, and in an accepted
  catalogue only a real store can be passed twice.
* `SparksAddUp`, `WindowsAddUp`, `CostsOfAllKinds` and `FewAreNeverAnomalies` give
  `FiguresAddUp`.  `SparksAddUp` and `CostsOfAllKinds` rest on one lemma,
  `PartsAddUp`: the sums of the parts of a set are its sum.  The last is why no
  anomaly shows on a small dashboard: of n values none is further than (n - 1) / sqrt(n) standard deviations of the sample
  from the mean, which is below 2 up to five values and above it from six.

No induction over data is available to the provers, so sums are counted and
recursions are met by their smallest counterexample: a sum of natural numbers is the
number of its coins (`SumIsCoins`), a power the number of its words (`PowerIs`), and
a set, a number or a walk for which a statement fails has a least one
(`SmallestOf`, `LeastOf`) whose predecessor refutes it.

Of the properties stated by theorems, these are not among the runs', each having
been a run's property before its proof: the types, `OneTurnAtATime`, `InOnePlace`,
`HumanNeverDropped`, `QueueBounded`, `MergeKeepsTheRole` (room), `TerminalIsFinal`,
`OnlyFromApprovedOrNone` and `RefusedIntentsAreInert` (gate), `SlotsHold`, `PersistedBeforeTold` (sub-agents),
`NewestWins`, `BellRingsOnce` (intake).

**Only model-checked:** everything under fairness (`CallReturns`, `HumanIsServed`,
`RoleIsHeard`, `BorrowerReturns`, `SubmissionEnds`, `SpawnedIsTold`,
`DispatchReturns`, `CancelEnds`, `RequestEnds`), which is beyond the prover.  Every
other property of a passing run is stated by a theorem.

## 5. What is not modelled, and why

* Several processes on one database, except for a boot (`PeerBoot`), the
  synchronisation of prompts and the loading of a seed: the deployment runs one
  worker.
* The number of database connections outside `StoragePool`: the gate, the intake
  and the sub-agents get as many as they ask for.
* Content: prompts, texts, cards other than approval cards and forms, memos.
* Sign-in: a request is decided from its own signed token and one row.  What a
  token then may see is in `Desk`.
* The providers (`app/providers/`): a configuration file read into a table of
  models and environment variables; what a model says is free in every module.
* Mounting of tools and SQL rewriting (`app/mount/`): conversions of data, except
  that `BEGIN IMMEDIATE` has no effect in the operations pack, which
  `ApprovalGate` has.
* Text and vector search: calls of outside services; no decision of the core
  depends on what they find.
* Mail and channels: best effort with three attempts, nothing reads the result.
* Audit records and log lines: appended, never read by a decision.
* Validation of configuration files and request bodies, start-up checks, error
  texts, the frontend but for its hook of the event stream, the benchmark.
* Database models: declarations.  Unique keys, checks, foreign keys and triggers
  that the code relies on are guards of the actions that meet them.

`PROJECT.json` gives each part of the repository its status and, for a part that
is modelled in part, what is missing.

## 6. Where the code disagrees with what the repository says

A run of its own finds a disagreement where the statement can be checked as it
stands.  Where a passing run is named, its property says what the code does instead.

| Run | The code | The statement |
|---|---|---|
| `gate_double` | Two approved intents for one application can both be paid out: the duplicate check and the count of `ops_disburse` are two statements that another commit can separate, the lock is per key, and the `BEGIN IMMEDIATE` that should serialise them has no effect through the bridge. | `roles/operations/functions.py:104`, `:164`, `:187` and `roles/operations/SKILL.md:32`: no double disbursement. |
| `room_newest` | A report that was handed out and put back stands behind a newer one of its role, and the newer one is then dropped as superseded. | `docs/patterns/multi-agent.md:187`: keep the newest. |
| `subs_unstarted` | A cancellation that meets a coroutine before its first step ends it without an event, and the role stays registered. | `SPEC.md:100`: every outcome, a user's cancellation included, sends exactly one event. |
| `subs_late_mark` | The thread of `mark_running` goes on after the cancellation and sets a failed task back to running. | `sprints/end_sprint_6.md:20`: a true terminal status is immutable. |
| `waiting`, `HumanIsServed` | A turn of the room takes up every decision, but of one whose role is still running the resume guard returns before a turn of the main agent (`main_session.py:268`), which is never told of it. | `SPEC.md:98`, `docs/patterns/multi-agent.md:149`: every message and every decision reaches the main agent. |
| `services`, `DecisionMatchesAdvice` | The first tier pays by rule whatever is below the threshold and not red, also what the legal expert left to a person, every loan of a business among it (`verdict.py:130`). | `roles/legal/functions.py:296`, `:436`: a business loan is never automatic and always goes through a person. |
| `services`, `WorseNeverHelps` | An employment record without a verified income passes the income check, with the words that the two incomes agree (`roles/legal/functions.py:216`, `:304`), and the lane can be green. | `roles/legal/functions.py:209`: a declared income is not to be taken for verified; and the tool's own answer that it is not within the threshold. |
| `services`, `PreviewIsContiguous` | A full state that arrives in the middle of a turn takes its text off the screen while the hook keeps its place, so the next pieces are shown without their head (`useWorkspaceController.ts:107`). | `docs/patterns/streaming-sse.md:260`: a text with its head cut off is the failure to avoid; pieces in the middle wait for the full text. |
| `stream_done` | The browser's hook ends a turn only when it has every piece from the first on (`useConversationSSE.ts:156`).  A tab that connected in the middle of a turn, or whose queue was full, is told the end of the turn with its full text and does not show it. | `docs/patterns/streaming-sse.md:165`: when the end arrives the frontend replaces the whole text, and after a lost connection or piece the text is right. |

## 7. Plan

In this order, the most consequential first:

1. **ResumeExecution**: `ApprovalGate`, `EventRoom` and the turn of
   `main_session.py` in one specification (decide, wake, guard, dispatch, claim,
   receipt), with restarts.  Abstract specification: a granted intent is executed
   or ends as failed after `MAX_EXEC_ATTEMPTS`.  Today the three meet only through
   their interfaces: the room takes any event, the gate any call, and
   `ConversationLife` any report and decision.
2. A restart of the room (`reset_all`) in `EventRoom`, and the notifications and
   the status of the conversation after a gate call's commit.
3. Larger instances of `services`: two tabs, two groups, a second seed kind.
