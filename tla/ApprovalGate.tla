---------------------------- MODULE ApprovalGate ----------------------------
(***************************************************************************)
(* The money gate: orch/gated.py with the tools it runs (the loan update   *)
(* of `disburse` and, through orch/ops_bridge.py, `ops_disburse` of        *)
(* roles/operations/functions.py) and the approval store of                *)
(* orch/store_approvals.py.                                                *)
(*                                                                         *)
(* Every call of a gated tool runs _gated_txn in a thread of its own: one  *)
(* PostgreSQL transaction at READ COMMITTED.  A step of this model is one  *)
(* statement, which sees what is committed when it runs.  The writes of an *)
(* open transaction show up at its commit; until then others only meet its *)
(* locks.  An intent stands for an idempotency key: a conversation, an     *)
(* action and the hash of its business arguments.                          *)
(***************************************************************************)
EXTENDS Verdict, FiniteSets

CONSTANTS
    Calls,          \* concurrent executions of the gated handler
    Intents,        \* idempotency keys
    Convs,          \* conversations
    Targets,        \* loans and applications
    ConvOf,         \* Intents -> Convs
    ActionOf,       \* Intents -> Actions
    TargetOf,       \* Intents -> Targets
    AmountOf,       \* Intents -> Amounts
    Linked,         \* intents of a pre-assessment (intake) conversation
    Foreign,        \* disburse intents whose loan is another customer's
    Thresholds,     \* values the threshold row may have, 0 for a failed read
    MaxAttempts     \* MAX_EXEC_ATTEMPTS

ASSUME GateAssumption ==
    /\ ConvOf   \in [Intents -> Convs]
    /\ ActionOf \in [Intents -> Actions]
    /\ TargetOf \in [Intents -> Targets]
    /\ AmountOf \in [Intents -> Amounts]
    /\ Linked \subseteq Intents
    /\ Foreign \subseteq {i \in Intents : ActionOf[i] = "disburse"}
    /\ Thresholds \subseteq Nat
    /\ MaxAttempts \in Nat \ {0}

VARIABLES
    row,        \* approvals, one row at most for an intent
    card,       \* status shown by the approval card of an intent
    review,     \* shadow_reviews: the human decision recorded for an intent
    runs,       \* executions of an intent that were committed
    ledger,     \* disbursements: rows of ops_disburse
    pc,         \* the statement a call is about to run
    req,        \* the intent of a call
    thr,        \* threshold_vnd, read before the transaction
    mode,       \* the branch that runs the tool: "claim" or "auto"
    advice,     \* the recommendation of the decision, for the INSERT
    dsb,        \* disbursement number computed by COUNT(*), 0 before
    out,        \* code of the last answer of a call
    grant       \* the approval a conversation's resume guard has peeked at

dbVars   == <<row, card, review, runs, ledger>>
callVars == <<pc, req, thr, mode, advice, dsb, out>>
vars     == <<row, card, review, runs, ledger, pc, req, thr, mode, advice, dsb,
              out, grant>>

Statuses == {"none", "pending", "approved", "rejected", "used", "exec_failed"}
Recommendations == {"none", "auto-eligible", "reject-recommended",
                    "human-review"}
Row == [status : Statuses, by : {"none", "auto-rule", "human"},
        reco : Recommendations, attempts : Nat]
NoRow == [status |-> "none", by |-> "none", reco |-> "none", attempts |-> 0]

Guards    == {"idle", "owner", "lock"}
Branches  == {"replay", "claim", "pending", "terminal", "decide", "human"}
Executing == {"loan", "gate", "dup", "count", "insert", "finalize"}
PCs       == Guards \cup Branches \cup Executing
Codes     == {"none", "preassessment_only", "not_your_loan", "receipt",
              "executed", "approval_pending", "approval_required",
              "approval_rejected", "approval_execution_failed",
              "disburse_blocked", "gated_error"}

NoGrant == [intent |-> "none", attempts |-> 0]
NoReview == [decision |-> "none", match |-> "none"]
-----------------------------------------------------------------------------
(* Locks.  The advisory lock of an intent and the row locks are released   *)
(* by COMMIT and ROLLBACK, so who holds one follows from where the calls   *)
(* are.                                                                    *)

InTxn(c) == pc[c] \in Branches \cup Executing

HoldsIntent(c, i) == req[c] = i /\ InTxn(c)

HoldsRow(c, i) == HoldsIntent(c, i) /\ mode[c] = "claim"

\* A faulty RowFree: SELECT without FOR UPDATE.
RowFreeUnlocked(i) == TRUE

RowFree(i) == \A c \in Calls : ~HoldsRow(c, i)

\* After UPDATE loans the row stays locked until the transaction ends.
HoldsLoan(c, l) ==
    /\ pc[c] = "finalize"
    /\ ActionOf[req[c]] = "disburse"
    /\ TargetOf[req[c]] = l

\* An uncommitted row of disbursements: its key makes others wait.
HoldsNumber(c, n) ==
    /\ pc[c] = "finalize"
    /\ ActionOf[req[c]] = "ops_disburse"
    /\ dsb[c] = n

Executed(t) == \E d \in ledger : d.target = t

ToolEntry(i) == IF ActionOf[i] = "disburse" THEN "loan" ELSE "gate"
-----------------------------------------------------------------------------
Init ==
    /\ row = [i \in Intents |-> NoRow]
    /\ card = [i \in Intents |-> "none"]
    /\ review = [i \in Intents |-> NoReview]
    /\ runs = [i \in Intents |-> 0]
    /\ ledger = {}
    /\ pc = [c \in Calls |-> "idle"]
    /\ req \in [Calls -> Intents]
    /\ thr = [c \in Calls |-> 0]
    /\ mode = [c \in Calls |-> "none"]
    /\ advice = [c \in Calls |-> "none"]
    /\ dsb = [c \in Calls |-> 0]
    /\ out = [c \in Calls |-> "none"]
    /\ grant = [v \in Convs |-> NoGrant]

Goto(c, p) == pc' = [pc EXCEPT ![c] = p]

\* The transaction of c is over, by COMMIT or ROLLBACK, and c answers.
Return(c, code) ==
    /\ Goto(c, "idle")
    /\ out' = [out EXCEPT ![c] = code]
    /\ thr' = [thr EXCEPT ![c] = 0]
    /\ mode' = [mode EXCEPT ![c] = "none"]
    /\ advice' = [advice EXCEPT ![c] = "none"]
    /\ dsb' = [dsb EXCEPT ![c] = 0]
    /\ UNCHANGED <<req, grant>>

\* After COMMIT the answer alone may be lost, when the connection breaks or cannot
\* be given back (finally: conn.close()): the handler then answers gated_error.
Deliver(c, code) == \E a \in {code, "gated_error"} : Return(c, a)

Answer(c, code) == Return(c, code) /\ UNCHANGED dbVars

Advance(c, p) ==
    /\ Goto(c, p)
    /\ UNCHANGED <<dbVars, req, thr, mode, advice, dsb, out, grant>>
-----------------------------------------------------------------------------
(* Before the transaction's lock: refusals and the threshold.              *)

\* _linked_preassessment_refusal, on a connection of its own and again in
\* the transaction: a link is made with its conversation, so both agree.
RefuseLinked(c, i) ==
    /\ pc[c] = "idle"
    /\ i \in Linked
    /\ req' = [req EXCEPT ![c] = i]
    /\ out' = [out EXCEPT ![c] = "preassessment_only"]
    /\ UNCHANGED <<dbVars, pc, thr, mode, advice, dsb, grant>>

\* auto_approve_threshold reads the row now; a failed read counts as 0.
Begin(c, i) ==
    /\ pc[c] = "idle"
    /\ i \notin Linked
    /\ req' = [req EXCEPT ![c] = i]
    /\ thr' \in {[thr EXCEPT ![c] = t] : t \in Thresholds}
    /\ out' = [out EXCEPT ![c] = "none"]
    /\ Goto(c, IF ActionOf[i] = "disburse" THEN "owner" ELSE "lock")
    /\ UNCHANGED <<dbVars, mode, advice, dsb, grant>>

\* cross_owner_refusal: a lookup that fails refuses as well.
CheckOwner(c) ==
    /\ pc[c] = "owner"
    /\ \/ Answer(c, "not_your_loan")
       \/ req[c] \notin Foreign /\ Advance(c, "lock")

\* pg_advisory_xact_lock
TakeLock(c) ==
    /\ pc[c] = "lock"
    /\ \A d \in Calls : ~HoldsIntent(d, req[c])
    /\ Advance(c, "replay")
-----------------------------------------------------------------------------
(* The four branches that look for an existing row, then the decision.     *)

Replay(c) ==
    /\ pc[c] = "replay"
    /\ \/ row[req[c]].status = "used" /\ Answer(c, "receipt")
       \/ row[req[c]].status # "used" /\ Advance(c, "claim")

\* SELECT ... status='approved' FOR UPDATE
Claim(c) ==
    /\ pc[c] = "claim"
    /\ \/ /\ row[req[c]].status = "approved"
          /\ RowFree(req[c])
          /\ Goto(c, ToolEntry(req[c]))
          /\ mode' = [mode EXCEPT ![c] = "claim"]
          /\ UNCHANGED <<dbVars, req, thr, advice, dsb, out, grant>>
       \/ row[req[c]].status # "approved" /\ Advance(c, "pending")

FindPending(c) ==
    /\ pc[c] = "pending"
    /\ \/ row[req[c]].status = "pending" /\ Answer(c, "approval_pending")
       \/ row[req[c]].status # "pending" /\ Advance(c, "terminal")

\* A faulty FindTerminal: a failed execution is reported as a rejection.
FindTerminalConfused(c) ==
    /\ pc[c] = "terminal"
    /\ \/ /\ row[req[c]].status \in {"rejected", "exec_failed"}
          /\ Answer(c, "approval_rejected")
       \/ /\ row[req[c]].status \notin {"rejected", "exec_failed"}
          /\ Advance(c, "decide")

FindTerminal(c) ==
    /\ pc[c] = "terminal"
    /\ \/ row[req[c]].status = "rejected" /\ Answer(c, "approval_rejected")
       \/ /\ row[req[c]].status = "exec_failed"
          /\ Answer(c, "approval_execution_failed")
       \/ /\ row[req[c]].status \notin {"rejected", "exec_failed"}
          /\ Advance(c, "decide")

\* gated_decision.  The newest assessment is written by other components
\* and read on a second connection, so any lane may be seen; a failed read
\* is the lane "none".  The recommendation is kept for the INSERT.
DecideAuto(c) ==
    /\ pc[c] = "decide"
    /\ \E lane \in Lanes :
          Decision(ActionOf[req[c]], AmountOf[req[c]], lane, thr[c]) = "auto"
    /\ Goto(c, ToolEntry(req[c]))
    /\ mode' = [mode EXCEPT ![c] = "auto"]
    /\ UNCHANGED <<dbVars, req, thr, advice, dsb, out, grant>>

DecideHuman(c) ==
    /\ pc[c] = "decide"
    /\ \E lane \in Lanes :
        LET i == req[c] IN
        /\ Decision(ActionOf[i], AmountOf[i], lane, thr[c]) = "human"
        /\ advice' = [advice EXCEPT ![c] =
                        Recommendation(ActionOf[i], AmountOf[i], lane, thr[c])]
    /\ Goto(c, "human")
    /\ UNCHANGED <<dbVars, req, thr, mode, dsb, out, grant>>

\* _branch_human.  An intent that has a row by now violates
\* uq_approvals_idempotency_key: the transaction is rolled back.
RequestApproval(c) ==
    /\ pc[c] = "human"
    /\ \/ /\ row[req[c]].status = "none"
          /\ row' = [row EXCEPT ![req[c]] =
                       [NoRow EXCEPT !.status = "pending", !.reco = advice[c]]]
          /\ card' = [card EXCEPT ![req[c]] = "pending"]
          /\ Deliver(c, "approval_required")
          /\ UNCHANGED <<review, runs, ledger>>
       \/ row[req[c]].status # "none" /\ Answer(c, "gated_error")
-----------------------------------------------------------------------------
(* The tools, run by _branch_claim and by _branch_auto.                    *)

\* disburse: UPDATE loans, whatever the status of the loan.
UpdateLoan(c) ==
    /\ pc[c] = "loan"
    /\ \A d \in Calls : ~HoldsLoan(d, TargetOf[req[c]])
    /\ Advance(c, "finalize")

\* _gate_check: the conditions other departments fill in may block, and a
\* committed disbursement of the application does.
GateCheck(c) ==
    /\ pc[c] = "gate"
    /\ \/ Answer(c, "disburse_blocked")
       \/ ~Executed(TargetOf[req[c]]) /\ Advance(c, "dup")

\* The second look for a disbursement, after a BEGIN IMMEDIATE that
\* OpsConnProxy turns into nothing.
DupCheck(c) ==
    /\ pc[c] = "dup"
    /\ \/ Executed(TargetOf[req[c]]) /\ Answer(c, "disburse_blocked")
       \/ ~Executed(TargetOf[req[c]]) /\ Advance(c, "count")

Count(c) ==
    /\ pc[c] = "count"
    /\ dsb' = [dsb EXCEPT ![c] = Cardinality(ledger) + 1]
    /\ Goto(c, "insert")
    /\ UNCHANGED <<dbVars, req, thr, mode, advice, out, grant>>

\* A faulty InsertDisbursement: a number twice is accepted.
InsertDisbursementUnchecked(c) ==
    /\ pc[c] = "insert"
    /\ \A d \in Calls : ~HoldsNumber(d, dsb[c])
    /\ Advance(c, "finalize")

\* A faulty InsertDisbursement: tries again with the number it has.
InsertDisbursementRetrying(c) ==
    /\ pc[c] = "insert"
    /\ \A d \in Calls : ~HoldsNumber(d, dsb[c])
    /\ \A d \in ledger : d.number # dsb[c]
    /\ Advance(c, "finalize")

\* INSERT INTO disbursements, then UPDATE applications.  A committed row of
\* the same number is an IntegrityError; an uncommitted one makes it wait.
InsertDisbursement(c) ==
    /\ pc[c] = "insert"
    /\ \A d \in Calls : ~HoldsNumber(d, dsb[c])
    /\ \/ /\ \E d \in ledger : d.number = dsb[c]
          /\ Answer(c, "disburse_blocked")
       \/ /\ \A d \in ledger : d.number # dsb[c]
          /\ Advance(c, "finalize")

\* The writes of the tool become visible with the row.
CommitRun(c, r) ==
    LET i == req[c] IN
    /\ row' = [row EXCEPT ![i] = r]
    /\ runs' = [runs EXCEPT ![i] = @ + 1]
    /\ ledger' = IF ActionOf[i] = "ops_disburse"
                 THEN ledger \cup {[number |-> dsb[c], intent |-> i,
                                    target |-> TargetOf[i]]}
                 ELSE ledger
    /\ Deliver(c, "executed")
    /\ UNCHANGED <<card, review>>

\* _finalize_receipt: a row that is no longer approved undoes the tool.
FinalizeReceipt(c) ==
    /\ pc[c] = "finalize" /\ mode[c] = "claim"
    /\ IF row[req[c]].status = "approved"
       THEN CommitRun(c, [row[req[c]] EXCEPT !.status = "used"])
       ELSE Answer(c, "gated_error")

\* A faulty InsertAuto: ON CONFLICT DO NOTHING, and the tool's write stays.
InsertAutoIgnoring(c) ==
    /\ pc[c] = "finalize" /\ mode[c] = "auto"
    /\ \/ /\ row[req[c]].status = "none"
          /\ CommitRun(c, [NoRow EXCEPT !.status = "used", !.by = "auto-rule"])
       \/ row[req[c]].status # "none" /\ CommitRun(c, row[req[c]])

\* A faulty InsertAuto: ON CONFLICT DO UPDATE.
InsertAutoOverwriting(c) ==
    /\ pc[c] = "finalize" /\ mode[c] = "auto"
    /\ CommitRun(c, [NoRow EXCEPT !.status = "used", !.by = "auto-rule"])

\* The INSERT of _branch_auto, with its receipt.
InsertAuto(c) ==
    /\ pc[c] = "finalize" /\ mode[c] = "auto"
    /\ \/ /\ row[req[c]].status = "none"
          /\ CommitRun(c, [NoRow EXCEPT !.status = "used", !.by = "auto-rule"])
       \/ row[req[c]].status # "none" /\ Answer(c, "gated_error")

\* A database error, an exception of the tool (a loan that does not exist)
\* or the end of the process: ROLLBACK.
Abort(c) ==
    /\ pc[c] # "idle"
    /\ Answer(c, "gated_error")
-----------------------------------------------------------------------------
(* The approval store, outside the gate.                                   *)

\* _decide_sync: of two administrators the second finds nothing pending.
AdminDecide(i, decision) ==
    /\ row[i].status = "pending"
    /\ row' = [row EXCEPT ![i].status = decision, ![i].by = "human"]
    /\ card' = [card EXCEPT ![i] = decision]
    /\ review' = [review EXCEPT ![i] =
         [decision |-> decision,
          match |-> IF ~Comparable(row[i].reco) THEN "incomparable"
                    ELSE IF Match(row[i].reco, decision) THEN "yes" ELSE "no"]]
    /\ UNCHANGED <<runs, ledger, callVars, grant>>

\* peek_grant, by the resume guard of a conversation: one turn at a time.
PeekGrant(v, i) ==
    /\ grant[v] = NoGrant
    /\ ConvOf[i] = v
    /\ row[i].status = "approved"
    /\ grant' = [grant EXCEPT ![v] =
                   [intent |-> i, attempts |-> row[i].attempts]]
    /\ UNCHANGED <<dbVars, callVars>>

\* claim_exec_attempt: no condition on the status, but it waits for the row.
ClaimAttempt(v) ==
    LET i == grant[v].intent IN
    /\ grant[v] # NoGrant
    /\ grant[v].attempts < MaxAttempts
    /\ RowFree(i)
    /\ row' = [row EXCEPT ![i].attempts = @ + 1]
    /\ grant' = [grant EXCEPT ![v] = NoGrant]
    /\ UNCHANGED <<card, review, runs, ledger, callVars>>

\* A faulty MarkExecFailed: no condition on the status.
MarkExecFailedAlways(v) ==
    /\ grant[v] # NoGrant
    /\ grant[v].attempts >= MaxAttempts
    /\ RowFree(grant[v].intent)
    /\ row' = [row EXCEPT ![grant[v].intent].status = "exec_failed"]
    /\ grant' = [grant EXCEPT ![v] = NoGrant]
    /\ UNCHANGED <<card, review, runs, ledger, callVars>>

\* mark_exec_failed: WHERE status='approved' AND used_at IS NULL.
MarkExecFailed(v) ==
    LET i == grant[v].intent IN
    /\ grant[v] # NoGrant
    /\ grant[v].attempts >= MaxAttempts
    /\ RowFree(i)
    /\ row' = IF row[i].status = "approved"
              THEN [row EXCEPT ![i].status = "exec_failed"] ELSE row
    /\ grant' = [grant EXCEPT ![v] = NoGrant]
    /\ UNCHANGED <<card, review, runs, ledger, callVars>>

\* An exception or the end of the process between the two.
DropGrant(v) ==
    /\ grant[v] # NoGrant
    /\ grant' = [grant EXCEPT ![v] = NoGrant]
    /\ UNCHANGED <<dbVars, callVars>>
-----------------------------------------------------------------------------
CallStep(c) ==
    \/ CheckOwner(c) \/ TakeLock(c) \/ Replay(c) \/ Claim(c)
    \/ FindPending(c) \/ FindTerminal(c)
    \/ DecideAuto(c) \/ DecideHuman(c) \/ RequestApproval(c)
    \/ UpdateLoan(c)
    \/ GateCheck(c) \/ DupCheck(c) \/ Count(c) \/ InsertDisbursement(c)
    \/ FinalizeReceipt(c) \/ InsertAuto(c)

StoreStep ==
    \/ \E i \in Intents, d \in {"approved", "rejected"} : AdminDecide(i, d)
    \/ \E v \in Convs :
          \/ \E i \in Intents : PeekGrant(v, i)
          \/ ClaimAttempt(v)
          \/ MarkExecFailed(v)
          \/ DropGrant(v)

Next ==
    \/ \E c \in Calls, i \in Intents : RefuseLinked(c, i) \/ Begin(c, i)
    \/ \E c \in Calls : CallStep(c) \/ Abort(c)
    \/ StoreStep

Spec == Init /\ [][Next]_vars

\* The statements that may wait for a lock of another call.
LockStep(c) == TakeLock(c) \/ UpdateLoan(c) \/ InsertDisbursement(c)

\* The scheduler runs every thread, and PostgreSQL grants a lock in the order
\* of the requests, so a waiter is not overtaken for ever: strong fairness
\* for the statements that wait, weak fairness for the others.
Fairness ==
    /\ \A c \in Calls : WF_vars(CallStep(c))
    /\ \A c \in Calls : SF_vars(LockStep(c))

FairSpec == Spec /\ Fairness
-----------------------------------------------------------------------------
(* The abstract specification and the mapping of an approvals row.         *)

StageOf(status) ==
    CASE status = "none"        -> "absent"
      [] status = "pending"     -> "requested"
      [] status = "approved"    -> "granted"
      [] status = "rejected"    -> "refused"
      [] status = "exec_failed" -> "failed"
      [] status = "used"        -> "consumed"

Promise == INSTANCE SingleUse WITH
             stage <- [i \in Intents |-> StageOf(row[i].status)],
             effects <- runs

\* The gate keeps the promise of SingleUse: whatever the statements of
\* concurrent transactions do, each intent moves as one atomic ledger entry.
KeepsPromise == Promise!SUSpec
-----------------------------------------------------------------------------
(* Properties.                                                             *)

\* Every variable keeps to its set of values.
TypeOK ==
    /\ row \in [Intents -> Row]
    /\ card \in [Intents -> {"none", "pending", "approved", "rejected"}]
    /\ review \in [Intents ->
          [decision : {"none", "approved", "rejected"},
           match : {"none", "yes", "no", "incomparable"}]]
    /\ runs \in [Intents -> Nat]
    /\ ledger \subseteq [number : Nat, intent : Intents, target : Targets]
    /\ pc \in [Calls -> PCs]
    /\ req \in [Calls -> Intents]
    /\ thr \in [Calls -> Nat]
    /\ mode \in [Calls -> {"none", "claim", "auto"}]
    /\ advice \in [Calls -> Recommendations]
    /\ dsb \in [Calls -> Nat]
    /\ out \in [Calls -> Codes]
    /\ grant \in [Convs -> [intent : Intents, attempts : Nat] \cup {NoGrant}]

\* However calls, administrators and the resume guard interleave, the tool
\* of an intent takes effect at most once, and the row is `used` exactly
\* when it has: the receipt is never ahead of the money nor behind it
\* (_branch_claim, _branch_auto, ck_approvals_used_receipt).
UsedIffExecutedOnce ==
    \A i \in Intents :
        runs[i] = (IF row[i].status = "used" THEN 1 ELSE 0)

\* From FOR UPDATE to COMMIT a claimed row stays approved: neither an
\* administrator nor mark_exec_failed nor another call takes it away, so
\* the RuntimeError of _finalize_receipt is never raised.
ClaimIsNeverLost ==
    \A c \in Calls :
        InTxn(c) /\ mode[c] = "claim" => row[req[c]].status = "approved"

\* What was executed was either approved by a person whose card and shadow
\* review say so, or by rule, which only `disburse` can be, and then nobody
\* was ever asked.
ExecutionIsAuthorised ==
    \A i \in Intents : row[i].status = "used" =>
        \/ /\ row[i].by = "human"
           /\ card[i] = "approved"
           /\ review[i].decision = "approved"
        \/ /\ row[i].by = "auto-rule"
           /\ ActionOf[i] = "disburse"
           /\ AmountOf[i] # NoAmount
           /\ card[i] = "none"
           /\ review[i].decision = "none"

\* No two committed disbursements carry the same number and no number is
\* skipped, although each is a COUNT(*) read some statements before its
\* INSERT (the race the comment above BEGIN IMMEDIATE speaks of).
LedgerIsDense ==
    {d.number : d \in ledger} = 1 .. Cardinality(ledger)

\* An intake conversation and a loan of another customer never reach money.
RefusedIntentsAreInert ==
    \A i \in Linked \cup Foreign : row[i] = NoRow /\ runs[i] = 0

\* What the handler answers is what happened, and stays so: a receipt only after
\* the one execution, a rejection or a failure only of a row that has ended so,
\* a request for approval only where a card was shown and no rule has paid.
\* The codes gated_error and disburse_blocked say nothing of the money: the
\* answer of a committed execution may be lost (Deliver), and the retry that
\* gated_error asks for finds the receipt.
AnswersAreTrue ==
    \A c \in Calls :
        /\ out[c] \in {"executed", "receipt"} => runs[req[c]] = 1
        /\ out[c] = "approval_rejected" => row[req[c]].status = "rejected"
        /\ out[c] = "approval_execution_failed"
             => row[req[c]].status = "exec_failed"
        /\ out[c] \in {"approval_required", "approval_pending"}
             => row[req[c]].by # "auto-rule" /\ card[req[c]] # "none"

\* A terminal row is final: nothing reopens or re-decides it.
TerminalIsFinal ==
    [][\A i \in Intents :
          row[i].status \in {"rejected", "used", "exec_failed"}
          => row'[i].status = row[i].status]_vars

\* The tool takes effect only from an approved row or from no row at all;
\* whatever was recorded as refused, failed or already used stays unpaid.
OnlyFromApprovedOrNone ==
    [][\A i \in Intents :
          runs'[i] # runs[i] => row[i].status \in {"approved", "none"}]_vars

\* Every call answers: no call waits for ever on a lock or on another call.
CallReturns == \A c \in Calls : pc[c] # "idle" ~> pc[c] = "idle"

\* One application is paid out once (_gate_check: "cam giai ngan doi",
\* double disbursement is forbidden).
NoDoubleDisbursement ==
    \A d, e \in ledger : d.target = e.target => d = e
=============================================================================
