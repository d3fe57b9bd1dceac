------------------------- MODULE ApprovalGateProofs -------------------------
(***************************************************************************)
(* Theorems about ApprovalGate for every set of calls, intents, targets    *)
(* and conversations.                                                      *)
(***************************************************************************)
EXTENDS ApprovalGate, FiniteSetTheorems, TLAPS

\* The disbursements stay countable, as TypeOK needs of Count.
LedgerFinite == IsFiniteSet(ledger)

\* A call runs a tool exactly when a branch has chosen to.
ModeInv ==
    \A c \in Calls : mode[c] # "none" <=> pc[c] \in Executing

\* The advisory lock: two transactions never work on the same intent.
OneTxnPerIntent ==
    \A c, d \in Calls :
        InTxn(c) /\ InTxn(d) /\ req[c] = req[d] => c = d

GateInv ==
    /\ TypeOK
    /\ LedgerFinite
    /\ ModeInv
    /\ OneTxnPerIntent
    /\ ClaimIsNeverLost
    /\ UsedIffExecutedOnce

-----------------------------------------------------------------------------
\* Updating one field of a row leaves the others alone and yields a row.
LEMMA RowStatus ==
  ASSUME NEW r \in Row, NEW s \in Statuses
  PROVE  /\ [r EXCEPT !.status = s] \in Row
         /\ [r EXCEPT !.status = s].status = s
BY DEF Row

LEMMA RowDecided ==
  ASSUME NEW r \in Row, NEW s \in Statuses
  PROVE  /\ [r EXCEPT !.status = s, !.by = "human"] \in Row
         /\ [r EXCEPT !.status = s, !.by = "human"].status = s
BY DEF Row

LEMMA RowAttempt ==
  ASSUME NEW r \in Row
  PROVE  /\ [r EXCEPT !.attempts = r.attempts + 1] \in Row
         /\ [r EXCEPT !.attempts = r.attempts + 1].status = r.status
BY DEF Row

LEMMA TypeInit == Init => TypeOK /\ LedgerFinite
<1> SUFFICES ASSUME Init PROVE TypeOK /\ LedgerFinite
  OBVIOUS
<1>1. LedgerFinite
  BY FS_EmptySet DEF Init, LedgerFinite
<1>2. TypeOK
  BY DEF Init, TypeOK, Row, NoRow, NoReview, NoGrant, Statuses,
         Recommendations, PCs, Guards, Codes
<1> QED BY <1>1, <1>2

\* What a transaction's end does to the variables of its call.
LEMMA ReturnType ==
  ASSUME TypeOK, NEW c \in Calls, NEW code \in Codes, Return(c, code)
  PROVE  /\ pc' \in [Calls -> PCs]
         /\ req' \in [Calls -> Intents]
         /\ thr' \in [Calls -> Nat]
         /\ mode' \in [Calls -> {"none", "claim", "auto"}]
         /\ advice' \in [Calls -> Recommendations]
         /\ dsb' \in [Calls -> Nat]
         /\ out' \in [Calls -> Codes]
         /\ grant' = grant
BY DEF TypeOK, Return, Goto, PCs, Guards, Recommendations

\* The same when the answer may be lost after the COMMIT.
LEMMA DeliverType ==
  ASSUME TypeOK, NEW c \in Calls, NEW code \in Codes, Deliver(c, code)
  PROVE  /\ pc' \in [Calls -> PCs]
         /\ req' \in [Calls -> Intents]
         /\ thr' \in [Calls -> Nat]
         /\ mode' \in [Calls -> {"none", "claim", "auto"}]
         /\ advice' \in [Calls -> Recommendations]
         /\ dsb' \in [Calls -> Nat]
         /\ out' \in [Calls -> Codes]
         /\ grant' = grant
<1>1. PICK a \in {code, "gated_error"} : Return(c, a)
  BY DEF Deliver
<1>2. a \in Codes
  BY DEF Codes
<1> QED BY <1>1, <1>2, ReturnType

LEMMA AnswerType ==
  ASSUME TypeOK, LedgerFinite, NEW c \in Calls, NEW code \in Codes,
         Answer(c, code)
  PROVE  TypeOK' /\ LedgerFinite'
<1>1. Return(c, code) /\ UNCHANGED dbVars
  BY DEF Answer
<1> QED BY <1>1, ReturnType DEF TypeOK, LedgerFinite, dbVars

LEMMA AdvanceType ==
  ASSUME TypeOK, LedgerFinite, NEW c \in Calls, NEW p \in PCs, Advance(c, p)
  PROVE  TypeOK' /\ LedgerFinite'
BY DEF TypeOK, LedgerFinite, Advance, Goto, dbVars

LEMMA CommitRunType ==
  ASSUME TypeOK, LedgerFinite, NEW c \in Calls, NEW r \in Row, CommitRun(c, r)
  PROVE  TypeOK' /\ LedgerFinite'
<1>1. Deliver(c, "executed") /\ UNCHANGED <<card, review>>
  BY DEF CommitRun
<1>2. row' \in [Intents -> Row] /\ runs' \in [Intents -> Nat]
  BY DEF CommitRun, TypeOK
<1>3. ledger' \subseteq [number : Nat, intent : Intents, target : Targets]
  <2>1. [number |-> dsb[c], intent |-> req[c], target |-> TargetOf[req[c]]]
           \in [number : Nat, intent : Intents, target : Targets]
    BY GateAssumption DEF TypeOK
  <2>2. ledger \subseteq [number : Nat, intent : Intents, target : Targets]
    BY DEF TypeOK
  <2> QED BY <2>1, <2>2 DEF CommitRun
<1>4. LedgerFinite'
  BY FS_AddElement DEF CommitRun, LedgerFinite
<1>5. "executed" \in Codes
  BY DEF Codes
<1> QED BY <1>1, <1>2, <1>3, <1>4, <1>5, DeliverType DEF TypeOK

\* Every step keeps the types.
LEMMA TypeStep ==
  TypeOK /\ LedgerFinite /\ [Next]_vars => TypeOK' /\ LedgerFinite'
<1> SUFFICES ASSUME TypeOK, LedgerFinite, [Next]_vars
             PROVE  TypeOK' /\ LedgerFinite'
  OBVIOUS
<1> USE DEF PCs, Guards, Branches, Executing, Codes
<1>1. ASSUME NEW c \in Calls, NEW i \in Intents, RefuseLinked(c, i)
      PROVE  TypeOK' /\ LedgerFinite'
  BY <1>1 DEF RefuseLinked, TypeOK, LedgerFinite, dbVars
<1>2. ASSUME NEW c \in Calls, NEW i \in Intents, Begin(c, i)
      PROVE  TypeOK' /\ LedgerFinite'
  BY <1>2, GateAssumption DEF Begin, Goto, TypeOK, LedgerFinite, dbVars
<1>3. ASSUME NEW c \in Calls, CallStep(c)
      PROVE  TypeOK' /\ LedgerFinite'
  <2>1. CASE CheckOwner(c)
    BY <2>1, AnswerType, AdvanceType DEF CheckOwner
  <2>2. CASE TakeLock(c)
    BY <2>2, AdvanceType DEF TakeLock
  <2>3. CASE Replay(c)
    BY <2>3, AnswerType, AdvanceType DEF Replay
  <2>4. CASE Claim(c)
    <3>1. CASE Advance(c, "pending")
      BY <3>1, AdvanceType
    <3>2. CASE /\ Goto(c, ToolEntry(req[c]))
               /\ mode' = [mode EXCEPT ![c] = "claim"]
               /\ UNCHANGED <<dbVars, req, thr, advice, dsb, out, grant>>
      BY <3>2 DEF Goto, ToolEntry, TypeOK, LedgerFinite, dbVars
    <3> QED BY <2>4, <3>1, <3>2 DEF Claim
  <2>5. CASE FindPending(c)
    BY <2>5, AnswerType, AdvanceType DEF FindPending
  <2>6. CASE FindTerminal(c)
    BY <2>6, AnswerType, AdvanceType DEF FindTerminal
  <2>7. CASE DecideAuto(c)
    BY <2>7 DEF DecideAuto, Goto, ToolEntry, TypeOK, LedgerFinite, dbVars
  <2>8. CASE DecideHuman(c)
    <3>1. PICK lane \in Lanes :
            advice' = [advice EXCEPT ![c] =
               Recommendation(ActionOf[req[c]], AmountOf[req[c]], lane, thr[c])]
      BY <2>8 DEF DecideHuman
    <3>2. Recommendation(ActionOf[req[c]], AmountOf[req[c]], lane, thr[c])
             \in Recommendations
      BY DEF Recommendation, Recommendations
    <3> QED BY <2>8, <3>1, <3>2
            DEF DecideHuman, Goto, TypeOK, LedgerFinite, dbVars
  <2>9. CASE RequestApproval(c)
    <3>1. CASE Answer(c, "gated_error")
      BY <3>1, AnswerType
    <3>2. CASE /\ row' = [row EXCEPT ![req[c]] = [NoRow EXCEPT
                            !.status = "pending", !.reco = advice[c]]]
               /\ card' = [card EXCEPT ![req[c]] = "pending"]
               /\ Deliver(c, "approval_required")
               /\ UNCHANGED <<review, runs, ledger>>
      <4>1. [NoRow EXCEPT !.status = "pending", !.reco = advice[c]] \in Row
        BY DEF NoRow, Row, Statuses, TypeOK
      <4>2. row' \in [Intents -> Row]
        BY <3>2, <4>1 DEF TypeOK
      <4> QED BY <3>2, <4>2, DeliverType DEF TypeOK, LedgerFinite, Codes
    <3> QED BY <2>9, <3>1, <3>2 DEF RequestApproval
  <2>10. CASE UpdateLoan(c)
    BY <2>10, AdvanceType DEF UpdateLoan
  <2>11. CASE GateCheck(c)
    BY <2>11, AnswerType, AdvanceType DEF GateCheck
  <2>12. CASE DupCheck(c)
    BY <2>12, AnswerType, AdvanceType DEF DupCheck
  <2>13. CASE Count(c)
    <3>1. Cardinality(ledger) + 1 \in Nat
      BY FS_CardinalityType DEF LedgerFinite
    <3> QED BY <2>13, <3>1 DEF Count, Goto, TypeOK, LedgerFinite, dbVars
  <2>14. CASE InsertDisbursement(c)
    BY <2>14, AnswerType, AdvanceType DEF InsertDisbursement
  <2>15. CASE FinalizeReceipt(c)
    <3>1. row[req[c]] \in Row /\ "used" \in Statuses
      BY DEF TypeOK, Statuses
    <3>2. [row[req[c]] EXCEPT !.status = "used"] \in Row
      BY <3>1, RowStatus
    <3> QED BY <2>15, <3>2, CommitRunType, AnswerType DEF FinalizeReceipt
  <2>16. CASE InsertAuto(c)
    <3>1. [NoRow EXCEPT !.status = "used", !.by = "auto-rule"] \in Row
      BY DEF NoRow, Row, Statuses, Recommendations
    <3> QED BY <2>16, <3>1, CommitRunType, AnswerType DEF InsertAuto
  <2> QED BY <1>3, <2>1, <2>2, <2>3, <2>4, <2>5, <2>6, <2>7, <2>8, <2>9,
             <2>10, <2>11, <2>12, <2>13, <2>14, <2>15, <2>16 DEF CallStep
<1>4. ASSUME NEW c \in Calls, Abort(c)
      PROVE  TypeOK' /\ LedgerFinite'
  BY <1>4, AnswerType DEF Abort
<1>5. ASSUME NEW i \in Intents, NEW d \in {"approved", "rejected"},
             AdminDecide(i, d)
      PROVE  TypeOK' /\ LedgerFinite'
  <2>1. row[i] \in Row /\ d \in Statuses
    BY DEF TypeOK, Statuses
  <2>2. row' = [row EXCEPT ![i] = [row[i] EXCEPT !.status = d, !.by = "human"]]
    BY <1>5 DEF AdminDecide, TypeOK
  <2>3. row' \in [Intents -> Row]
    BY <2>1, <2>2, RowDecided DEF TypeOK
  <2> QED BY <1>5, <2>3 DEF AdminDecide, TypeOK, LedgerFinite, callVars
<1>6. ASSUME NEW v \in Convs, NEW i \in Intents, PeekGrant(v, i)
      PROVE  TypeOK' /\ LedgerFinite'
  BY <1>6 DEF PeekGrant, TypeOK, LedgerFinite, Row, dbVars, callVars
<1>7. ASSUME NEW v \in Convs, ClaimAttempt(v)
      PROVE  TypeOK' /\ LedgerFinite'
  <2> DEFINE i == grant[v].intent
  <2>1. i \in Intents /\ row[i] \in Row
    BY <1>7 DEF ClaimAttempt, TypeOK
  <2>2. row' = [row EXCEPT ![i] =
                  [row[i] EXCEPT !.attempts = row[i].attempts + 1]]
    BY <1>7, <2>1 DEF ClaimAttempt, TypeOK
  <2>3. row' \in [Intents -> Row]
    BY <2>1, <2>2, RowAttempt DEF TypeOK
  <2> QED BY <1>7, <2>3 DEF ClaimAttempt, TypeOK, LedgerFinite, callVars
<1>8. ASSUME NEW v \in Convs, MarkExecFailed(v)
      PROVE  TypeOK' /\ LedgerFinite'
  <2> DEFINE i == grant[v].intent
  <2>1. i \in Intents /\ row[i] \in Row /\ "exec_failed" \in Statuses
    BY <1>8 DEF MarkExecFailed, TypeOK, Statuses
  <2>2. \/ row' = row
        \/ row' = [row EXCEPT ![i] = [row[i] EXCEPT !.status = "exec_failed"]]
    BY <1>8, <2>1 DEF MarkExecFailed, TypeOK
  <2>3. row' \in [Intents -> Row]
    BY <2>1, <2>2, RowStatus DEF TypeOK
  <2> QED BY <1>8, <2>3 DEF MarkExecFailed, TypeOK, LedgerFinite, callVars
<1>9. ASSUME NEW v \in Convs, DropGrant(v)
      PROVE  TypeOK' /\ LedgerFinite'
  BY <1>9 DEF DropGrant, TypeOK, LedgerFinite, dbVars, callVars
<1>10. CASE UNCHANGED vars
  BY <1>10 DEF vars, TypeOK, LedgerFinite
<1> QED BY <1>1, <1>2, <1>3, <1>4, <1>5, <1>6, <1>7, <1>8, <1>9, <1>10
        DEF Next, StoreStep
-----------------------------------------------------------------------------
\* The steps of a call touch the locks of that call only; what a statement
\* of the transaction c does to them has one of these four forms.
LEMMA LocksAdvance ==
  ASSUME TypeOK, ModeInv, OneTxnPerIntent, NEW c \in Calls, NEW p \in PCs,
         Advance(c, p),
         pc[c] \in Executing <=> p \in Executing,
         InTxn(c) \/ p \notin Branches \cup Executing
  PROVE  ModeInv' /\ OneTxnPerIntent'
BY DEF Advance, Goto, TypeOK, ModeInv, OneTxnPerIntent, InTxn

LEMMA LocksAnswer ==
  ASSUME TypeOK, ModeInv, OneTxnPerIntent, NEW c \in Calls, NEW code,
         Return(c, code)
  PROVE  ModeInv' /\ OneTxnPerIntent'
BY DEF Return, Goto, TypeOK, ModeInv, OneTxnPerIntent, InTxn, Branches,
       Executing

LEMMA LocksStart ==
  ASSUME TypeOK, ModeInv, OneTxnPerIntent, NEW c \in Calls, TakeLock(c)
  PROVE  ModeInv' /\ OneTxnPerIntent'
BY DEF TakeLock, Advance, Goto, TypeOK, ModeInv, OneTxnPerIntent, InTxn,
       HoldsIntent, Branches, Executing

\* A branch that has found its tool enters it.
LEMMA LocksEnter ==
  ASSUME TypeOK, ModeInv, OneTxnPerIntent, NEW c \in Calls,
         NEW m \in {"claim", "auto"}, InTxn(c),
         Goto(c, ToolEntry(req[c])), mode' = [mode EXCEPT ![c] = m],
         req' = req
  PROVE  ModeInv' /\ OneTxnPerIntent'
BY DEF Goto, ToolEntry, TypeOK, ModeInv, OneTxnPerIntent, InTxn, Branches,
       Executing

LEMMA LocksStep ==
  ASSUME TypeOK, ModeInv, OneTxnPerIntent, [Next]_vars
  PROVE  ModeInv' /\ OneTxnPerIntent'
<1> USE DEF PCs, Guards, Branches, Executing
<1>1. ASSUME NEW c \in Calls, NEW i \in Intents, RefuseLinked(c, i)
      PROVE  ModeInv' /\ OneTxnPerIntent'
  BY <1>1 DEF RefuseLinked, TypeOK, ModeInv, OneTxnPerIntent, InTxn
<1>2. ASSUME NEW c \in Calls, NEW i \in Intents, Begin(c, i)
      PROVE  ModeInv' /\ OneTxnPerIntent'
  <2>1. PICK p \in {"owner", "lock"} : pc' = [pc EXCEPT ![c] = p]
    BY <1>2 DEF Begin, Goto
  <2>2. pc[c] = "idle" /\ req' = [req EXCEPT ![c] = i] /\ mode' = mode
    BY <1>2 DEF Begin
  <2>3. \A d \in Calls : /\ InTxn(d)' => InTxn(d) /\ d # c
                         /\ d # c => req'[d] = req[d]
    BY <2>1, <2>2 DEF TypeOK, InTxn
  <2>4. OneTxnPerIntent'
    BY <2>3 DEF OneTxnPerIntent
  <2>5. ModeInv'
    BY <2>1, <2>2 DEF TypeOK, ModeInv
  <2> QED BY <2>4, <2>5
<1>3. ASSUME NEW c \in Calls, CallStep(c)
      PROVE  ModeInv' /\ OneTxnPerIntent'
  <2>1. CASE CheckOwner(c)
    BY <2>1, LocksAnswer, LocksAdvance DEF CheckOwner, Answer
  <2>2. CASE TakeLock(c)
    BY <2>2, LocksStart
  <2>3. CASE Replay(c)
    BY <2>3, LocksAnswer, LocksAdvance DEF Replay, Answer, InTxn
  <2>4. CASE Claim(c)
    BY <2>4, LocksEnter, LocksAdvance DEF Claim, InTxn
  <2>5. CASE FindPending(c)
    BY <2>5, LocksAnswer, LocksAdvance DEF FindPending, Answer, InTxn
  <2>6. CASE FindTerminal(c)
    BY <2>6, LocksAnswer, LocksAdvance DEF FindTerminal, Answer, InTxn
  <2>7. CASE DecideAuto(c)
    BY <2>7, LocksEnter DEF DecideAuto, InTxn
  <2>8. CASE DecideHuman(c)
    <3>1. /\ pc[c] = "decide" /\ pc' = [pc EXCEPT ![c] = "human"]
          /\ UNCHANGED <<req, mode>>
      BY <2>8 DEF DecideHuman, Goto
    <3> QED BY <3>1 DEF TypeOK, ModeInv, OneTxnPerIntent, InTxn
  <2>9. CASE RequestApproval(c)
    BY <2>9, LocksAnswer DEF RequestApproval, Answer, Deliver
  <2>10. CASE UpdateLoan(c)
    BY <2>10, LocksAdvance DEF UpdateLoan, InTxn
  <2>11. CASE GateCheck(c)
    BY <2>11, LocksAnswer, LocksAdvance DEF GateCheck, Answer, InTxn
  <2>12. CASE DupCheck(c)
    BY <2>12, LocksAnswer, LocksAdvance DEF DupCheck, Answer, InTxn
  <2>13. CASE Count(c)
    BY <2>13 DEF Count, Goto, TypeOK, ModeInv, OneTxnPerIntent, InTxn
  <2>14. CASE InsertDisbursement(c)
    BY <2>14, LocksAnswer, LocksAdvance DEF InsertDisbursement, Answer, InTxn
  <2>15. CASE FinalizeReceipt(c)
    BY <2>15, LocksAnswer DEF FinalizeReceipt, Answer, Deliver, CommitRun
  <2>16. CASE InsertAuto(c)
    BY <2>16, LocksAnswer DEF InsertAuto, Answer, Deliver, CommitRun
  <2> QED BY <1>3, <2>1, <2>2, <2>3, <2>4, <2>5, <2>6, <2>7, <2>8, <2>9,
             <2>10, <2>11, <2>12, <2>13, <2>14, <2>15, <2>16 DEF CallStep
<1>4. ASSUME NEW c \in Calls, Abort(c)
      PROVE  ModeInv' /\ OneTxnPerIntent'
  BY <1>4, LocksAnswer DEF Abort, Answer
<1>5. CASE StoreStep
  <2>1. UNCHANGED callVars
    BY <1>5 DEF StoreStep, AdminDecide, PeekGrant, ClaimAttempt,
                MarkExecFailed, DropGrant
  <2> QED BY <2>1 DEF callVars, ModeInv, OneTxnPerIntent, InTxn
<1>6. CASE UNCHANGED vars
  BY <1>6 DEF vars, ModeInv, OneTxnPerIntent, InTxn
<1> QED BY <1>1, <1>2, <1>3, <1>4, <1>5, <1>6 DEF Next
-----------------------------------------------------------------------------
\* A step that leaves the database alone and claims no row keeps both money
\* invariants.
LEMMA MoneyFrame ==
  ASSUME TypeOK, ModeInv, ClaimIsNeverLost, UsedIffExecutedOnce,
         UNCHANGED <<row, runs>>,
         \A d \in Calls : mode'[d] = "claim" =>
             mode[d] = "claim" /\ req'[d] = req[d]
  PROVE  ClaimIsNeverLost' /\ UsedIffExecutedOnce'
<1>1. UsedIffExecutedOnce'
  BY DEF UsedIffExecutedOnce
<1>2. \A d \in Calls : mode[d] = "claim" => InTxn(d)
  BY DEF ModeInv, InTxn
<1>3. ClaimIsNeverLost'
  BY <1>2 DEF ClaimIsNeverLost
<1> QED BY <1>1, <1>3

LEMMA MoneyAdvance ==
  ASSUME TypeOK, ModeInv, ClaimIsNeverLost, UsedIffExecutedOnce,
         NEW c \in Calls, NEW p, Advance(c, p)
  PROVE  ClaimIsNeverLost' /\ UsedIffExecutedOnce'
BY MoneyFrame DEF Advance, dbVars

LEMMA MoneyAnswer ==
  ASSUME TypeOK, ModeInv, ClaimIsNeverLost, UsedIffExecutedOnce,
         NEW c \in Calls, NEW code, Answer(c, code)
  PROVE  ClaimIsNeverLost' /\ UsedIffExecutedOnce'
<1>1. UNCHANGED <<row, runs>>
  BY DEF Answer, dbVars
<1>2. \A d \in Calls : mode'[d] = "claim" =>
             mode[d] = "claim" /\ req'[d] = req[d]
  BY DEF Answer, Return, TypeOK
<1> QED BY <1>1, <1>2, MoneyFrame

\* Writing the row of an intent no other transaction has claimed, and no
\* transaction goes on holding, keeps the claims of the others.
LEMMA MoneyWrite ==
  ASSUME TypeOK, ModeInv, OneTxnPerIntent, ClaimIsNeverLost,
         NEW c \in Calls, NEW code, Return(c, code), InTxn(c),
         NEW r, row' = [row EXCEPT ![req[c]] = r]
  PROVE  ClaimIsNeverLost'
<1>1. SUFFICES ASSUME NEW d \in Calls, InTxn(d)', mode'[d] = "claim"
               PROVE  row'[req'[d]].status = "approved"
  BY DEF ClaimIsNeverLost
<1>2. d # c /\ req'[d] = req[d] /\ mode[d] = "claim" /\ InTxn(d)
  BY <1>1 DEF Return, Goto, TypeOK, InTxn
<1>3. req[d] # req[c]
  BY <1>2 DEF OneTxnPerIntent
<1>4. row'[req[d]] = row[req[d]]
  BY <1>3 DEF TypeOK
<1> QED BY <1>2, <1>4 DEF ClaimIsNeverLost

LEMMA MoneyCommit ==
  ASSUME TypeOK, ModeInv, OneTxnPerIntent, ClaimIsNeverLost,
         UsedIffExecutedOnce, NEW c \in Calls, InTxn(c),
         NEW r \in Row, r.status = "used", CommitRun(c, r),
         row[req[c]].status \in {"none", "approved"}
  PROVE  ClaimIsNeverLost' /\ UsedIffExecutedOnce'
<1>1. /\ \E a \in {"executed", "gated_error"} : Return(c, a)
      /\ row' = [row EXCEPT ![req[c]] = r]
      /\ runs' = [runs EXCEPT ![req[c]] = runs[req[c]] + 1]
  BY DEF CommitRun, Deliver, TypeOK
<1>2. ClaimIsNeverLost'
  BY <1>1, MoneyWrite
<1>3. UsedIffExecutedOnce'
  BY <1>1 DEF UsedIffExecutedOnce, TypeOK
<1> QED BY <1>2, <1>3

\* The store writes one row: an unclaimed one, or one that stays approved.
LEMMA MoneyStore ==
  ASSUME TypeOK, ModeInv, ClaimIsNeverLost, UsedIffExecutedOnce,
         NEW i \in Intents, NEW r \in Row, row' = [row EXCEPT ![i] = r],
         UNCHANGED <<runs, callVars>>,
         RowFree(i) \/ r.status = "approved",
         row[i].status # "used", r.status # "used"
  PROVE  ClaimIsNeverLost' /\ UsedIffExecutedOnce'
<1>1. UsedIffExecutedOnce'
  BY DEF UsedIffExecutedOnce, TypeOK
<1>2. ClaimIsNeverLost'
  BY DEF ClaimIsNeverLost, TypeOK, callVars, InTxn, RowFree, HoldsRow,
         HoldsIntent
<1> QED BY <1>1, <1>2

\* A step that changes no status leaves both invariants to the calls.
LEMMA MoneySameStatus ==
  ASSUME TypeOK, ClaimIsNeverLost, UsedIffExecutedOnce,
         \A j \in Intents : row'[j].status = row[j].status,
         UNCHANGED <<runs, callVars>>
  PROVE  ClaimIsNeverLost' /\ UsedIffExecutedOnce'
BY DEF ClaimIsNeverLost, UsedIffExecutedOnce, TypeOK, callVars, InTxn

\* The three ways the store writes a row.
LEMMA DecideWrite ==
  ASSUME TypeOK, NEW i \in Intents, NEW d \in {"approved", "rejected"},
         AdminDecide(i, d)
  PROVE  \E r \in Row : /\ row' = [row EXCEPT ![i] = r]
                        /\ r.status = d
                        /\ row[i].status = "pending"
<1>1. row[i] \in Row /\ d \in Statuses
  BY DEF TypeOK, Statuses
<1> DEFINE r == [row[i] EXCEPT !.status = d, !.by = "human"]
<1>2. row' = [row EXCEPT ![i] = r]
  BY DEF AdminDecide, TypeOK
<1>3. r \in Row /\ r.status = d
  BY <1>1, RowDecided
<1> QED BY <1>2, <1>3 DEF AdminDecide

LEMMA AttemptWrite ==
  ASSUME TypeOK, NEW v \in Convs, ClaimAttempt(v)
  PROVE  \A j \in Intents : row'[j].status = row[j].status
<1> DEFINE i == grant[v].intent
<1>1. i \in Intents /\ row[i] \in Row
  BY DEF ClaimAttempt, TypeOK
<1>2. row' = [row EXCEPT ![i] =
                [row[i] EXCEPT !.attempts = row[i].attempts + 1]]
  BY <1>1 DEF ClaimAttempt, TypeOK
<1> QED BY <1>1, <1>2, RowAttempt DEF TypeOK

LEMMA FailWrite ==
  ASSUME TypeOK, NEW v \in Convs, MarkExecFailed(v)
  PROVE  \/ row' = row
         \/ \E i \in Intents, r \in Row :
               /\ row' = [row EXCEPT ![i] = r]
               /\ r.status = "exec_failed"
               /\ row[i].status = "approved"
               /\ RowFree(i)
<1> DEFINE i == grant[v].intent
           r == [row[i] EXCEPT !.status = "exec_failed"]
<1>1. i \in Intents /\ row[i] \in Row /\ "exec_failed" \in Statuses
  BY DEF MarkExecFailed, TypeOK, Statuses
<1>2. r \in Row /\ r.status = "exec_failed"
  BY <1>1, RowStatus
<1>3. row' = row \/ (row' = [row EXCEPT ![i] = r] /\ row[i].status = "approved")
  BY <1>1 DEF MarkExecFailed, TypeOK
<1> QED BY <1>1, <1>2, <1>3 DEF MarkExecFailed

LEMMA MoneyStoreStep ==
  ASSUME TypeOK, ModeInv, ClaimIsNeverLost, UsedIffExecutedOnce, StoreStep
  PROVE  ClaimIsNeverLost' /\ UsedIffExecutedOnce'
<1>1. UNCHANGED <<runs, callVars>>
  BY DEF StoreStep, AdminDecide, PeekGrant, ClaimAttempt, MarkExecFailed,
         DropGrant, dbVars
<1>2. ASSUME NEW i \in Intents, NEW d \in {"approved", "rejected"},
             AdminDecide(i, d)
      PROVE  ClaimIsNeverLost' /\ UsedIffExecutedOnce'
  <2>1. PICK r \in Row : /\ row' = [row EXCEPT ![i] = r]
                         /\ r.status = d
                         /\ row[i].status = "pending"
    BY <1>2, DecideWrite
  <2>2. RowFree(i)
    BY <2>1 DEF RowFree, HoldsRow, HoldsIntent, ClaimIsNeverLost
  <2>3. row[i].status # "used" /\ r.status # "used"
    BY <2>1
  <2> QED BY <1>1, <2>1, <2>2, <2>3, MoneyStore
<1>3. ASSUME NEW v \in Convs, NEW i \in Intents, PeekGrant(v, i)
      PROVE  ClaimIsNeverLost' /\ UsedIffExecutedOnce'
  BY <1>1, <1>3, MoneySameStatus DEF PeekGrant, dbVars
<1>4. ASSUME NEW v \in Convs, ClaimAttempt(v)
      PROVE  ClaimIsNeverLost' /\ UsedIffExecutedOnce'
  BY <1>1, <1>4, AttemptWrite, MoneySameStatus
<1>5. ASSUME NEW v \in Convs, MarkExecFailed(v)
      PROVE  ClaimIsNeverLost' /\ UsedIffExecutedOnce'
  <2>1. CASE row' = row
    BY <1>1, <2>1, MoneySameStatus
  <2>2. CASE row' # row
    <3>1. PICK i \in Intents, r \in Row :
               /\ row' = [row EXCEPT ![i] = r]
               /\ r.status = "exec_failed"
               /\ row[i].status = "approved"
               /\ RowFree(i)
      BY <1>5, <2>2, FailWrite
    <3>2. row[i].status # "used" /\ r.status # "used"
      BY <3>1
    <3> QED BY <1>1, <3>1, <3>2, MoneyStore
  <2> QED BY <2>1, <2>2
<1>6. ASSUME NEW v \in Convs, DropGrant(v)
      PROVE  ClaimIsNeverLost' /\ UsedIffExecutedOnce'
  BY <1>1, <1>6, MoneySameStatus DEF DropGrant, dbVars
<1> QED BY <1>2, <1>3, <1>4, <1>5, <1>6 DEF StoreStep

LEMMA MoneyStep ==
  ASSUME GateInv, [Next]_vars
  PROVE  ClaimIsNeverLost' /\ UsedIffExecutedOnce'
<1> USE DEF GateInv
<1>1. ASSUME NEW c \in Calls, NEW i \in Intents, RefuseLinked(c, i)
      PROVE  ClaimIsNeverLost' /\ UsedIffExecutedOnce'
  <2>1. \A d \in Calls : mode[d] = "claim" => d # c
    BY <1>1 DEF RefuseLinked, ModeInv, Executing
  <2> QED BY <1>1, <2>1, MoneyFrame DEF RefuseLinked, TypeOK, dbVars
<1>2. ASSUME NEW c \in Calls, NEW i \in Intents, Begin(c, i)
      PROVE  ClaimIsNeverLost' /\ UsedIffExecutedOnce'
  <2>1. \A d \in Calls : mode[d] = "claim" => d # c
    BY <1>2 DEF Begin, ModeInv, Executing
  <2> QED BY <1>2, <2>1, MoneyFrame DEF Begin, TypeOK, dbVars
<1>3. ASSUME NEW c \in Calls, CallStep(c)
      PROVE  ClaimIsNeverLost' /\ UsedIffExecutedOnce'
  <2>1. CASE CheckOwner(c)
    BY <2>1, MoneyAnswer, MoneyAdvance DEF CheckOwner
  <2>2. CASE TakeLock(c)
    BY <2>2, MoneyAdvance DEF TakeLock
  <2>3. CASE Replay(c)
    BY <2>3, MoneyAnswer, MoneyAdvance DEF Replay
  <2>4. CASE Claim(c)
    <3>1. CASE Advance(c, "pending")
      BY <3>1, MoneyAdvance
    <3>2. CASE /\ row[req[c]].status = "approved"
               /\ mode' = [mode EXCEPT ![c] = "claim"]
               /\ Goto(c, ToolEntry(req[c]))
               /\ UNCHANGED <<dbVars, req, thr, advice, dsb, out, grant>>
      <4>1. UsedIffExecutedOnce'
        BY <3>2 DEF UsedIffExecutedOnce, dbVars
      <4>2. ClaimIsNeverLost'
        BY <3>2 DEF ClaimIsNeverLost, Goto, TypeOK, dbVars, InTxn
      <4> QED BY <4>1, <4>2
    <3> QED BY <2>4, <3>1, <3>2 DEF Claim
  <2>5. CASE FindPending(c)
    BY <2>5, MoneyAnswer, MoneyAdvance DEF FindPending
  <2>6. CASE FindTerminal(c)
    BY <2>6, MoneyAnswer, MoneyAdvance DEF FindTerminal
  <2>7. CASE DecideAuto(c)
    BY <2>7, MoneyFrame DEF DecideAuto, TypeOK, dbVars
  <2>8. CASE DecideHuman(c)
    <3>1. UNCHANGED <<row, runs, mode, req>>
      BY <2>8 DEF DecideHuman, dbVars
    <3> QED BY <3>1, MoneyFrame
  <2>9. CASE RequestApproval(c)
    <3>1. CASE Answer(c, "gated_error")
      BY <3>1, MoneyAnswer
    <3>2. CASE /\ row[req[c]].status = "none"
               /\ row' = [row EXCEPT ![req[c]] =
                     [NoRow EXCEPT !.status = "pending", !.reco = advice[c]]]
               /\ Deliver(c, "approval_required")
               /\ UNCHANGED <<review, runs, ledger>>
      <4>1. InTxn(c)
        BY <2>9 DEF RequestApproval, InTxn, Branches
      <4>2. ClaimIsNeverLost'
        BY <3>2, <4>1, MoneyWrite DEF Deliver
      <4>3. UsedIffExecutedOnce'
        BY <3>2 DEF UsedIffExecutedOnce, TypeOK, NoRow
      <4> QED BY <4>2, <4>3
    <3> QED BY <2>9, <3>1, <3>2 DEF RequestApproval
  <2>10. CASE UpdateLoan(c)
    BY <2>10, MoneyAdvance DEF UpdateLoan
  <2>11. CASE GateCheck(c)
    BY <2>11, MoneyAnswer, MoneyAdvance DEF GateCheck
  <2>12. CASE DupCheck(c)
    BY <2>12, MoneyAnswer, MoneyAdvance DEF DupCheck
  <2>13. CASE Count(c)
    BY <2>13, MoneyFrame DEF Count, dbVars
  <2>14. CASE InsertDisbursement(c)
    BY <2>14, MoneyAnswer, MoneyAdvance DEF InsertDisbursement
  <2>15. CASE FinalizeReceipt(c)
    <3>1. InTxn(c) /\ row[req[c]] \in Row /\ "used" \in Statuses
      BY <2>15 DEF FinalizeReceipt, InTxn, Executing, TypeOK, Statuses
    <3> DEFINE r == [row[req[c]] EXCEPT !.status = "used"]
    <3>2. r \in Row /\ r.status = "used"
      BY <3>1, RowStatus
    <3>3. CASE row[req[c]].status = "approved"
      <4>1. CommitRun(c, r)
        BY <2>15, <3>3 DEF FinalizeReceipt
      <4> HIDE DEF r
      <4> QED BY <3>1, <3>2, <3>3, <4>1, MoneyCommit
    <3>4. CASE row[req[c]].status # "approved"
      BY <2>15, <3>4, MoneyAnswer DEF FinalizeReceipt
    <3> QED BY <3>3, <3>4
  <2>16. CASE InsertAuto(c)
    <3>1. InTxn(c)
      BY <2>16 DEF InsertAuto, InTxn, Executing
    <3> DEFINE r == [NoRow EXCEPT !.status = "used", !.by = "auto-rule"]
    <3>2. r \in Row /\ r.status = "used"
      BY DEF NoRow, Row, Statuses, Recommendations
    <3>3. CASE CommitRun(c, r) /\ row[req[c]].status = "none"
      <4> HIDE DEF r
      <4> QED BY <3>1, <3>2, <3>3, MoneyCommit
    <3>4. CASE Answer(c, "gated_error")
      BY <3>4, MoneyAnswer
    <3> QED BY <2>16, <3>3, <3>4 DEF InsertAuto
  <2> QED BY <1>3, <2>1, <2>2, <2>3, <2>4, <2>5, <2>6, <2>7, <2>8, <2>9,
             <2>10, <2>11, <2>12, <2>13, <2>14, <2>15, <2>16 DEF CallStep
<1>4. ASSUME NEW c \in Calls, Abort(c)
      PROVE  ClaimIsNeverLost' /\ UsedIffExecutedOnce'
  BY <1>4, MoneyAnswer DEF Abort
<1>5. CASE StoreStep
  BY <1>5, MoneyStoreStep
<1>6. CASE UNCHANGED vars
  BY <1>6 DEF vars, ClaimIsNeverLost, UsedIffExecutedOnce, InTxn
<1> QED BY <1>1, <1>2, <1>3, <1>4, <1>5, <1>6 DEF Next
-----------------------------------------------------------------------------
\* The inductive invariant.
LEMMA GateInvariant == Spec => []GateInv
<1>1. Init => GateInv
  <2> SUFFICES ASSUME Init PROVE GateInv
    OBVIOUS
  <2>1. ModeInv /\ OneTxnPerIntent /\ ClaimIsNeverLost
    BY DEF Init, ModeInv, OneTxnPerIntent, ClaimIsNeverLost, InTxn,
           Branches, Executing
  <2>2. UsedIffExecutedOnce
    BY DEF Init, UsedIffExecutedOnce, NoRow
  <2> QED BY <2>1, <2>2, TypeInit DEF GateInv
<1>2. GateInv /\ [Next]_vars => GateInv'
  BY TypeStep, LocksStep, MoneyStep DEF GateInv
<1> QED BY <1>1, <1>2, PTL DEF Spec

\* Types are kept.
THEOREM TypeCorrect == Spec => []TypeOK
BY GateInvariant, PTL DEF GateInv

\* Money moves once for an intent, and the row says `used` exactly then.
THEOREM MoneyMovesOnce == Spec => []UsedIffExecutedOnce
BY GateInvariant, PTL DEF GateInv

\* A claimed approval stays approved until its transaction ends.
THEOREM ClaimsHold == Spec => []ClaimIsNeverLost
BY GateInvariant, PTL DEF GateInv
-----------------------------------------------------------------------------
(* Every step is one move of one row, or none at all.                      *)

SameStatuses == \A j \in Intents : row'[j].status = row[j].status

Shift(i, from, to) ==
    /\ row[i].status = from
    /\ row'[i].status = to
    /\ \A j \in Intents \ {i} : row'[j].status = row[j].status

QuietMove(i) ==
    \/ Shift(i, "none", "pending")
    \/ Shift(i, "pending", "approved")
    \/ Shift(i, "pending", "rejected")
    \/ Shift(i, "approved", "exec_failed")

PaidMove(i) ==
    /\ runs' = [runs EXCEPT ![i] = runs[i] + 1]
    /\ Shift(i, "none", "used") \/ Shift(i, "approved", "used")

OneMove ==
    \/ SameStatuses /\ runs' = runs
    \/ \E i \in Intents : QuietMove(i) /\ runs' = runs
    \/ \E i \in Intents : PaidMove(i)

LEMMA CommitMove ==
  ASSUME TypeOK, NEW c \in Calls, NEW r \in Row, r.status = "used",
         CommitRun(c, r), row[req[c]].status \in {"none", "approved"}
  PROVE  OneMove
<1>1. /\ row' = [row EXCEPT ![req[c]] = r]
      /\ runs' = [runs EXCEPT ![req[c]] = runs[req[c]] + 1]
  BY DEF CommitRun, TypeOK
<1>2. PaidMove(req[c])
  BY <1>1 DEF PaidMove, Shift, TypeOK
<1> QED BY <1>2 DEF OneMove, TypeOK

LEMMA CallTransitions ==
  ASSUME TypeOK, NEW c \in Calls, CallStep(c)
  PROVE  OneMove
<1>1. row' = row /\ runs' = runs => OneMove
  BY DEF SameStatuses, OneMove
<1>2. CASE RequestApproval(c)
  <2>1. CASE Answer(c, "gated_error")
    BY <1>1, <2>1 DEF Answer, dbVars
  <2>2. CASE /\ row[req[c]].status = "none"
             /\ row' = [row EXCEPT ![req[c]] =
                   [NoRow EXCEPT !.status = "pending", !.reco = advice[c]]]
             /\ runs' = runs
    <3>1. Shift(req[c], "none", "pending")
      BY <2>2 DEF Shift, TypeOK, NoRow
    <3> QED BY <2>2, <3>1 DEF QuietMove, TypeOK, OneMove
  <2> QED BY <1>2, <2>1, <2>2 DEF RequestApproval
<1>4. CASE FinalizeReceipt(c)
  <2>1. row[req[c]] \in Row /\ "used" \in Statuses
    BY DEF TypeOK, Statuses
  <2> DEFINE r == [row[req[c]] EXCEPT !.status = "used"]
  <2>2. r \in Row /\ r.status = "used"
    BY <2>1, RowStatus
  <2>3. CASE row[req[c]].status = "approved"
    <3>1. CommitRun(c, r)
      BY <1>4, <2>3 DEF FinalizeReceipt
    <3> HIDE DEF r
    <3> QED BY <2>2, <2>3, <3>1, CommitMove
  <2>4. CASE row[req[c]].status # "approved"
    BY <1>1, <1>4, <2>4 DEF FinalizeReceipt, Answer, dbVars
  <2> QED BY <2>3, <2>4
<1>5. CASE InsertAuto(c)
  <2> DEFINE r == [NoRow EXCEPT !.status = "used", !.by = "auto-rule"]
  <2>1. r \in Row /\ r.status = "used"
    BY DEF NoRow, Row, Statuses, Recommendations
  <2>2. CASE CommitRun(c, r) /\ row[req[c]].status = "none"
    <3> HIDE DEF r
    <3> QED BY <2>1, <2>2, CommitMove
  <2>3. CASE Answer(c, "gated_error")
    BY <1>1, <2>3 DEF Answer, dbVars
  <2> QED BY <1>5, <2>2, <2>3 DEF InsertAuto
<1>6. CASE ~RequestApproval(c) /\ ~FinalizeReceipt(c) /\ ~InsertAuto(c)
  <2>1. row' = row /\ runs' = runs
    BY <1>6 DEF CallStep, CheckOwner, TakeLock, Replay, Claim, FindPending,
       FindTerminal, DecideAuto, DecideHuman, UpdateLoan, GateCheck,
       DupCheck, Count, InsertDisbursement, Answer, Advance, dbVars
  <2> QED BY <1>1, <2>1
<1> QED BY <1>2, <1>4, <1>5, <1>6

LEMMA Transitions ==
  ASSUME TypeOK, [Next]_vars
  PROVE  OneMove
<1>1. row' = row /\ runs' = runs => OneMove
  BY DEF SameStatuses, OneMove
<1>2. ASSUME NEW c \in Calls, NEW i \in Intents,
             RefuseLinked(c, i) \/ Begin(c, i)
      PROVE  OneMove
  BY <1>1, <1>2 DEF RefuseLinked, Begin, dbVars
<1>3. ASSUME NEW c \in Calls, CallStep(c) \/ Abort(c)
      PROVE  OneMove
  BY <1>1, <1>3, CallTransitions DEF Abort, Answer, dbVars
<1>4. ASSUME NEW i \in Intents, NEW d \in {"approved", "rejected"},
             AdminDecide(i, d)
      PROVE  OneMove
  <2>1. PICK r \in Row : /\ row' = [row EXCEPT ![i] = r]
                         /\ r.status = d
                         /\ row[i].status = "pending"
    BY <1>4, DecideWrite
  <2>2. runs' = runs
    BY <1>4 DEF AdminDecide
  <2> QED BY <2>1, <2>2 DEF QuietMove, Shift, TypeOK, OneMove
<1>5. ASSUME NEW v \in Convs, ClaimAttempt(v)
      PROVE  OneMove
  BY <1>5, AttemptWrite DEF SameStatuses, ClaimAttempt, OneMove
<1>6. ASSUME NEW v \in Convs, MarkExecFailed(v)
      PROVE  OneMove
  <2>1. runs' = runs
    BY <1>6 DEF MarkExecFailed
  <2>2. CASE row' = row
    BY <1>1, <2>1, <2>2
  <2>3. CASE row' # row
    <3>1. PICK i \in Intents, r \in Row :
               /\ row' = [row EXCEPT ![i] = r]
               /\ r.status = "exec_failed"
               /\ row[i].status = "approved"
               /\ RowFree(i)
      BY <1>6, <2>3, FailWrite
    <3>2. Shift(i, "approved", "exec_failed")
      BY <3>1 DEF Shift, TypeOK
    <3> QED BY <2>1, <3>2 DEF QuietMove, OneMove
  <2> QED BY <2>2, <2>3
<1>7. ASSUME NEW v \in Convs, NEW i \in Intents, PeekGrant(v, i)
      PROVE  OneMove
  BY <1>1, <1>7 DEF PeekGrant, dbVars
<1>8. ASSUME NEW v \in Convs, DropGrant(v)
      PROVE  OneMove
  BY <1>1, <1>8 DEF DropGrant, dbVars
<1>9. CASE UNCHANGED vars
  BY <1>1, <1>9 DEF vars
<1> QED BY <1>2, <1>3, <1>4, <1>5, <1>6, <1>7, <1>8, <1>9 DEF Next, StoreStep
-----------------------------------------------------------------------------
\* A rejected, used or failed approval is never decided again.
THEOREM TerminalStays == Spec => TerminalIsFinal
<1>1. TypeOK /\ [Next]_vars =>
        [\A i \in Intents :
            row[i].status \in {"rejected", "used", "exec_failed"}
            => row'[i].status = row[i].status]_vars
  BY Transitions DEF OneMove, SameStatuses, QuietMove, PaidMove, Shift
<1> QED BY <1>1, TypeCorrect, PTL DEF Spec, TerminalIsFinal

\* Money leaves only for an approved intent or one that has no row.
THEOREM PaidOnlyIfOpen == Spec => OnlyFromApprovedOrNone
<1>1. TypeOK /\ [Next]_vars =>
        [\A i \in Intents :
            runs'[i] # runs[i] => row[i].status \in {"approved", "none"}]_vars
  BY Transitions DEF OneMove, PaidMove, Shift, TypeOK
<1> QED BY <1>1, TypeCorrect, PTL DEF Spec, OnlyFromApprovedOrNone

\* The gate implements the abstract single-use ledger.
THEOREM Refinement == Spec => KeepsPromise
<1>1. Init => Promise!SUInit
  BY DEF Init, Promise!SUInit, StageOf, NoRow
<1>2. ASSUME TypeOK, [Next]_vars
      PROVE  [Promise!SUNext]_(Promise!suVars)
  <2> DEFINE st == [i \in Intents |-> StageOf(row[i].status)]
  <2>1. CASE SameStatuses /\ runs' = runs
    BY <2>1 DEF SameStatuses, Promise!suVars
  <2>2. ASSUME NEW i \in Intents, QuietMove(i), runs' = runs
        PROVE  Promise!SUNext
    <3>1. ASSUME NEW from, NEW to, Shift(i, from, to)
          PROVE  Promise!Move(i, StageOf(from), StageOf(to))
      BY <3>1 DEF Shift, Promise!Move
    <3>2. \/ Promise!Move(i, "absent", "requested")
          \/ Promise!Move(i, "requested", "granted")
          \/ Promise!Move(i, "requested", "refused")
          \/ Promise!Move(i, "granted", "failed")
      <4>1. /\ StageOf("none") = "absent"
            /\ StageOf("pending") = "requested"
            /\ StageOf("approved") = "granted"
            /\ StageOf("rejected") = "refused"
            /\ StageOf("exec_failed") = "failed"
        BY DEF StageOf
      <4>2. CASE Shift(i, "none", "pending")
        BY <3>1, <4>1, <4>2
      <4>3. CASE Shift(i, "pending", "approved")
        BY <3>1, <4>1, <4>3
      <4>4. CASE Shift(i, "pending", "rejected")
        BY <3>1, <4>1, <4>4
      <4>5. CASE Shift(i, "approved", "exec_failed")
        BY <3>1, <4>1, <4>5
      <4> QED BY <2>2, <4>2, <4>3, <4>4, <4>5 DEF QuietMove
    <3> QED BY <2>2, <3>2 DEF Promise!SUNext, Promise!Request,
               Promise!Grant, Promise!Refuse, Promise!Fail
  <2>3. ASSUME NEW i \in Intents, PaidMove(i)
        PROVE  Promise!SUNext
    <3>1. ASSUME NEW from, NEW to, Shift(i, from, to)
          PROVE  Promise!Move(i, StageOf(from), StageOf(to))
      BY <3>1 DEF Shift, Promise!Move
    <3>2. /\ StageOf("none") = "absent"
          /\ StageOf("approved") = "granted"
          /\ StageOf("used") = "consumed"
      BY DEF StageOf
    <3>3. CASE Shift(i, "none", "used")
      BY <2>3, <3>1, <3>2, <3>3
         DEF PaidMove, Promise!SUNext, Promise!Consume
    <3>4. CASE Shift(i, "approved", "used")
      BY <2>3, <3>1, <3>2, <3>4
         DEF PaidMove, Promise!SUNext, Promise!Consume
    <3> QED BY <2>3, <3>3, <3>4 DEF PaidMove
  <2> QED BY <1>2, <2>1, <2>2, <2>3, Transitions DEF OneMove
<1> QED BY <1>1, <1>2, TypeCorrect, PTL DEF Spec, KeepsPromise, Promise!SUSpec
-----------------------------------------------------------------------------
(* Intents that the gate refuses before it opens a transaction.            *)

Barred == Linked \cup Foreign

\* A call for a loan of another customer gets no further than the owner
\* check, one in an intake conversation not even there, and no resume guard
\* ever holds a grant for either.
BarredInv ==
    /\ RefusedIntentsAreInert
    /\ \A c \in Calls : /\ req[c] \in Linked => pc[c] = "idle"
                        /\ req[c] \in Foreign => pc[c] \in {"idle", "owner"}
    /\ \A v \in Convs : grant[v] # NoGrant => grant[v].intent \notin Barred

\* A statement of a transaction writes no intent but its own.
LEMMA OwnIntentOnly ==
  ASSUME TypeOK, NEW c \in Calls, CallStep(c) \/ Abort(c)
  PROVE  /\ pc[c] # "idle"
         /\ req' = req /\ grant' = grant
         /\ \A d \in Calls \ {c} : pc'[d] = pc[d]
         /\ \A i \in Intents \ {req[c]} : row'[i] = row[i] /\ runs'[i] = runs[i]
<1>1. CASE CheckOwner(c) \/ TakeLock(c) \/ Replay(c) \/ Claim(c)
           \/ FindPending(c) \/ FindTerminal(c) \/ DecideAuto(c) \/ DecideHuman(c)
  BY <1>1 DEF CheckOwner, TakeLock, Replay, Claim, FindPending, FindTerminal,
     DecideAuto, DecideHuman, Answer, Return, Advance, Goto, dbVars, TypeOK
<1>2. CASE UpdateLoan(c) \/ GateCheck(c) \/ DupCheck(c) \/ Count(c)
           \/ InsertDisbursement(c) \/ Abort(c)
  BY <1>2 DEF UpdateLoan, GateCheck, DupCheck, Count, InsertDisbursement, Abort,
     Answer, Return, Advance, Goto, dbVars, TypeOK
<1>3. CASE RequestApproval(c)
  BY <1>3 DEF RequestApproval, Answer, Deliver, Return, Goto, dbVars, TypeOK
<1>4. CASE FinalizeReceipt(c) \/ InsertAuto(c)
  BY <1>4 DEF FinalizeReceipt, InsertAuto, CommitRun, Deliver, Answer, Return, Goto,
     dbVars, TypeOK
<1> QED BY <1>1, <1>2, <1>3, <1>4 DEF CallStep

\* A foreign loan passes the owner check of no call.
LEMMA OwnerCheckHolds ==
  ASSUME TypeOK, BarredInv, NEW c \in Calls, CallStep(c) \/ Abort(c)
  PROVE  req[c] \in Barred => pc'[c] = "idle" /\ row' = row /\ runs' = runs
<1> SUFFICES ASSUME req[c] \in Barred
             PROVE  pc'[c] = "idle" /\ row' = row /\ runs' = runs
  OBVIOUS
<1>1. pc[c] = "owner" /\ req[c] \in Foreign
  BY OwnIntentOnly DEF BarredInv, Barred
<1>2. CheckOwner(c) \/ Abort(c)
  BY <1>1 DEF CallStep, CheckOwner, TakeLock, Replay, Claim, FindPending,
     FindTerminal, DecideAuto, DecideHuman, RequestApproval, UpdateLoan,
     GateCheck, DupCheck, Count, InsertDisbursement, FinalizeReceipt, InsertAuto
<1> QED BY <1>1, <1>2 DEF CheckOwner, Abort, Answer, Return, Goto, dbVars, TypeOK

LEMMA BarredStep ==
  ASSUME TypeOK, BarredInv, [Next]_vars
  PROVE  BarredInv'
<1>1. ASSUME NEW c \in Calls, NEW i \in Intents, RefuseLinked(c, i)
      PROVE  BarredInv'
  BY <1>1 DEF RefuseLinked, BarredInv, RefusedIntentsAreInert, TypeOK, dbVars
<1>2. ASSUME NEW c \in Calls, NEW i \in Intents, Begin(c, i)
      PROVE  BarredInv'
  <2>1. /\ i \notin Linked /\ req' = [req EXCEPT ![c] = i]
        /\ pc' = [pc EXCEPT ![c] = IF ActionOf[i] = "disburse" THEN "owner"
                                                               ELSE "lock"]
        /\ row' = row /\ runs' = runs /\ grant' = grant
    BY <1>2 DEF Begin, Goto, dbVars
  <2>2. i \in Foreign => ActionOf[i] = "disburse"
    BY GateAssumption
  <2> QED BY <2>1, <2>2 DEF BarredInv, RefusedIntentsAreInert, TypeOK
<1>3. ASSUME NEW c \in Calls, CallStep(c) \/ Abort(c)
      PROVE  BarredInv'
  <2>1. Barred \subseteq Intents
    BY GateAssumption DEF Barred
  <2>2. RefusedIntentsAreInert'
    BY <1>3, <2>1, OwnIntentOnly, OwnerCheckHolds
       DEF BarredInv, RefusedIntentsAreInert, Barred
  <2>3. \A d \in Calls : /\ req'[d] \in Linked => pc'[d] = "idle"
                         /\ req'[d] \in Foreign => pc'[d] \in {"idle", "owner"}
    BY <1>3, OwnIntentOnly, OwnerCheckHolds DEF BarredInv, Barred
  <2>4. grant' = grant
    BY <1>3, OwnIntentOnly
  <2> QED BY <2>2, <2>3, <2>4 DEF BarredInv
<1>4. ASSUME NEW i \in Intents, NEW d \in {"approved", "rejected"},
             AdminDecide(i, d)
      PROVE  BarredInv'
  <2>1. i \notin Barred
    BY <1>4 DEF AdminDecide, BarredInv, RefusedIntentsAreInert, NoRow, Barred
  <2>2. \A j \in Intents \ {i} : row'[j] = row[j]
    BY <1>4 DEF AdminDecide, TypeOK
  <2>3. /\ runs' = runs /\ pc' = pc /\ req' = req /\ grant' = grant
    BY <1>4 DEF AdminDecide, callVars
  <2> QED BY <2>1, <2>2, <2>3, GateAssumption
          DEF BarredInv, RefusedIntentsAreInert, Barred
<1>5. ASSUME NEW v \in Convs, NEW i \in Intents, PeekGrant(v, i)
      PROVE  BarredInv'
  <2>1. i \notin Barred
    BY <1>5 DEF PeekGrant, BarredInv, RefusedIntentsAreInert, NoRow, Barred
  <2> QED BY <1>5, <2>1
          DEF PeekGrant, BarredInv, RefusedIntentsAreInert, TypeOK, dbVars, callVars
<1>6. ASSUME NEW v \in Convs, ClaimAttempt(v) \/ MarkExecFailed(v) \/ DropGrant(v)
      PROVE  BarredInv'
  <2> DEFINE i == grant[v].intent
  <2>1. i \notin Barred
    BY <1>6 DEF ClaimAttempt, MarkExecFailed, DropGrant, BarredInv
  <2>2. \A j \in Intents \ {i} : row'[j] = row[j]
    BY <1>6 DEF ClaimAttempt, MarkExecFailed, DropGrant, TypeOK, dbVars
  <2>3. /\ runs' = runs /\ pc' = pc /\ req' = req
        /\ grant' = [grant EXCEPT ![v] = NoGrant]
    BY <1>6 DEF ClaimAttempt, MarkExecFailed, DropGrant, callVars, dbVars
  <2> HIDE DEF i
  <2> QED BY <2>1, <2>2, <2>3, GateAssumption
          DEF BarredInv, RefusedIntentsAreInert, Barred, TypeOK
<1>7. CASE UNCHANGED vars
  BY <1>7 DEF vars, BarredInv, RefusedIntentsAreInert
<1> QED BY <1>1, <1>2, <1>3, <1>4, <1>5, <1>6, <1>7 DEF Next, StoreStep

\* An intent of an intake conversation and a disbursement of another
\* customer's loan never get an approvals row and never move money
\* (_linked_preassessment_refusal, cross_owner_refusal).
THEOREM RefusedStayInert == Spec => []RefusedIntentsAreInert
<1>1. Init => BarredInv
  <2>1. Linked \cup Foreign \subseteq Intents
    BY GateAssumption
  <2> QED BY <2>1 DEF Init, BarredInv, RefusedIntentsAreInert
<1>2. TypeOK /\ BarredInv /\ [Next]_vars => BarredInv'
  BY BarredStep
<1>3. BarredInv => RefusedIntentsAreInert
  BY DEF BarredInv
<1> QED BY <1>1, <1>2, <1>3, TypeCorrect, PTL DEF Spec
-----------------------------------------------------------------------------
(* Who authorised an execution, and what a call may say of it.             *)

\* What card, shadow review and row of an intent say together, by status.
PaperTrail(i) ==
    LET s == row[i].status IN
    /\ s = "none" => card[i] = "none" /\ review[i].decision = "none"
    /\ s = "pending" => card[i] # "none" /\ row[i].by # "auto-rule"
    /\ s = "rejected" => card[i] # "none" /\ row[i].by = "human"
    /\ s \in {"approved", "exec_failed"} =>
          /\ row[i].by = "human"
          /\ card[i] = "approved"
          /\ review[i].decision = "approved"

\* Only a disbursement of a known amount goes the way of the rule.
RuleInv ==
    \A c \in Calls : mode[c] = "auto" =>
        /\ ActionOf[req[c]] = "disburse"
        /\ AmountOf[req[c]] # NoAmount

AuthInv ==
    /\ \A i \in Intents : PaperTrail(i)
    /\ ExecutionIsAuthorised
    /\ RuleInv

\* The papers of every intent are as they were, but for attempts.
SamePapers(i) ==
    /\ row'[i].status = row[i].status
    /\ row'[i].by = row[i].by
    /\ card'[i] = card[i]
    /\ review'[i] = review[i]

LEMMA SamePapersKeep ==
  ASSUME AuthInv, RuleInv', \A i \in Intents : SamePapers(i)
  PROVE  AuthInv'
BY DEF AuthInv, PaperTrail, ExecutionIsAuthorised, SamePapers

\* One intent gets new papers that agree.
LEMMA NewPapersKeep ==
  ASSUME AuthInv, RuleInv', NEW k \in Intents,
         \A i \in Intents \ {k} : SamePapers(i),
         PaperTrail(k)',
         row'[k].status = "used" =>
            \/ /\ row'[k].by = "human"
               /\ card'[k] = "approved"
               /\ review'[k].decision = "approved"
            \/ /\ row'[k].by = "auto-rule"
               /\ ActionOf[k] = "disburse"
               /\ AmountOf[k] # NoAmount
               /\ card'[k] = "none"
               /\ review'[k].decision = "none"
  PROVE  AuthInv'
<1>1. \A i \in Intents : PaperTrail(i)'
  BY DEF AuthInv, PaperTrail, SamePapers
<1>2. ExecutionIsAuthorised'
  BY DEF AuthInv, ExecutionIsAuthorised, SamePapers
<1> QED BY <1>1, <1>2 DEF AuthInv

\* The papers a claimed execution leaves are those of its approval.
LEMMA ClaimAuthorised ==
  ASSUME TypeOK, AuthInv, RuleInv', NEW c \in Calls,
         row[req[c]].status = "approved",
         CommitRun(c, [row[req[c]] EXCEPT !.status = "used"])
  PROVE  AuthInv'
<1>0. PICK k \in Intents : k = req[c]
  BY DEF TypeOK
<1> DEFINE r == [row[k] EXCEPT !.status = "used"]
<1>1. row[k] \in Row /\ r.status = "used" /\ r.by = row[k].by
  BY DEF TypeOK, Row
<1>2. row' = [row EXCEPT ![k] = r] /\ card' = card /\ review' = review
  BY <1>0 DEF CommitRun
<1> HIDE DEF r
<1>3. row'[k] = r /\ \A i \in Intents \ {k} : SamePapers(i)
  BY <1>1, <1>2 DEF TypeOK, SamePapers
<1>4. row[k].by = "human" /\ card[k] = "approved" /\ review[k].decision = "approved"
  BY <1>0 DEF AuthInv, PaperTrail
<1>5. PaperTrail(k)'
  BY <1>1, <1>3 DEF PaperTrail
<1> QED BY <1>1, <1>2, <1>3, <1>4, <1>5, NewPapersKeep

\* The papers an execution by rule leaves: nobody was ever asked.
LEMMA RuleAuthorised ==
  ASSUME TypeOK, AuthInv, RuleInv', NEW c \in Calls, mode[c] = "auto",
         row[req[c]].status = "none",
         CommitRun(c, [NoRow EXCEPT !.status = "used", !.by = "auto-rule"])
  PROVE  AuthInv'
<1>0. PICK k \in Intents : k = req[c]
  BY DEF TypeOK
<1> DEFINE r == [NoRow EXCEPT !.status = "used", !.by = "auto-rule"]
<1>1. r.status = "used" /\ r.by = "auto-rule"
  BY DEF NoRow
<1>2. row' = [row EXCEPT ![k] = r] /\ card' = card /\ review' = review
  BY <1>0 DEF CommitRun
<1>3. ActionOf[k] = "disburse" /\ AmountOf[k] # NoAmount
  BY <1>0 DEF AuthInv, RuleInv
<1> HIDE DEF r
<1>4. card[k] = "none" /\ review[k].decision = "none"
  BY <1>0 DEF AuthInv, PaperTrail
<1>5. row'[k] = r /\ \A i \in Intents \ {k} : SamePapers(i)
  BY <1>1, <1>2 DEF TypeOK, SamePapers
<1>6. PaperTrail(k)'
  BY <1>1, <1>5 DEF PaperTrail
<1> QED BY <1>1, <1>2, <1>3, <1>4, <1>5, <1>6, NewPapersKeep

LEMMA RuleStep ==
  ASSUME TypeOK, ModeInv, RuleInv, [Next]_vars
  PROVE  RuleInv'
<1>1. ASSUME NEW c \in Calls, NEW i \in Intents, RefuseLinked(c, i) \/ Begin(c, i)
      PROVE  RuleInv'
  <2>1. mode[c] = "none" /\ mode' = mode /\ req' = [req EXCEPT ![c] = i]
    BY <1>1 DEF RefuseLinked, Begin, ModeInv, TypeOK, Executing
  <2> QED BY <2>1 DEF RuleInv, TypeOK
<1>2. ASSUME NEW c \in Calls, CallStep(c) \/ Abort(c)
      PROVE  RuleInv'
  <2>1. req' = req
    BY <1>2, OwnIntentOnly
  <2>2. CASE DecideAuto(c)
    <3>1. PICK lane \in Lanes :
            Decision(ActionOf[req[c]], AmountOf[req[c]], lane, thr[c]) = "auto"
      BY <2>2 DEF DecideAuto
    <3>2. AutoEligible(ActionOf[req[c]], AmountOf[req[c]], lane, thr[c])
      BY <3>1 DEF Decision
    <3>3. ActionOf[req[c]] = "disburse" /\ AmountOf[req[c]] # NoAmount
      BY <3>2 DEF AutoEligible, Tier1, Tier2
    <3> QED BY <2>1, <2>2, <3>3 DEF DecideAuto, RuleInv, TypeOK
  <2>3. CASE ~DecideAuto(c)
    <3>1. \/ mode' = mode
          \/ \E m \in {"none", "claim"} : mode' = [mode EXCEPT ![c] = m]
      BY <1>2, <2>3 DEF CallStep, Abort, CheckOwner, TakeLock, Replay, Claim,
         FindPending, FindTerminal, DecideHuman, RequestApproval, UpdateLoan,
         GateCheck, DupCheck, Count, InsertDisbursement, FinalizeReceipt,
         InsertAuto, CommitRun, Deliver, Answer, Return, Advance
    <3> QED BY <2>1, <3>1 DEF RuleInv, TypeOK
  <2> QED BY <2>2, <2>3
<1>3. CASE StoreStep
  <2>1. UNCHANGED callVars
    BY <1>3 DEF StoreStep, AdminDecide, PeekGrant, ClaimAttempt, MarkExecFailed,
       DropGrant
  <2> QED BY <2>1 DEF RuleInv, callVars
<1>4. CASE UNCHANGED vars
  BY <1>4 DEF vars, RuleInv
<1> QED BY <1>1, <1>2, <1>3, <1>4 DEF Next

LEMMA AuthStep ==
  ASSUME TypeOK, ModeInv, AuthInv, [Next]_vars
  PROVE  AuthInv'
<1>1. RuleInv'
  BY RuleStep DEF AuthInv
<1>2. UNCHANGED <<row, card, review>> => AuthInv'
  BY <1>1, SamePapersKeep DEF SamePapers
<1>3. ASSUME NEW c \in Calls, NEW i \in Intents, RefuseLinked(c, i) \/ Begin(c, i)
      PROVE  AuthInv'
  BY <1>2, <1>3 DEF RefuseLinked, Begin, dbVars
<1>4. ASSUME NEW c \in Calls, CallStep(c) \/ Abort(c)
      PROVE  AuthInv'
  <2>1. Answer(c, "gated_error") => AuthInv'
    BY <1>2 DEF Answer, dbVars
  <2>2. CASE RequestApproval(c)
    <3> PICK k \in Intents : k = req[c]
      BY DEF TypeOK
    <3> DEFINE r == [NoRow EXCEPT !.status = "pending", !.reco = advice[c]]
    <3>1. CASE /\ row' = [row EXCEPT ![k] = r]
               /\ card' = [card EXCEPT ![k] = "pending"]
               /\ review' = review
      <4>1. r.status = "pending" /\ r.by = "none"
        BY DEF NoRow
      <4> HIDE DEF r
      <4>2. /\ row'[k] = r /\ card'[k] = "pending"
            /\ \A i \in Intents \ {k} : SamePapers(i)
        BY <3>1, <4>1 DEF TypeOK, SamePapers
      <4>3. PaperTrail(k)'
        BY <4>1, <4>2 DEF PaperTrail
      <4> QED BY <1>1, <4>1, <4>2, <4>3, NewPapersKeep
    <3> QED BY <2>1, <2>2, <3>1 DEF RequestApproval
  <2>3. CASE FinalizeReceipt(c)
    BY <1>1, <2>1, <2>3, ClaimAuthorised DEF FinalizeReceipt
  <2>4. CASE InsertAuto(c)
    BY <1>1, <2>1, <2>4, RuleAuthorised DEF InsertAuto
  <2>5. CASE ~RequestApproval(c) /\ ~FinalizeReceipt(c) /\ ~InsertAuto(c)
    <3>1. UNCHANGED <<row, card, review>>
      BY <1>4, <2>5 DEF CallStep, Abort, CheckOwner, TakeLock, Replay, Claim,
         FindPending, FindTerminal, DecideAuto, DecideHuman, UpdateLoan,
         GateCheck, DupCheck, Count, InsertDisbursement, Answer, Advance, dbVars
    <3> QED BY <1>2, <3>1
  <2> QED BY <2>2, <2>3, <2>4, <2>5
<1>5. ASSUME NEW k \in Intents, NEW d \in {"approved", "rejected"},
             AdminDecide(k, d)
      PROVE  AuthInv'
  <2>1. row[k] \in Row
    BY DEF TypeOK
  <2>2. /\ row'[k].status = d /\ row'[k].by = "human"
        /\ card'[k] = d /\ review'[k].decision = d
    BY <1>5, <2>1 DEF AdminDecide, TypeOK, Row
  <2>3. \A i \in Intents \ {k} : SamePapers(i)
    BY <1>5 DEF AdminDecide, TypeOK, SamePapers
  <2>4. PaperTrail(k)'
    BY <2>2 DEF PaperTrail
  <2> QED BY <1>1, <2>2, <2>3, <2>4, NewPapersKeep
<1>6. ASSUME NEW v \in Convs, DropGrant(v) \/ \E i \in Intents : PeekGrant(v, i)
      PROVE  AuthInv'
  BY <1>2, <1>6 DEF PeekGrant, DropGrant, dbVars
<1>7. ASSUME NEW v \in Convs, ClaimAttempt(v)
      PROVE  AuthInv'
  <2> DEFINE k == grant[v].intent
  <2>1. k \in Intents /\ row[k] \in Row
    BY <1>7 DEF ClaimAttempt, TypeOK
  <2>2. row' = [row EXCEPT ![k] = [row[k] EXCEPT !.attempts = row[k].attempts + 1]]
        /\ card' = card /\ review' = review
    BY <1>7, <2>1 DEF ClaimAttempt, TypeOK
  <2> HIDE DEF k
  <2>3. \A i \in Intents : SamePapers(i)
    BY <2>1, <2>2 DEF TypeOK, SamePapers, Row
  <2> QED BY <1>1, <2>3, SamePapersKeep
<1>8. ASSUME NEW v \in Convs, MarkExecFailed(v)
      PROVE  AuthInv'
  <2> PICK k \in Intents : k = grant[v].intent
    BY <1>8 DEF MarkExecFailed, TypeOK
  <2> DEFINE r == [row[k] EXCEPT !.status = "exec_failed"]
  <2>1. row[k] \in Row /\ card' = card /\ review' = review
    BY <1>8 DEF MarkExecFailed, TypeOK
  <2>2. row' = row \/ (row' = [row EXCEPT ![k] = r] /\ row[k].status = "approved")
    BY <1>8, <2>1 DEF MarkExecFailed, TypeOK
  <2>3. r.status = "exec_failed" /\ r.by = row[k].by
    BY <2>1 DEF Row
  <2> HIDE DEF r
  <2>4. CASE row' = [row EXCEPT ![k] = r] /\ row[k].status = "approved"
    <3>1. row'[k] = r /\ \A i \in Intents \ {k} : SamePapers(i)
      BY <2>1, <2>4 DEF TypeOK, SamePapers
    <3>2. row[k].by = "human" /\ card[k] = "approved"
          /\ review[k].decision = "approved"
      BY <2>1, <2>4 DEF AuthInv, PaperTrail
    <3>3. PaperTrail(k)'
      BY <2>1, <2>3, <3>1, <3>2 DEF PaperTrail
    <3> QED BY <1>1, <2>1, <2>3, <3>1, <3>3, NewPapersKeep
  <2> QED BY <1>2, <2>1, <2>2, <2>4
<1>9. CASE UNCHANGED vars
  BY <1>2, <1>9 DEF vars
<1> QED BY <1>3, <1>4, <1>5, <1>6, <1>7, <1>8, <1>9 DEF Next, StoreStep

LEMMA AuthInvariant == Spec => []AuthInv
<1>1. Init => AuthInv
  BY DEF Init, AuthInv, PaperTrail, ExecutionIsAuthorised, RuleInv, NoRow, NoReview
<1>2. GateInv /\ AuthInv /\ [Next]_vars => AuthInv'
  BY AuthStep DEF GateInv
<1> QED BY <1>1, <1>2, GateInvariant, PTL DEF Spec

\* Whatever was executed, a person approved it on the card and in the shadow
\* review, or the rule did and nobody was asked (_branch_claim, _branch_auto).
THEOREM ExecutionsAuthorised == Spec => []ExecutionIsAuthorised
BY AuthInvariant, PTL DEF AuthInv
-----------------------------------------------------------------------------
(* What was answered stays true.                                           *)

\* Once true of an intent, each of these is true for ever.
Asked(i) == row[i].by # "auto-rule" /\ card[i] # "none"

FactsStay ==
    \A i \in Intents :
        /\ runs[i] = 1 => runs'[i] = 1
        /\ row[i].status = "rejected" => row'[i].status = "rejected"
        /\ row[i].status = "exec_failed" => row'[i].status = "exec_failed"
        /\ Asked(i) => Asked(i)'

\* The answer code is true of the intent i.
TrueOf(code, i) ==
    /\ code \in {"executed", "receipt"} => runs[i] = 1
    /\ code = "approval_rejected" => row[i].status = "rejected"
    /\ code = "approval_execution_failed" => row[i].status = "exec_failed"
    /\ code \in {"approval_required", "approval_pending"} => Asked(i)

\* Nobody who was asked is passed over, and who has a card keeps one.
LEMMA AskedStays ==
  ASSUME TypeOK, AuthInv, [Next]_vars, NEW i \in Intents, Asked(i)
  PROVE  Asked(i)'
<1>1. row[i].status # "none"
  BY DEF Asked, AuthInv, PaperTrail
<1>2. UNCHANGED <<row, card>> => Asked(i)'
  BY DEF Asked
<1>3. ASSUME NEW c \in Calls, NEW j \in Intents, RefuseLinked(c, j) \/ Begin(c, j)
      PROVE  Asked(i)'
  BY <1>2, <1>3 DEF RefuseLinked, Begin, dbVars
<1>4. ASSUME NEW c \in Calls, CallStep(c) \/ Abort(c)
      PROVE  Asked(i)'
  <2>1. CASE RequestApproval(c)
    BY <1>1, <2>1 DEF RequestApproval, Answer, dbVars, Asked, TypeOK
  <2>2. CASE FinalizeReceipt(c)
    <3>1. CASE CommitRun(c, [row[req[c]] EXCEPT !.status = "used"])
      <4>1. /\ row' = [row EXCEPT ![req[c]] = [row[req[c]] EXCEPT !.status = "used"]]
            /\ card' = card
        BY <3>1 DEF CommitRun
      <4> QED BY <4>1 DEF Asked, TypeOK, Row
    <3>2. CASE Answer(c, "gated_error")
      BY <1>2, <3>2 DEF Answer, dbVars
    <3> QED BY <2>2, <3>1, <3>2 DEF FinalizeReceipt
  <2>3. CASE InsertAuto(c)
    BY <1>1, <2>3 DEF InsertAuto, CommitRun, Answer, dbVars, Asked, TypeOK
  <2>4. CASE ~RequestApproval(c) /\ ~FinalizeReceipt(c) /\ ~InsertAuto(c)
    <3>1. UNCHANGED <<row, card>>
      BY <1>4, <2>4 DEF CallStep, Abort, CheckOwner, TakeLock, Replay, Claim,
         FindPending, FindTerminal, DecideAuto, DecideHuman, UpdateLoan,
         GateCheck, DupCheck, Count, InsertDisbursement, Answer, Advance, dbVars
    <3> QED BY <1>2, <3>1
  <2> QED BY <2>1, <2>2, <2>3, <2>4
<1>5. CASE StoreStep
  <2>1. ASSUME NEW k \in Intents, NEW d \in {"approved", "rejected"},
               AdminDecide(k, d)
        PROVE  Asked(i)'
    BY <2>1 DEF AdminDecide, Asked, TypeOK, Row
  <2>2. ASSUME NEW v \in Convs, ClaimAttempt(v) PROVE Asked(i)'
    BY <2>2 DEF ClaimAttempt, Asked, TypeOK, Row
  <2>3. ASSUME NEW v \in Convs, MarkExecFailed(v) PROVE Asked(i)'
    BY <2>3 DEF MarkExecFailed, Asked, TypeOK, Row
  <2>4. ASSUME NEW v \in Convs,
               DropGrant(v) \/ \E k \in Intents : PeekGrant(v, k)
        PROVE  Asked(i)'
    BY <1>2, <2>4 DEF PeekGrant, DropGrant, dbVars
  <2> QED BY <1>5, <2>1, <2>2, <2>3, <2>4 DEF StoreStep
<1>6. CASE UNCHANGED vars
  BY <1>2, <1>6 DEF vars
<1> QED BY <1>3, <1>4, <1>5, <1>6 DEF Next

LEMMA FactsStayStep ==
  ASSUME GateInv, GateInv', AuthInv, [Next]_vars
  PROVE  FactsStay
<1>1. OneMove
  BY Transitions DEF GateInv
<1>2. \A i \in Intents :
        row[i].status \in {"rejected", "used", "exec_failed"}
        => row'[i].status = row[i].status
  BY <1>1 DEF OneMove, SameStatuses, QuietMove, PaidMove, Shift
<1>3. \A i \in Intents : runs[i] = 1 => runs'[i] = 1
  BY <1>2 DEF GateInv, UsedIffExecutedOnce
<1>4. \A i \in Intents : Asked(i) => Asked(i)'
  BY AskedStays DEF GateInv
<1> QED BY <1>2, <1>3, <1>4 DEF FactsStay

\* The code a statement answers with is true as it answers.
LEMMA AnswersFit ==
  ASSUME GateInv, GateInv', AuthInv, NEW c \in Calls, CallStep(c) \/ Abort(c)
  PROVE  /\ \A d \in Calls \ {c} : out'[d] = out[d]
         /\ out'[c] = out[c] \/ TrueOf(out[c], req[c])'
<1>1. ASSUME NEW code \in {"gated_error", "not_your_loan", "disburse_blocked"},
             Return(c, code)
      PROVE  /\ \A d \in Calls \ {c} : out'[d] = out[d]
             /\ TrueOf(out[c], req[c])'
  BY <1>1 DEF Return, TrueOf, GateInv, TypeOK
<1>2. CASE Replay(c)
  <2>1. CASE row[req[c]].status = "used" /\ Answer(c, "receipt")
    <3>1. runs[req[c]] = 1
      BY <2>1 DEF GateInv, UsedIffExecutedOnce, TypeOK
    <3> QED BY <2>1, <3>1 DEF Answer, Return, TrueOf, GateInv, TypeOK, dbVars
  <2> QED BY <1>2, <2>1 DEF Replay, Advance
<1>3. CASE FindPending(c)
  <2>1. CASE row[req[c]].status = "pending" /\ Answer(c, "approval_pending")
    <3>1. Asked(req[c])
      BY <2>1 DEF AuthInv, PaperTrail, Asked, GateInv, TypeOK
    <3> QED BY <2>1, <3>1 DEF Answer, Return, TrueOf, Asked, GateInv, TypeOK, dbVars
  <2> QED BY <1>3, <2>1 DEF FindPending, Advance
<1>4. CASE FindTerminal(c)
  BY <1>4 DEF FindTerminal, Advance, Answer, Return, TrueOf, GateInv, TypeOK, dbVars
<1>5. CASE RequestApproval(c)
  <2>1. CASE /\ row' = [row EXCEPT ![req[c]] =
                   [NoRow EXCEPT !.status = "pending", !.reco = advice[c]]]
             /\ card' = [card EXCEPT ![req[c]] = "pending"]
             /\ Deliver(c, "approval_required")
    <3>1. Asked(req[c])'
      BY <2>1 DEF Asked, Deliver, Return, GateInv, TypeOK, NoRow
    <3> QED BY <2>1, <3>1 DEF Deliver, Return, TrueOf, GateInv, TypeOK
  <2> QED BY <1>1, <1>5, <2>1 DEF RequestApproval, Answer
<1>6. ASSUME NEW r, r.status = "used", r \in Row, CommitRun(c, r)
      PROVE  /\ \A d \in Calls \ {c} : out'[d] = out[d]
             /\ TrueOf(out[c], req[c])'
  <2>3. PICK a \in {"executed", "gated_error"} : Return(c, a)
    BY <1>6 DEF CommitRun, Deliver
  <2>1. row'[req[c]].status = "used" /\ req' = req /\ out' = [out EXCEPT ![c] = a]
    BY <1>6, <2>3 DEF CommitRun, Return, GateInv, TypeOK
  <2>2. runs'[req[c]] = 1
    BY <2>1 DEF GateInv, UsedIffExecutedOnce, TypeOK
  <2> QED BY <2>1, <2>2 DEF TrueOf, GateInv, TypeOK
<1>7. CASE FinalizeReceipt(c)
  <2> DEFINE r == [row[req[c]] EXCEPT !.status = "used"]
  <2>1. r \in Row /\ r.status = "used"
    BY RowStatus DEF GateInv, TypeOK, Statuses
  <2>2. CommitRun(c, r) \/ Answer(c, "gated_error")
    BY <1>7 DEF FinalizeReceipt
  <2> HIDE DEF r
  <2> QED BY <1>1, <1>6, <2>1, <2>2 DEF Answer
<1>8. CASE InsertAuto(c)
  <2> DEFINE r == [NoRow EXCEPT !.status = "used", !.by = "auto-rule"]
  <2>1. r \in Row /\ r.status = "used"
    BY DEF NoRow, Row, Statuses, Recommendations
  <2>2. CommitRun(c, r) \/ Answer(c, "gated_error")
    BY <1>8 DEF InsertAuto
  <2> HIDE DEF r
  <2> QED BY <1>1, <1>6, <2>1, <2>2 DEF Answer
<1>9. CASE Abort(c) \/ CheckOwner(c) \/ GateCheck(c) \/ DupCheck(c)
           \/ InsertDisbursement(c)
  BY <1>1, <1>9 DEF Abort, CheckOwner, GateCheck, DupCheck, InsertDisbursement,
     Answer, Advance
<1>10. CASE TakeLock(c) \/ Claim(c) \/ DecideAuto(c) \/ DecideHuman(c)
            \/ UpdateLoan(c) \/ Count(c)
  BY <1>10 DEF TakeLock, Claim, DecideAuto, DecideHuman, UpdateLoan, Count, Advance
<1> QED BY <1>2, <1>3, <1>4, <1>5, <1>7, <1>8, <1>9, <1>10 DEF CallStep

\* What the gate has answered is true and stays true: a receipt means one
\* execution, a refusal or a failure the row's final status, and a request
\* for approval a card that a person was shown.
THEOREM AnswersStayTrue == Spec => []AnswersAreTrue
<1>1. Init => AnswersAreTrue
  BY DEF Init, AnswersAreTrue
<1>2. ASSUME GateInv, GateInv', AuthInv, AnswersAreTrue, [Next]_vars
      PROVE  AnswersAreTrue'
  <2>1. FactsStay
    BY <1>2, FactsStayStep
  <2>2. \A c \in Calls : TrueOf(out[c], req[c])
    BY <1>2 DEF AnswersAreTrue, TrueOf, Asked
  <2>3. ASSUME NEW c \in Calls, req'[c] = req[c], out'[c] = out[c]
        PROVE  TrueOf(out[c], req[c])'
    <3>1. req[c] \in Intents
      BY <1>2 DEF GateInv, TypeOK
    <3> QED BY <2>1, <2>2, <2>3, <3>1 DEF FactsStay, TrueOf, Asked
  <2>4. ASSUME NEW c \in Calls, NEW i \in Intents,
               RefuseLinked(c, i) \/ Begin(c, i)
        PROVE  \A d \in Calls : TrueOf(out[d], req[d])'
    <3>1. /\ req' = [req EXCEPT ![c] = i]
          /\ \E code \in {"none", "preassessment_only"} : out' = [out EXCEPT ![c] = code]
      BY <2>4 DEF RefuseLinked, Begin
    <3>2. TrueOf(out[c], req[c])'
      BY <1>2, <3>1 DEF TrueOf, GateInv, TypeOK
    <3>3. \A d \in Calls \ {c} : req'[d] = req[d] /\ out'[d] = out[d]
      BY <1>2, <3>1 DEF GateInv, TypeOK
    <3> QED BY <2>3, <3>2, <3>3
  <2>5. ASSUME NEW c \in Calls, CallStep(c) \/ Abort(c)
        PROVE  \A d \in Calls : TrueOf(out[d], req[d])'
    <3>1. req' = req
      BY <1>2, <2>5, OwnIntentOnly DEF GateInv
    <3>2. /\ \A d \in Calls \ {c} : out'[d] = out[d]
          /\ out'[c] = out[c] \/ TrueOf(out[c], req[c])'
      BY <1>2, <2>5, AnswersFit
    <3> QED BY <2>3, <3>1, <3>2
  <2>6. CASE StoreStep
    <3>1. req' = req /\ out' = out
      BY <2>6 DEF StoreStep, AdminDecide, PeekGrant, ClaimAttempt,
         MarkExecFailed, DropGrant, callVars
    <3> QED BY <2>3, <3>1 DEF AnswersAreTrue, TrueOf, Asked
  <2>7. CASE UNCHANGED vars
    BY <2>3, <2>7 DEF vars, AnswersAreTrue, TrueOf, Asked
  <2>8. (\A d \in Calls : TrueOf(out[d], req[d])') => AnswersAreTrue'
    BY DEF AnswersAreTrue, TrueOf, Asked
  <2> QED BY <1>2, <2>4, <2>5, <2>6, <2>7, <2>8 DEF Next
<1>3. GateInv /\ GateInv' /\ AuthInv /\ AnswersAreTrue /\ [Next]_vars
        => AnswersAreTrue'
  BY <1>2
<1> QED BY <1>1, <1>3, GateInvariant, AuthInvariant, PTL DEF Spec
-----------------------------------------------------------------------------
(* The numbers of the disbursements.                                       *)

\* A transaction whose INSERT INTO disbursements has been accepted.
Inserted(c) == pc[c] = "finalize" /\ ActionOf[req[c]] = "ops_disburse"

\* A number was counted no later than now, one that was inserted is still
\* nobody else's.
NumbersInv ==
    /\ LedgerIsDense
    /\ \A c \in Calls :
          /\ pc[c] = "loan" => ActionOf[req[c]] = "disburse"
          /\ pc[c] = "insert" \/ Inserted(c) =>
                dsb[c] \in 1 .. Cardinality(ledger) + 1
          /\ Inserted(c) => \A d \in ledger : d.number # dsb[c]
    /\ \A c, d \in Calls :
          Inserted(c) /\ Inserted(d) /\ dsb[c] = dsb[d] => c = d

\* Steps that insert nothing and commit nothing.
LEMMA NumbersIdle ==
  ASSUME TypeOK, NumbersInv, ledger' = ledger, NEW c \in Calls,
         \A d \in Calls \ {c} :
            pc'[d] = pc[d] /\ req'[d] = req[d] /\ dsb'[d] = dsb[d],
         pc'[c] \notin {"loan", "insert", "finalize"}
  PROVE  NumbersInv'
BY DEF NumbersInv, LedgerIsDense, Inserted

\* The one number that an accepted INSERT can have: the COUNT(*) of now.
LEMMA NumberIsNext ==
  ASSUME TypeOK, LedgerFinite, NumbersInv, NEW c \in Calls, Inserted(c)
  PROVE  dsb[c] = Cardinality(ledger) + 1
<1>1. Cardinality(ledger) \in Nat
  BY FS_CardinalityType DEF LedgerFinite
<1>2. dsb[c] \in 1 .. Cardinality(ledger) + 1
  BY DEF NumbersInv
<1>3. dsb[c] \notin 1 .. Cardinality(ledger)
  BY DEF NumbersInv, LedgerIsDense
<1> QED BY <1>1, <1>2, <1>3

LEMMA NumbersCommit ==
  ASSUME TypeOK, LedgerFinite, NumbersInv, NEW c \in Calls, pc[c] = "finalize",
         NEW r, CommitRun(c, r)
  PROVE  NumbersInv'
<1>1. /\ req' = req /\ pc' = [pc EXCEPT ![c] = "idle"]
      /\ dsb' = [dsb EXCEPT ![c] = 0]
  BY DEF CommitRun, Deliver, Return, Goto
<1>2. \A d \in Calls \ {c} :
         pc'[d] = pc[d] /\ req'[d] = req[d] /\ dsb'[d] = dsb[d]
  BY <1>1 DEF TypeOK
<1>3. pc'[c] = "idle"
  BY <1>1 DEF TypeOK
<1>4. CASE ActionOf[req[c]] # "ops_disburse"
  <2>1. ledger' = ledger
    BY <1>4 DEF CommitRun
  <2> QED BY <1>2, <1>3, <2>1, NumbersIdle
<1>5. CASE ActionOf[req[c]] = "ops_disburse"
  <2> DEFINE n == Cardinality(ledger)
             new == [number |-> dsb[c], intent |-> req[c], target |-> TargetOf[req[c]]]
  <2>1. Inserted(c) /\ dsb[c] = n + 1
    BY <1>5, NumberIsNext DEF Inserted
  <2>2. ledger' = ledger \cup {new}
    BY <1>5 DEF CommitRun
  <2>3. new \notin ledger
    BY <2>1 DEF NumbersInv
  <2>4. n \in Nat /\ Cardinality(ledger') = n + 1
    BY <2>2, <2>3, FS_AddElement, FS_CardinalityType DEF LedgerFinite
  <2>5. {d.number : d \in ledger'} = {d.number : d \in ledger} \cup {n + 1}
    <3>1. new.number = n + 1
      BY <2>1
    <3> HIDE DEF new, n
    <3> QED BY <2>2, <3>1
  <2>6. {d.number : d \in ledger} = 1 .. n
    BY DEF NumbersInv, LedgerIsDense
  <2>7. (1 .. n) \cup {n + 1} = 1 .. (n + 1)
    BY <2>4
  <2>8. LedgerIsDense'
    BY <2>4, <2>5, <2>6, <2>7 DEF LedgerIsDense
  <2>9. ASSUME NEW d \in Calls, Inserted(d)' PROVE FALSE
    <3>1. d # c /\ Inserted(d)
      BY <1>1, <1>2, <1>3, <2>9 DEF Inserted
    <3>2. dsb[d] = dsb[c]
      BY <2>1, <3>1, NumberIsNext
    <3> QED BY <2>1, <3>1, <3>2 DEF NumbersInv
  <2>10. ASSUME NEW d \in Calls, pc'[d] = "insert"
         PROVE  dsb'[d] \in 1 .. Cardinality(ledger') + 1
    <3>1. d # c /\ pc[d] = "insert"
      BY <1>2, <1>3, <2>10
    <3>2. dsb'[d] = dsb[d] /\ dsb[d] \in 1 .. n + 1
      BY <1>2, <3>1 DEF NumbersInv
    <3> QED BY <2>4, <3>2
  <2>11. \A d \in Calls : pc'[d] = "loan" => ActionOf[req'[d]] = "disburse"
    BY <1>1, <1>2, <1>3 DEF NumbersInv
  <2> QED BY <2>8, <2>9, <2>10, <2>11 DEF NumbersInv
<1> QED BY <1>4, <1>5

LEMMA NumbersStep ==
  ASSUME TypeOK, LedgerFinite, NumbersInv, [Next]_vars
  PROVE  NumbersInv'
<1>1. ASSUME NEW c \in Calls, NEW code, Answer(c, code)
      PROVE  NumbersInv'
  BY <1>1, NumbersIdle DEF Answer, Return, Goto, dbVars, TypeOK
<1>2. ASSUME NEW c \in Calls, NEW p \in PCs \ {"loan", "insert", "finalize"},
             Advance(c, p)
      PROVE  NumbersInv'
  BY <1>2, NumbersIdle DEF Advance, Goto, dbVars, TypeOK
<1>3. ASSUME NEW c \in Calls, NEW i \in Intents, RefuseLinked(c, i) \/ Begin(c, i)
      PROVE  NumbersInv'
  <2>1. /\ ledger' = ledger /\ dsb' = dsb /\ req' = [req EXCEPT ![c] = i]
        /\ \E p \in {"idle", "owner", "lock"} : pc' = [pc EXCEPT ![c] = p]
    BY <1>3 DEF RefuseLinked, Begin, Goto, dbVars, TypeOK
  <2> QED BY <2>1, NumbersIdle DEF TypeOK
<1>4. ASSUME NEW c \in Calls, Goto(c, ToolEntry(req[c])),
             UNCHANGED <<ledger, req, dsb>>
      PROVE  NumbersInv'
  <2>1. CASE ActionOf[req[c]] = "disburse"
    BY <1>4, <2>1
       DEF Goto, ToolEntry, NumbersInv, LedgerIsDense, Inserted, TypeOK
  <2>2. CASE ActionOf[req[c]] # "disburse"
    BY <1>4, <2>2, NumbersIdle DEF Goto, ToolEntry, TypeOK
  <2> QED BY <2>1, <2>2
<1>5. ASSUME NEW c \in Calls, Abort(c)
      PROVE  NumbersInv'
  BY <1>1, <1>5 DEF Abort
<1>6. ASSUME NEW c \in Calls, CallStep(c)
      PROVE  NumbersInv'
  <2>1. CASE CheckOwner(c) \/ TakeLock(c) \/ Replay(c) \/ FindPending(c)
             \/ FindTerminal(c) \/ GateCheck(c) \/ DupCheck(c)
    BY <1>1, <1>2, <2>1 DEF CheckOwner, TakeLock, Replay, FindPending,
       FindTerminal, GateCheck, DupCheck, PCs, Guards, Branches, Executing
  <2>2. CASE Claim(c)
    BY <1>2, <1>4, <2>2 DEF Claim, dbVars, PCs, Branches
  <2>3. CASE DecideAuto(c)
    BY <1>4, <2>3 DEF DecideAuto, dbVars
  <2>4. CASE DecideHuman(c)
    BY <2>4, NumbersIdle DEF DecideHuman, Goto, dbVars, TypeOK
  <2>5. CASE RequestApproval(c)
    BY <1>1, <2>5, NumbersIdle DEF RequestApproval, Deliver, Return, Goto, TypeOK
  <2>6. CASE UpdateLoan(c)
    <3>1. /\ pc' = [pc EXCEPT ![c] = "finalize"] /\ UNCHANGED <<ledger, req, dsb>>
          /\ ActionOf[req[c]] = "disburse"
      BY <2>6 DEF UpdateLoan, Advance, Goto, dbVars, NumbersInv
    <3> QED BY <3>1 DEF NumbersInv, LedgerIsDense, Inserted, TypeOK
  <2>7. CASE Count(c)
    <3> DEFINE n == Cardinality(ledger)
    <3>1. n \in Nat
      BY FS_CardinalityType DEF LedgerFinite
    <3>2. n + 1 \in 1 .. n + 1
      BY <3>1
    <3>3. /\ pc' = [pc EXCEPT ![c] = "insert"] /\ UNCHANGED <<ledger, req>>
          /\ dsb' = [dsb EXCEPT ![c] = n + 1]
      BY <2>7 DEF Count, Goto, dbVars
    <3> QED BY <3>2, <3>3 DEF NumbersInv, LedgerIsDense, Inserted, TypeOK
  <2>8. CASE InsertDisbursement(c)
    <3>1. CASE Answer(c, "disburse_blocked")
      BY <1>1, <3>1
    <3>2. CASE Advance(c, "finalize") /\ \A d \in ledger : d.number # dsb[c]
      <4>1. /\ pc' = [pc EXCEPT ![c] = "finalize"]
            /\ UNCHANGED <<ledger, req, dsb>>
        BY <3>2 DEF Advance, Goto, dbVars
      <4>2. \A d \in Calls : Inserted(d) => dsb[d] # dsb[c]
        BY <2>8 DEF InsertDisbursement, HoldsNumber, Inserted
      <4>3. dsb[c] \in 1 .. Cardinality(ledger) + 1
        BY <2>8 DEF InsertDisbursement, NumbersInv
      <4> QED BY <3>2, <4>1, <4>2, <4>3
              DEF NumbersInv, LedgerIsDense, Inserted, TypeOK
    <3> QED BY <2>8, <3>1, <3>2 DEF InsertDisbursement
  <2>9. CASE FinalizeReceipt(c) \/ InsertAuto(c)
    BY <1>1, <2>9, NumbersCommit DEF FinalizeReceipt, InsertAuto
  <2> QED BY <1>6, <2>1, <2>2, <2>3, <2>4, <2>5, <2>6, <2>7, <2>8, <2>9
          DEF CallStep
<1>7. CASE StoreStep
  <2>1. UNCHANGED <<ledger, callVars>>
    BY <1>7 DEF StoreStep, AdminDecide, PeekGrant, ClaimAttempt, MarkExecFailed,
       DropGrant, dbVars
  <2> QED BY <2>1 DEF callVars, NumbersInv, LedgerIsDense, Inserted
<1>8. CASE UNCHANGED vars
  BY <1>8 DEF vars, NumbersInv, LedgerIsDense, Inserted
<1> QED BY <1>3, <1>5, <1>6, <1>7, <1>8 DEF Next

\* Disbursements are numbered without gap or repetition, although each number
\* is a COUNT(*) taken some statements before its INSERT.
THEOREM NumbersDense == Spec => []LedgerIsDense
<1>1. Init => NumbersInv
  <2>1. ASSUME Init PROVE LedgerIsDense
    <3>1. ledger = {} /\ Cardinality(ledger) = 0
      BY <2>1, FS_EmptySet DEF Init
    <3>2. 1 .. 0 = {}
      OBVIOUS
    <3> QED BY <3>1, <3>2 DEF LedgerIsDense
  <2> QED BY <2>1 DEF Init, NumbersInv, Inserted
<1>2. GateInv /\ NumbersInv /\ [Next]_vars => NumbersInv'
  BY NumbersStep DEF GateInv
<1>3. NumbersInv => LedgerIsDense
  BY DEF NumbersInv
<1> QED BY <1>1, <1>2, <1>3, GateInvariant, PTL DEF Spec
=============================================================================
