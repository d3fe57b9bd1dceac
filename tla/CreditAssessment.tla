--------------------------- MODULE CreditAssessment ---------------------------
(***************************************************************************)
(* The credit expert's calculations (roles/credit/functions.py) over one   *)
(* application: a record of what the bank's tables hold on its owner and   *)
(* of what the agent passes to the tool.                                   *)
(*                                                                         *)
(* Money is a natural number of some unit, a ratio a number of             *)
(* thousandths: the code rounds DSCR and LTV to three digits before it     *)
(* compares them.  A payment is rounded down to the unit.  0 stands for a  *)
(* NULL amount, which the code reads as 0 everywhere (x or 0).             *)
(***************************************************************************)
EXTENDS Integers, FiniteSets

CONSTANTS
    Assumptions,   \* the rows of table assumptions: key to value, text or number
    Numeric,       \* the values float() accepts
    Rates          \* Rates[type]: the monthly rate of a loan is 1/Rates[type], or 0

ASSUME CreditAssumption == Numeric \subseteq Int

LoanTypes == {"consumer", "secured"}

\* A condition as a set, to be joined with others.
Flag(condition, name) == IF condition THEN {name} ELSE {}

\* _assumptions skips a row whose value is not a number, and the reader of a
\* key that is missing falls back to its default.
Assumption(key, default) ==
    IF key \in DOMAIN Assumptions /\ Assumptions[key] \in Numeric
    THEN Assumptions[key] ELSE default

DscrMin     == Assumption("dscr_min", 1200)
LtvMax      == Assumption("ltv_max", 700)
CustomerCap == Assumption("single_customer_cap", 7500)
BadDebt     == 3
Term(type)  == Assumption(IF type = "secured" THEN "term_secured" ELSE "term_consumer",
                          IF type = "secured" THEN 180 ELSE 60)

\* _annuity divides by the number of months.
ASSUME LoanAssumption ==
    /\ Rates \in [LoanTypes -> Nat]
    /\ \A type \in LoanTypes : Term(type) \in Nat \ {0}

\* num / den as a number of thousandths, to the nearest.
Thousandths(num, den) == (2000 * num + den) \div (2 * den)

Power(b, n) ==
    LET raised[i \in 0 .. n] == IF i = 0 THEN 1 ELSE b * raised[i - 1]
    IN raised[n]

\* _annuity with the monthly rate 1/k (0 when k = 0), over n months:
\* p r (1 + r)^n / ((1 + r)^n - 1).
Annuity(p, k, n) ==
    IF k = 0 THEN p \div n
    ELSE (p * Power(k + 1, n)) \div (k * (Power(k + 1, n) - Power(k, n)))

-------------------------------------------------------------------------------
(* An application a has the fields                                         *)
(*   kind        customer, business, or none for an unknown owner          *)
(*   income      declared: monthly_income, or a twelfth of annual_revenue  *)
(*   override    income the caller passes as verified, NoOverride          *)
(*   paying      monthly payments of the owner's active loans              *)
(*   asked, type, term    what the caller asks for; term 0 = not given     *)
(*   collateral  none, unknown, foreign or own                             *)
(*   value, docs_status   of the collateral                                *)
(*   cic         the group of the CIC record, 0 when there is none         *)

NoOverride == 0 - 1

\* The type of the loan: as given, or by the presence of collateral.
EffectiveType(a) ==
    CASE a.type \in LoanTypes -> a.type
      [] a.type \notin LoanTypes /\ a.collateral # "none" -> "secured"
      [] OTHER -> "consumer"

MonthlyIncome(a) == IF a.override # NoOverride THEN a.override ELSE a.income

NewPayment(a) ==
    IF a.asked <= 0 THEN 0
    ELSE LET type == EffectiveType(a)
         IN Annuity(a.asked, Rates[type], IF a.term > 0 THEN a.term ELSE Term(type))

TotalPayment(a) == a.paying + NewPayment(a)

\* dscr < dscr_min, where a DSCR exists: there is something to pay.
DscrFails(a) ==
    /\ TotalPayment(a) > 0
    /\ Thousandths(MonthlyIncome(a), TotalPayment(a)) < DscrMin

\* A faulty LtvFails: the comparison is turned round.
LtvFailsBelow(a) ==
    /\ a.collateral = "own"
    /\ a.value > 0
    /\ Thousandths(a.asked, a.value) < LtvMax

\* ltv > ltv_max, where an LTV exists: the collateral has a value.
LtvFails(a) ==
    /\ a.collateral = "own"
    /\ a.value > 0
    /\ Thousandths(a.asked, a.value) > LtvMax

\* What a call is refused for before anything is computed, in the order of
\* the checks; "ok" when it is not.
CreditRefusal(a) ==
    CASE a.asked < 0 \/ a.term < 0 -> "invalid_param"
      [] a.type \notin LoanTypes \cup {"none"} -> "bad_enum"
      [] a.override # NoOverride /\ a.override <= 0 -> "invalid_param"
      [] a.kind = "none" -> "not_found"
      [] a.collateral = "unknown" -> "collateral_not_found"
      [] a.collateral = "foreign" -> "collateral_owner_mismatch"
      [] OTHER -> "ok"

CreditReasons(a) ==
    IF a.asked <= 0 THEN {}
    ELSE Flag(DscrFails(a), "dscr_below_min")
         \cup Flag(LtvFails(a), "ltv_above_max")
         \cup Flag(a.asked > CustomerCap, "exceeds_single_customer_cap")
         \cup Flag(a.cic >= BadDebt, "cic_bad_debt")

CreditMissing(a) ==
    Flag(a.asked > 0 /\ EffectiveType(a) = "secured" /\ a.collateral = "none",
         "collateral_id")
    \cup Flag(a.asked > 0 /\ a.collateral = "own" /\ a.docs_status # "complete",
              "collateral_docs")
    \cup Flag(MonthlyIncome(a) <= 0, "monthly_income")

\* credit_assess of a call that is not refused.
CreditVerdict(a) ==
    CASE CreditReasons(a) # {} -> "ineligible"
      [] CreditReasons(a) = {} /\ CreditMissing(a) # {} -> "needs_info"
      [] CreditReasons(a) = {} /\ CreditMissing(a) = {} /\ a.asked > 0 -> "eligible"
      [] OTHER -> "info_only"
=============================================================================
