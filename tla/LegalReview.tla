----------------------------- MODULE LegalReview ------------------------------
(***************************************************************************)
(* The legal expert's checks and the final classification of an            *)
(* application (roles/legal/functions.py): the lane green, yellow or red   *)
(* that goes into the assessments ledger and that the money gate reads     *)
(* later (Verdict).  Every check looks the facts up itself; the agent only *)
(* names the owner, the amount and the collateral.                         *)
(*                                                                         *)
(* To the fields of CreditAssessment an application adds                   *)
(*   docs             what is not valid among the required documents:      *)
(*                    nothing, optional or mandatory                       *)
(*   dispute, zoning  of the collateral, from collateral_legal             *)
(*   purpose          none, blank, not_restricted, conditional or banned   *)
(*   police           the police record, or NoRecord                       *)
(*   employment       the employment record, or NoRecord                   *)
(***************************************************************************)
EXTENDS CreditAssessment, Verdict

CONSTANT NoRecord   \* a look-up that finds no row

ASSUME RecordAssumption ==
    /\ NoRecord \notin [match : BOOLEAN, status : {"clean", "under_investigation", "criminal_record"},
                        blocked : BOOLEAN, age : Int]
    /\ NoRecord \notin [status : {"active", "expired"}, verified : Int]

NoYear == 0 - 1     \* the year of a conviction is not recorded

CicBlock    == Assumption("cic_block_min_group", 3)
ExpiryYears == Assumption("criminal_record_expiry_years", 7)
MismatchMax == Assumption("income_mismatch_max", 100)

\* The reds and yellows of one look-up: a set of records.
Criterion(key, level) == {[key |-> key, level |-> level]}

-------------------------------------------------------------------------------
(* legal_check_docs *)

CollateralFlags(a) ==
    IF a.collateral # "own" THEN {}
    ELSE Flag(a.docs_status # "complete", "collateral_docs")
         \cup Flag(a.dispute = "disputed", "collateral_disputed")
         \cup Flag(a.zoning = "planning_zone", "collateral_planning_zone")

DocsVerdict(a) ==
    CASE "collateral_disputed" \in CollateralFlags(a) -> "blocked"
      [] /\ "collateral_disputed" \notin CollateralFlags(a)
         /\ a.docs = "mandatory" \/ CollateralFlags(a) # {} -> "needs_docs"
      [] OTHER -> "clear"

DocsCriterion(a) ==
    CASE a.collateral = "foreign" -> Criterion("collateral_ownership", "red")
      [] a.collateral = "unknown" -> Criterion("docs", "yellow")
      [] OTHER -> Criterion("docs", CASE DocsVerdict(a) = "clear" -> "pass"
                                      [] DocsVerdict(a) = "needs_docs" -> "yellow"
                                      [] DocsVerdict(a) = "blocked" -> "red")

-------------------------------------------------------------------------------
(* legal_check_compliance: a purpose that is not given, or blank, is not   *)
(* looked up and leaves no criterion.                                      *)

PurposeCriterion(a) ==
    CASE a.purpose = "not_restricted" -> Criterion("purpose", "pass")
      [] a.purpose = "conditional" -> Criterion("purpose", "yellow")
      [] a.purpose = "banned" -> Criterion("purpose", "red")
      [] OTHER -> {}

-------------------------------------------------------------------------------
(* legal_check_police: a record has match (the three identity fields agree *)
(* with the bank's), status, blocked (its type is on the blocked list) and *)
(* age (years since the conviction, or NoYear).                            *)

PoliceFlags(r) ==
    Flag(~r.match, "identity_mismatch")
    \cup (CASE r.status = "under_investigation" -> {"under_investigation"}
            [] r.status = "criminal_record" ->
                 {CASE r.blocked -> "criminal_blocked"
                    [] ~r.blocked /\ r.age # NoYear /\ r.age >= ExpiryYears
                         -> "criminal_conditional_expired"
                    [] OTHER -> "criminal_recent"}
            [] OTHER -> {})

CriminalLevel(r) ==
    CASE r.status = "clean" -> "pass"
      [] /\ r.status # "clean"
         /\ PoliceFlags(r) \cap {"criminal_blocked", "under_investigation"} # {}
           -> "red"
      [] OTHER -> "yellow"

PoliceCriteria(a) ==
    IF a.police = NoRecord
    THEN Criterion("identity", "yellow") \cup Criterion("criminal", "yellow")
    ELSE Criterion("identity", IF a.police.match THEN "pass" ELSE "yellow")
         \cup Criterion("criminal", CriminalLevel(a.police))

-------------------------------------------------------------------------------
(* legal_verify_employment: a record has status and verified, the verified *)
(* income (0 when it is NULL).                                             *)

Distance(m, n) == IF m < n THEN n - m ELSE m - n

\* The mismatch is a share of the verified income, to a tenth of a percent;
\* without a verified income there is none.
IncomeMismatch(declared, r) ==
    /\ r.verified > 0
    /\ Thousandths(Distance(declared, r.verified), r.verified) > MismatchMax

EmploymentFlags(declared, r) ==
    Flag(r.status = "expired", "employment_expired")
    \cup Flag(IncomeMismatch(declared, r), "income_mismatch")

EmploymentCriterion(a) ==
    Criterion("employment",
              IF \/ a.kind = "business"
                 \/ a.employment = NoRecord
                 \/ EmploymentFlags(a.income, a.employment) # {}
              THEN "yellow" ELSE "pass")

-------------------------------------------------------------------------------
(* legal_classify_profile *)

CicCriterion(a) ==
    Criterion("cic", CASE a.cic = 0 -> "yellow"
                       [] a.cic # 0 /\ a.cic >= CicBlock -> "red"
                       [] a.cic < CicBlock /\ a.cic = 2 -> "yellow"
                       [] OTHER -> "pass")

\* credit_assess is called without the verified income and without a term.
AsAsked(a) == [a EXCEPT !.override = NoOverride, !.term = 0]

CreditCriterion(a) ==
    CASE CreditRefusal(AsAsked(a)) = "collateral_owner_mismatch" ->
             Criterion("collateral_ownership", "red")
      [] CreditRefusal(AsAsked(a)) \notin {"ok", "collateral_owner_mismatch"} ->
             Criterion("credit", "yellow")
      [] OTHER ->
             Criterion("credit",
                 CASE CreditVerdict(AsAsked(a)) = "eligible" -> "pass"
                   [] CreditVerdict(AsAsked(a)) = "ineligible" -> "red"
                   [] OTHER -> "yellow")

ClassifyRefusal(a) ==
    CASE a.asked <= 0 -> "invalid_param"
      [] a.asked > 0 /\ a.type \notin LoanTypes \cup {"none"} -> "bad_enum"
      [] a.asked > 0 /\ a.type \in LoanTypes \cup {"none"} /\ a.kind = "none" -> "not_found"
      [] OTHER -> "ok"

Criteria(a) ==
    PoliceCriteria(a) \cup CicCriterion(a) \cup EmploymentCriterion(a)
    \cup DocsCriterion(a) \cup PurposeCriterion(a) \cup CreditCriterion(a)

Levels(a) == {c.level : c \in Criteria(a)}

\* A faulty Lane: a single yellow is overlooked.
LaneLenient(a) ==
    CASE "red" \in Levels(a) -> "red"
      [] "red" \notin Levels(a) /\ Cardinality({c \in Criteria(a) : c.level = "yellow"}) > 1 -> "yellow"
      [] OTHER -> "green"

Lane(a) ==
    CASE "red" \in Levels(a) -> "red"
      [] "red" \notin Levels(a) /\ "yellow" \in Levels(a) -> "yellow"
      [] OTHER -> "green"

\* The decision, which the agent must quote.
Advice(a) ==
    CASE Lane(a) = "red" -> "reject_recommended"
      [] Lane(a) = "yellow" -> "human_review_required"
      [] Lane(a) = "green" /\ a.asked <= AutoMax -> "auto_approve_eligible"
      [] OTHER -> "human_approval_required"
=============================================================================
