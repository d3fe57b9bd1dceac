------------------------------ MODULE Catalogue -------------------------------
(***************************************************************************)
(* The product expert's matching (roles/products/functions.py): which      *)
(* products of the catalogue an owner may have, and which one is           *)
(* recommended.                                                            *)
(*                                                                         *)
(* An enquiry e has kind, income, cic (0 = no record), segment (NoSegment  *)
(* for a business and an unclassified customer), asked (0 = in general)    *)
(* and type ("none" = not given).  A product has id, type, status, rate,   *)
(* min, max, income_min (0 = none), cic_max (0 = none) and segment.        *)
(***************************************************************************)
EXTENDS Integers

CONSTANT NoSegment

ProductTypes == {"consumer", "secured", "business"}
Segments     == {"mass", "vip", "staff"}

AllowedTypes(e) ==
    LET own == IF e.kind = "business" THEN {"business"} ELSE {"consumer", "secured"}
    IN IF e.type = "none" THEN own ELSE own \cap {e.type}

SuggestRefusal(e) ==
    CASE e.asked < 0 -> "invalid_param"
      [] e.asked >= 0 /\ e.type \notin ProductTypes \cup {"none"} -> "bad_enum"
      [] e.asked >= 0 /\ e.type \in ProductTypes \cup {"none"} /\ e.kind = "none" -> "not_found"
      [] e.asked >= 0 /\ e.kind # "none" /\ e.type \in ProductTypes /\ AllowedTypes(e) = {}
           -> "invalid_param"
      [] OTHER -> "ok"

\* The reasons against product p, empty when the enquiry meets its terms.
AmountMisses(e, p)  == e.asked > 0 /\ (e.asked < p.min \/ e.asked > p.max)
IncomeMisses(e, p)  == p.income_min > 0 /\ e.income < p.income_min
CicMisses(e, p)     == p.cic_max > 0 /\ (e.cic = 0 \/ e.cic > p.cic_max)
SegmentMisses(e, p) == p.segment # NoSegment /\ p.segment # e.segment

Offered(e, products) ==
    {p \in products : p.status = "active" /\ p.type \in AllowedTypes(e)}

Eligible(e, products) ==
    {p \in Offered(e, products) :
        ~(AmountMisses(e, p) \/ IncomeMisses(e, p) \/ CicMisses(e, p) \/ SegmentMisses(e, p))}

Ineligible(e, products) == Offered(e, products) \ Eligible(e, products)

\* ORDER BY rate_annual, id.
Before(p, q) == p.rate < q.rate \/ (p.rate = q.rate /\ p.id <= q.id)

\* The first of the eligible ones: a set with one product, or none.
Recommended(e, products) ==
    {p \in Eligible(e, products) : \A q \in Eligible(e, products) : Before(p, q)}

\* product_list: the catalogue of a type and a segment, expired products too.
Listed(type, segment, products) ==
    {p \in products :
        /\ type = "none" \/ p.type = type
        /\ segment = NoSegment \/ p.segment \in {NoSegment, segment}}

ListRefusal(type, segment) ==
    IF type \notin ProductTypes \cup {"none"} \/ segment \notin Segments \cup {NoSegment}
    THEN "bad_enum" ELSE "ok"
=============================================================================
