------------------------------ MODULE Relations -------------------------------
(***************************************************************************)
(* The two graph walks of roles/_retrieval/functions.py, each a recursive  *)
(* query in the code: the group of related customers whose debt counts     *)
(* together, and the documents a wiki page rests on.                       *)
(***************************************************************************)
EXTENDS Integers, FiniteSets, Functions

CONSTANTS
    SingleCap,   \* single_customer_cap_pct of the bank's equity
    GroupCap     \* related_group_cap_pct of it

ASSUME CapAssumption == SingleCap \in Nat /\ GroupCap \in Nat

\* A party_relations row is a pair; the join takes it in both directions.
\* A faulty Related: a relation is followed in one direction only.
RelatedForward(rel, n) == {r[2] : r \in {r \in rel : r[1] = n}}

Related(rel, n) ==
    {IF r[1] = n THEN r[2] ELSE r[1] : r \in {r \in rel : n \in {r[1], r[2]}}}

\* legal_related_exposure: two steps from the owner, without the owner.
Group(rel, owner) ==
    (Related(rel, owner) \cup UNION {Related(rel, n) : n \in Related(rel, owner)}) \ {owner}

\* MIN(lvl) of a member.
Level(rel, owner, n) == IF n \in Related(rel, owner) THEN 1 ELSE 2

Debt(debts, owners) == SumFunctionOnSet(debts, owners)

SingleOk(debts, owner, new)      == debts[owner] + new <= SingleCap
GroupOk(rel, debts, owner, new)  == Debt(debts, Group(rel, owner) \cup {owner}) + new <= GroupCap

-------------------------------------------------------------------------------

\* _int: a depth outside 1..3 is moved to the nearest bound.
Depth(d) == CASE d < 1 -> 1 [] d > 3 -> 3 [] OTHER -> d

\* wiki_related_docs: the links (pairs, directed) the walk takes from a page.
Walk(links, page, d) ==
    LET taken[i \in 1 .. 3] ==
            IF i = 1 THEN {l \in links : l[1] = page}
            ELSE taken[i - 1] \cup {l \in links : \E t \in taken[i - 1] : l[1] = t[2]}
    IN taken[Depth(d)]

Nodes(links, page, d) == {page} \cup UNION {{l[1], l[2]} : l \in Walk(links, page, d)}

\* inactive_in_graph: what the page rests on and is no longer in force.
Dead(links, page, d, active) == Nodes(links, page, d) \ active
=============================================================================
