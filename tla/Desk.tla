--------------------------------- MODULE Desk ---------------------------------
(***************************************************************************)
(* What a signed-in person finds on the desk: conversations and their      *)
(* groups, requests for approval, notifications, and the list of cases.    *)
(* The lists, the single reads and the changes are separate queries        *)
(* (auth/deps.py, tenancy.py, orch/store.py, orch/store_groups.py,         *)
(* orch/store_approvals.py, api/notifications.py, case_intake/read_model.py)*)
(* and are translated one by one.  A table is a set of records.            *)
(***************************************************************************)
EXTENDS Integers, FiniteSets

CONSTANTS NoTenant, DefaultTenant

-------------------------------------------------------------------------------
(* Who is asking *)

\* A token of before there were tenants gets the tenant of its user's row;
\* without such a row it is refused (NoTenant).
TenantOf(token, users) ==
    IF token.tenant # NoTenant THEN token.tenant
    ELSE IF \E u \in users : u.name = token.name
         THEN (CHOOSE u \in users : u.name = token.name).tenant
         ELSE NoTenant

Who(token, users) == [token EXCEPT !.tenant = TenantOf(token, users)]
Admitted(who)     == who.tenant # NoTenant
IsAdmin(who)      == who.role = "admin"

-------------------------------------------------------------------------------
(* Conversations and groups *)

CanAccess(conv, who) == conv.tenant = who.tenant /\ (IsAdmin(who) \/ conv.owner = who.name)

ListAll(convs, tenant)         == {c \in convs : c.tenant = tenant}
ListOwn(convs, name, tenant)   == {c \in convs : c.tenant = tenant /\ c.owner = name}
ListConversations(convs, who)  ==
    IF IsAdmin(who) THEN ListAll(convs, who.tenant) ELSE ListOwn(convs, who.name, who.tenant)

ListGroups(groups, who) ==
    {g \in groups : g.tenant = who.tenant /\ (IsAdmin(who) \/ g.owner = who.name)}

CanUseGroup(groups, id, who) ==
    \E g \in groups : g.id = id /\ g.tenant = who.tenant /\ (IsAdmin(who) \/ g.owner = who.name)

\* What a change of a group finds: the group renamed, a name that its owner
\* has already given to another (unique per tenant, owner and name), or nothing.
UpdateGroup(groups, id, who, name) ==
    LET found == {g \in groups : g.id = id /\ g.tenant = who.tenant}
        mine  == {g \in found : IsAdmin(who) \/ g.owner = who.name}
    IN IF mine = {} THEN "not_found"
       ELSE IF \E g \in mine, h \in groups :
                  h.id # id /\ h.tenant = g.tenant /\ h.owner = g.owner /\ h.title = name
            THEN "conflict" ELSE "renamed"

\* Ungroups the conversations and deletes the group, in one transaction.
DeleteGroupRows(groups, convs, id, who) ==
    IF \E g \in groups : g.id = id /\ g.tenant = who.tenant /\ (IsAdmin(who) \/ g.owner = who.name)
    THEN [groups |-> {g \in groups : g.id # id \/ g.tenant # who.tenant},
          convs  |-> {IF c.group = id /\ c.tenant = who.tenant THEN [c EXCEPT !.group = 0] ELSE c :
                         c \in convs}]
    ELSE [groups |-> groups, convs |-> convs]

-------------------------------------------------------------------------------
(* Requests for approval, notifications *)

\* A faulty ListPending: every bank's.
ListPendingOfAll(approvals, who) == {a \in approvals : a.status = "pending"}

ListPending(approvals, who) == {a \in approvals : a.status = "pending" /\ a.tenant = who.tenant}
GetApproval(approvals, id, who) == {a \in approvals : a.id = id /\ a.tenant = who.tenant}
Exists(approvals, id, who)      == \E a \in approvals : a.id = id /\ a.tenant = who.tenant

\* The status line of a decision: 200, 409 (decided already) or 404.
DecideAnswer(approvals, id, who) ==
    IF \E a \in approvals : a.id = id /\ a.tenant = who.tenant /\ a.status = "pending" THEN 200
    ELSE IF Exists(approvals, id, who) THEN 409 ELSE 404

\* Decided requests of the person's own conversations.
Notifications(approvals, convs, who) ==
    {a \in approvals :
        /\ a.status \in {"used", "approved", "rejected"}
        /\ \E c \in convs : c.id = a.conv /\ c.owner = who.name /\ c.tenant = who.tenant}

-------------------------------------------------------------------------------
(* The lane of a request: the one a manager is shown, the one the gate judges *)

NoOwner == 0

OwnerIn(table, id) == IF \E r \in table : r.id = id THEN (CHOOSE r \in table : r.id = id).owner ELSE NoOwner
Coalesce(a, b)     == IF a # NoOwner THEN a ELSE b

DisplayedOwner(asked, loans, applications, customers) ==
    LET ref == Coalesce(asked.loan, asked.application)
    IN Coalesce(OwnerIn(loans, asked.loan),
                Coalesce(OwnerIn(applications, asked.application),
                         IF ref \in customers THEN ref ELSE NoOwner))

JudgedOwner(asked, loans, applications) ==
    IF asked.action = "disburse" THEN OwnerIn(loans, asked.loan)
    ELSE IF asked.action = "ops_disburse" THEN OwnerIn(applications, asked.application) ELSE NoOwner

Assessed(assessments, owner, tenant) == {s \in assessments : s.owner = owner /\ s.tenant = tenant}
Last(mine, earlier) == {s \in mine : \A o \in mine \ {s} : <<o, s>> \in earlier}

\* The assessment a manager is shown the lane of: the latest by number ...
Displayed(asked, loans, applications, customers, assessments, tenant) ==
    LET mine == Assessed(assessments, DisplayedOwner(asked, loans, applications, customers), tenant)
    IN Last(mine, {p \in mine \X mine : p[1].id < p[2].id})

\* ... and the one the gate judges by: the latest by time, then number.
JudgedBy(asked, loans, applications, assessments, tenant) ==
    LET mine == Assessed(assessments, JudgedOwner(asked, loans, applications), tenant)
    IN Last(mine, {p \in mine \X mine :
                      p[1].at < p[2].at \/ (p[1].at = p[2].at /\ p[1].id < p[2].id)})

-------------------------------------------------------------------------------
(* The list of cases: links of other systems and the bank's own applications *)

AnyStatus == "any"
AnySource == "any"

\* What ORDER BY key DESC LIMIT, or a sort cut at limit, may give: the
\* highest keys, in whatever order it leaves rows of one key.
Cuts(rows, limit, key) ==
    {p \in SUBSET rows : /\ Cardinality(p) <= limit
                         /\ p = rows \/ Cardinality(p) = limit
                         /\ \A r \in p, s \in rows \ p : key[s] <= key[r]}

\* A row has a moment (at) and an ISO text of it, of which text is the place
\* among the texts: a link's reads in the offset of the database session, an
\* application's is its own column's or midnight UTC of a bare date.
ByTime(rows) == [r \in rows |-> r.at]
ByText(rows) == [r \in rows |-> r.text]

LegacyStatus(status) ==
    CASE status \in {"ready_to_disburse", "disbursed"} -> "ready_for_handover"
      [] status = "reviewing" -> "ready_for_preassessment"
      [] OTHER -> "needs_specialist"

\* Without a date an application reads as the epoch's.
Epoch == 0
LegacySummary(a) ==
    [id |-> a.id, status |-> LegacyStatus(a.status),
     at |-> IF a.dated THEN a.at ELSE Epoch, text |-> IF a.dated THEN a.text ELSE Epoch]

Matching(links, q) ==
    IF q.source = "internal_operations" THEN {}
    ELSE {e \in links : /\ e.tenant = q.tenant
                        /\ q.source \in {AnySource, e.source}
                        /\ q.status \in {AnyStatus, e.status}}

\* The database cuts the links to a page by their moments ...
External(links, q) == LET found == Matching(links, q) IN Cuts(found, q.limit, ByTime(found))

Legacy(applications, q) ==
    IF q.source \notin {AnySource, "internal_operations"} \/ q.tenant # DefaultTenant THEN {}
    ELSE {a \in {LegacySummary(a) : a \in applications} : q.status \in {AnyStatus, a.status}}

\* ... and the program the merged list by their texts.
Merged(external, legacy, limit) == Cuts(external \cup legacy, limit, ByText(external \cup legacy))

\* A faulty ListCases: half of the page is kept for each source.
ListCasesByHalves(links, applications, q) ==
    UNION {Merged(e, Legacy(applications, q), q.limit) :
              e \in External(links, [q EXCEPT !.limit = (@ + 1) \div 2])}

\* The pages a query may be answered with.
ListCases(links, applications, q) ==
    UNION {Merged(e, Legacy(applications, q), q.limit) : e \in External(links, q)}

GetCase(links, id, tenant) == {e \in links : e.id = id /\ e.tenant = tenant}
=============================================================================
