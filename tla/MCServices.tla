------------------------------ MODULE MCServices ------------------------------
(***************************************************************************)
(* The services around the money gate, side by side: a behaviour picks one *)
(* scene and plays it with the component of that scene, while the others   *)
(* stay as they begin.  The scenes of pure calculations have no steps:     *)
(* each of their initial states is one input, in the variable case.        *)
(***************************************************************************)
EXTENDS LegalReview, Catalogue, Relations, Figures, StoreCatalogue, Desk, Identity,
        ShadowLedger, PromptCatalog, ConversationLife, EventStream

CONSTANTS
    Text,            \* an assumption whose value is not a number
    OtherTenant      \* a bank that is not the default one

VARIABLES scene, case

vars == <<scene, case, shadowVars, promptVars, lifeVars, streamVars, identityVars>>

-------------------------------------------------------------------------------
(* Values of the constants *)

ToyAssumptions ==
    [k \in {"dscr_min", "ltv_max", "single_customer_cap", "term_secured", "term_consumer"} |->
        CASE k = "dscr_min" -> 1200
          [] k = "ltv_max" -> Text
          [] k = "single_customer_cap" -> 10
          [] k = "term_secured" -> 3
          [] k = "term_consumer" -> 2]
ToyNumeric == 0 .. 2000
ToyRates   == [t \in LoanTypes |-> IF t = "secured" THEN 20 ELSE 10]

NoteSnapshots ==
    {[lane |-> "green", recommendation |-> "auto-eligible"],
     [lane |-> "red", recommendation |-> "reject-recommended"],
     [lane |-> "green", recommendation |-> "human-review"]}

SeedKinds  == [o \in People |-> IF o = "C001" THEN "customer" ELSE "none"]
SeedOwners == [r \in SeedRows |-> "C001"]

FileTexts == [k \in PromptKeys |-> "t0"]

-------------------------------------------------------------------------------
(* Inputs of the pure scenes *)

Thresholds == {0, 3, 5, 11}
Table == [what : {"table"}, action : Actions, amount : 0 .. 12 \cup {NoAmount},
          lane : Lanes, threshold : Thresholds]

CleanPolice == [match |-> TRUE, status |-> "clean", blocked |-> FALSE, age |-> NoYear]
Police(m, s, b, y) == [CleanPolice EXCEPT !.match = m, !.status = s, !.blocked = b, !.age = y]
PoliceRecords ==
    {Police(m, s, b, y) :
        m \in BOOLEAN, s \in {"clean", "under_investigation", "criminal_record"},
        b \in BOOLEAN, y \in {NoYear, 2, 8}}
PoliceCases ==
    {NoRecord} \cup {r \in PoliceRecords : r.status # "criminal_record" => ~r.blocked /\ r.age = NoYear}
Jobs == [status : {"active", "expired"}, verified : {0, 5, 8}]

Clean == [what |-> "application", kind |-> "customer", income |-> 8, override |-> NoOverride,
          paying |-> 0, asked |-> 6, type |-> "consumer", term |-> 0, collateral |-> "own",
          value |-> 20, docs_status |-> "complete", cic |-> 1, docs |-> "nothing",
          dispute |-> "none", zoning |-> "none", purpose |-> "none", police |-> CleanPolice,
          employment |-> [status |-> "active", verified |-> 8]]

\* The clean application with other figures, other checks or other papers.
Asking(n, t, i, p, c, v, g, k) ==
    [Clean EXCEPT !.asked = n, !.type = t, !.income = i, !.paying = p, !.collateral = c,
                  !.value = v, !.cic = g, !.kind = k]
Checked(p, e, d, u) == [Clean EXCEPT !.police = p, !.employment = e, !.docs = d, !.purpose = u]
OnPaper(s, d, q, z, u) ==
    [Clean EXCEPT !.docs_status = s, !.docs = d, !.dispute = q, !.zoning = z, !.purpose = u]

MoneyCases ==
    {Asking(n, t, i, p, c, v, g, k) :
        n \in {3, 6, 12}, t \in {"none", "consumer", "secured"}, i \in {0, 4, 8}, p \in {0, 2},
        c \in {"none", "unknown", "foreign", "own"}, v \in {0, 6, 20}, g \in 0 .. 3,
        k \in {"customer", "business"}}

CheckCases ==
    {Checked(p, e, d, u) :
        p \in PoliceCases, e \in Jobs \cup {NoRecord},
        d \in {"nothing", "optional", "mandatory"},
        u \in {"none", "not_restricted", "conditional", "banned"}}
    \cup
    {OnPaper(s, d, q, z, u) :
        s \in {"complete", "incomplete"}, d \in {"nothing", "optional", "mandatory"},
        q \in {"none", "disputed"}, z \in {"none", "planning_zone"},
        u \in {"none", "not_restricted", "conditional", "banned"}}

Owners == 1 .. 4
Pairs  == {p \in Owners \X Owners : p[1] < p[2]} \cup {<<3, 1>>, <<4, 2>>}
Graphs == [what : {"graph"}, edges : SUBSET Pairs]

ToyDebts == [o \in Owners |-> 2]

StoreOrder == <<"core", "cache", "vector">>
Definitions ==
    {[driver |-> "postgres", target |-> "none", capabilities |-> {"sql"}, required |-> q,
      configured |-> c, adapter |-> a] : q \in BOOLEAN, c \in BOOLEAN, a \in BOOLEAN}
    \cup
    {[driver |-> "alias", target |-> t, capabilities |-> {t}, required |-> q,
      configured |-> FALSE, adapter |-> FALSE] : t \in {"none", "core", "cache", "lost"}, q \in BOOLEAN}
Stores == [what : {"stores"}, cat : [{"core", "cache", "vector"} -> Definitions]]

\* A row of one of three tables, and what is committed after a statement saw it:
\* an approval is used or its execution fails, and another row is added.
RowOf(i) == [id : {i}, at : 0 .. 5, status : {"approved", "rejected"}, by : {"auto-rule"}, lane : {"none"}]
            \cup [id : {i}, at : 0 .. 5, status : {"none"}, by : {"none"}, lane : {"none", "green"}]
Executed(r) == IF r.status = "approved" THEN {"approved", "used", "exec_failed"} ELSE {r.status}
Rows == UNION {{[what |-> "rows", seen |-> {x}, now |-> {[x EXCEPT !.status = s], y}] :
                   s \in Executed(x), y \in RowOf(2)} : x \in RowOf(1)}
TurnOf(i) == [id : {i}, conv : {i}, at : 0 .. 5, role : {"main", "credit"}, model : {"haiku", NoModel},
              cost : 1 .. 2]
Turns == {[what |-> "turns", seen |-> {t \in {x, y} : t.id < n}, now |-> {x, y}] :
             x \in TurnOf(1), y \in TurnOf(2), n \in 1 .. 3}
Costs == [what : {"costs"}, costs : [1 .. 5 -> {0, 1, 3, 9}]]

\* Two people of the default bank, one of them its manager, and one of another.
Users  == {[name |-> "ann", tenant |-> DefaultTenant], [name |-> "boss", tenant |-> DefaultTenant],
           [name |-> "zoe", tenant |-> OtherTenant]}
Tokens == {[name |-> u.name, role |-> IF u.name = "boss" THEN "admin" ELSE "user", tenant |-> t] :
              u \in Users, t \in {NoTenant, DefaultTenant, OtherTenant}}
RealTokens == {t \in Tokens : t.tenant \in {NoTenant, TenantOf([t EXCEPT !.tenant = NoTenant], Users)}}
              \cup {[name |-> "gone", role |-> "user", tenant |-> NoTenant]}
By(i, u)   == [id |-> i, owner |-> u.name, tenant |-> u.tenant]
ConvsOf(u, v, g) ==
    {[id |-> 1, owner |-> u.name, tenant |-> u.tenant, group |-> g],
     [id |-> 2, owner |-> v.name, tenant |-> v.tenant, group |-> 0]}
GroupsOf(u, w) ==
    {[id |-> 1, owner |-> u.name, tenant |-> u.tenant, title |-> "A"],
     [id |-> 2, owner |-> w.name, tenant |-> w.tenant, title |-> "B"]}
ApprovalsOf(u, v, s, q) ==
    {[id |-> 1, conv |-> 1, tenant |-> u.tenant, status |-> s],
     [id |-> 2, conv |-> 2, tenant |-> v.tenant, status |-> q]}
Desks ==
    {[what |-> "desk", convs |-> ConvsOf(u, v, g), groups |-> GroupsOf(u, w),
      approvals |-> ApprovalsOf(u, v, s, q)] :
        u \in Users, v \in Users, w \in Users, g \in {0, 1},
        s \in {"pending", "used", "exec_failed"}, q \in {"pending", "rejected"}}

Asked == {[action |-> "disburse", loan |-> n, application |-> 0] : n \in {0, 1, 3}}
         \cup {[action |-> "ops_disburse", loan |-> 0, application |-> n] : n \in {0, 2, 3}}
Assessments(i) == [id : {i}, at : 1 .. 2, owner : {7, 8}, tenant : {DefaultTenant, OtherTenant},
                   lane : {"green", "red"}]
Judged == {[what |-> "lane", asked |-> a, assessments |-> {x, y}] :
              a \in Asked, x \in Assessments(1), y \in Assessments(2)}
ToyLoans == {[id |-> 1, owner |-> 7]}
ToyApplications == {[id |-> 2, owner |-> 8]}

\* A session so many hours ahead of UTC writes its links' texts so much later.
Link(i, at, t, s, ahead) == [id |-> i, at |-> at, text |-> at + ahead, tenant |-> t, status |-> s,
                             source |-> IF i = 1 THEN "core" ELSE "portal"]
LinksOf(t1, t2, s1, s2, s3, ahead) ==
    {Link(1, 1, t1, s1, ahead), Link(2, 3, t2, s2, ahead),
     Link(3, 5, OtherTenant, s3, ahead), Link(4, 6, t1, s3, ahead)}
\* The second application has a bare date, or none.
OwnOf(p1, p2, dated) ==
    {[id |-> 5, at |-> 2, text |-> 2, dated |-> TRUE, status |-> p1],
     [id |-> 6, at |-> 4, text |-> 3, dated |-> dated, status |-> p2]}
LinkSets ==
    {LinksOf(t1, t2, s1, s2, s3, ahead) :
        t1 \in {DefaultTenant, OtherTenant}, t2 \in {DefaultTenant, OtherTenant},
        s1 \in {"received", "ready_for_handover"}, s2 \in {"received", "ready_for_handover"},
        s3 \in {"received", "needs_specialist"}, ahead \in {0, 1, 4}}
OwnSets ==
    {OwnOf(p1, p2, dated) :
        p1 \in {"disbursed", "reviewing"}, p2 \in {"disbursed", "rejected"}, dated \in BOOLEAN}
CaseLists == {[what |-> "cases", limit |-> n, links |-> l, applications |-> a] :
                 n \in 1 .. 3, l \in LinkSets, a \in OwnSets}

PureCases == Table \cup MoneyCases \cup CheckCases \cup Graphs \cup Stores \cup Rows \cup Turns \cup Costs
             \cup Desks \cup Judged \cup CaseLists
NoCase == [what |-> "none"]

-------------------------------------------------------------------------------

IdentityIdle ==
    /\ profile = [o \in People |-> {}] /\ party = PartiesOf(profile)
    /\ owned = [r \in OwnedRows |-> Gone] /\ txn = [s \in Sessions |-> NoTxn]

Init ==
    /\ scene \in {"pure", "pages", "sums", "versions", "cache", "life", "stream", "owners"}
    /\ case \in IF scene = "pure" THEN PureCases ELSE {NoCase}
    /\ ShadowInit /\ PromptInit /\ LifeInit /\ StreamInit
    /\ IF scene = "owners" THEN IdentityInit ELSE IdentityIdle
    /\ scene \notin {"versions", "cache"} => known = {}
    /\ scene # "life" => conv.there = "never" /\ groups = [g \in Groups |-> "absent"]

\* The ledger is read by a browser that pages, with a lane or a first day, or
\* by one that adds up and sees at most SumsBound decisions.
SumsBound == 2
Pages == /\ ShadowNext
         /\ summary' = summary
         /\ reader'.filter.to = NoBound
         /\ reader'.filter.lane = "any" \/ reader'.filter.from = NoBound
Sums  == /\ ShadowNext
         /\ reader' = reader
         /\ Cardinality(deciding') + Cardinality(reviews') <= SumsBound

\* The prompts are written with nobody reading them, administrators working on
\* the first key; or one administrator writes the first key of prompts that
\* were synchronised before, while they are read.
FirstKey == {writer'[w].key : w \in Admins} \subseteq {0, 1}
Versions == PromptNext /\ FirstKey /\ UNCHANGED <<clock, loading>>
Cache    == /\ PromptNext
            /\ FirstKey
            /\ Cardinality({w \in Writers : writer'[w] # Closed}) <= 1
            /\ \A r \in Readers : loading'[r].key <= 1

Next ==
    /\ \/ scene = "pages" /\ Pages /\ UNCHANGED <<promptVars, lifeVars, streamVars, identityVars>>
       \/ scene = "sums" /\ Sums /\ UNCHANGED <<promptVars, lifeVars, streamVars, identityVars>>
       \/ scene = "versions" /\ Versions /\ UNCHANGED <<shadowVars, lifeVars, streamVars, identityVars>>
       \/ scene = "cache" /\ Cache /\ UNCHANGED <<shadowVars, lifeVars, streamVars, identityVars>>
       \/ scene = "life" /\ LifeNext /\ UNCHANGED <<shadowVars, promptVars, streamVars, identityVars>>
       \/ scene = "stream" /\ StreamNext /\ UNCHANGED <<shadowVars, promptVars, lifeVars, identityVars>>
       \/ scene = "owners" /\ IdentityNext /\ UNCHANGED <<shadowVars, promptVars, lifeVars, streamVars>>
    /\ UNCHANGED <<scene, case>>

Spec == Init /\ [][Next]_vars

StreamSpec == Init /\ scene = "stream" /\ [][Next]_vars

-------------------------------------------------------------------------------
(* The money gate's table *)

\* A green lane speaks for every check at once.  The income check is silent
\* where no income was verified: such a record passes it, although the tool that
\* reads it answers that the income is not within the threshold.
IsClean(a) ==
    /\ a.kind = "customer"
    /\ a.cic = 1
    /\ CreditVerdict(AsAsked(a)) = "eligible"
    /\ a.collateral \in {"none", "own"}
    /\ a.docs # "mandatory"
    /\ a.police # NoRecord /\ a.police.match /\ a.police.status = "clean"
    /\ a.employment # NoRecord /\ a.employment.status # "expired"
    /\ \/ a.employment.verified = 0
       \/ Thousandths(Distance(a.income, a.employment.verified), a.employment.verified) <= MismatchMax
    /\ a.purpose \notin {"conditional", "banned"}

\* What the gate makes of each advice of the legal expert, under a brake that
\* is not closed: an application that is eligible is paid by rule, one that
\* should be rejected never is, and one for a person is paid by rule all the
\* same when it is below the threshold, since the first tier stops at a red
\* lane only.  That holds of every loan to a business, which the expert always
\* leaves to a person and of which roles/legal/functions.py:436 says that it
\* is never paid by rule.
FollowsAdvice(a, t) ==
    Decision("disburse", a.asked, Lane(a), t) = "auto"
    <=> /\ t > 0
        /\ CASE Advice(a) = "auto_approve_eligible" -> TRUE
             [] Advice(a) = "reject_recommended" -> FALSE
             [] OTHER -> a.asked < t

\* The gate and the two that advise it.  The expert calls an application
\* eligible only if every check that had a figure is clean, and never one of a
\* business; the gate treats the four advices as FollowsAdvice says; and money
\* runs by rule only where the snapshot shown to a person would have called it
\* auto-eligible, and a person is asked about an auto-eligible case only when
\* the brake is closed (legal_classify_profile, gated_decision).
DecisionMatchesAdvice ==
    /\ case.what = "application" =>
          /\ ClassifyRefusal(case) = "ok" /\ Lane(case) = "green" => IsClean(case)
          /\ \A t \in Thresholds : FollowsAdvice(case, t)
    /\ case.what = "table" =>
          LET chosen  == Decision(case.action, case.amount, case.lane, case.threshold)
              advised == Recommendation(case.action, case.amount, case.lane, case.threshold)
          IN /\ chosen = "auto" => advised = "auto-eligible"
             /\ advised = "auto-eligible" /\ chosen = "human" => case.threshold = 0

-------------------------------------------------------------------------------
(* From the facts on an application to the gate *)

Grave == {r \in PoliceCases \ {NoRecord} : r.blocked \/ r.status = "under_investigation"}

\* Facts that are there and that nobody would call better than the given one.
WorsePolice(r) ==
    CASE r = NoRecord -> Grave
      [] r = CleanPolice -> PoliceCases
      [] OTHER -> Grave \cup {[r EXCEPT !.match = FALSE]}
WorseJob(e)     == IF e = NoRecord THEN {} ELSE {NoRecord, [e EXCEPT !.status = "expired"]}
WorseCic(g)     == CASE g = 1 -> {0, 2, 3} [] g \in {0, 2} -> {3} [] g = 3 -> {}
WorseDocs(d)    == CASE d = "nothing" -> {"optional", "mandatory"} [] OTHER -> {"mandatory"}
WorsePurpose(u) == CASE u = "not_restricted" -> {"conditional", "banned"} [] OTHER -> {"banned"}

\* Applications that differ from a in one fact, for the worse.  The verified
\* income has no better and worse: it is compared with what the owner declares.
Worse(a) ==
    {[a EXCEPT !.paying = @ + 2], [a EXCEPT !.asked = @ + 1], [a EXCEPT !.docs_status = "incomplete"],
     [a EXCEPT !.dispute = "disputed"], [a EXCEPT !.zoning = "planning_zone"],
     [a EXCEPT !.value = IF @ = 20 THEN 6 ELSE @],
     [a EXCEPT !.collateral = IF @ = "own" THEN "foreign" ELSE @]}
    \cup {[a EXCEPT !.cic = g] : g \in WorseCic(a.cic)}
    \cup {[a EXCEPT !.police = r] : r \in WorsePolice(a.police)}
    \cup {[a EXCEPT !.employment = e] : e \in WorseJob(a.employment)}
    \cup {[a EXCEPT !.docs = d] : d \in WorseDocs(a.docs)}
    \cup {[a EXCEPT !.purpose = u] : u \in WorsePurpose(a.purpose)}

Rank(level) == CASE level \in {"green", "eligible", "info_only"} -> 2
                 [] level \in {"none", "yellow", "needs_info"} -> 1
                 [] level \in {"red", "ineligible"} -> 0
CreditRank(a) == IF CreditRefusal(a) = "ok" THEN Rank(CreditVerdict(a)) ELSE 0

Products ==
    {[id |-> 1, type |-> "consumer", status |-> "active", rate |-> 9, min |-> 2, max |-> 20,
      income_min |-> 5, cic_max |-> 2, segment |-> NoSegment],
     [id |-> 2, type |-> "secured", status |-> "active", rate |-> 7, min |-> 5, max |-> 50,
      income_min |-> 0, cic_max |-> 1, segment |-> "mass"],
     [id |-> 3, type |-> "business", status |-> "active", rate |-> 7, min |-> 5, max |-> 50,
      income_min |-> 4, cic_max |-> 0, segment |-> NoSegment]}
Enquiry(a) == [kind |-> a.kind, income |-> a.income, cic |-> a.cic, asked |-> a.asked, type |-> a.type,
               segment |-> IF a.kind = "customer" THEN "mass" ELSE NoSegment]

\* Applications of which the bank lacks a record, which the check of that record
\* objects to; and the two that lack a figure of a record, which the check of
\* that figure takes for no objection.
WithoutRecord(a) ==
    {[a EXCEPT !.police = NoRecord], [a EXCEPT !.employment = NoRecord], [a EXCEPT !.cic = 0]}
Unverified(a) == IF a.employment = NoRecord THEN a ELSE [a EXCEPT !.employment.verified = 0]
Unvalued(a)   == [a EXCEPT !.value = 0]

Objections(a) == {c \in Criteria(a) : c.level # "pass"}

\* What is absent silences the check it belongs to and no other.  Without a
\* record the lane is never green.  Without a verified income the lane is better
\* than it was exactly where the mismatch of the incomes was the only objection,
\* and then it is green; without a value of the collateral the credit verdict is
\* better exactly where the loan-to-value ratio was the only reason against the
\* loan, and the lane where that verdict was the only red.
AbsentSilencesItsCheck(a) ==
    /\ \A b \in WithoutRecord(a) : Lane(b) # "green"
    /\ LET b == Unverified(a)
       IN Rank(Lane(b)) > Rank(Lane(a))
          <=> /\ Objections(a) = Criterion("employment", "yellow")
              /\ a.kind = "customer" /\ a.employment # NoRecord
              /\ EmploymentFlags(a.income, a.employment) = {"income_mismatch"}
    /\ LET b    == Unvalued(a)
           only == CreditRefusal(a) = "ok" /\ CreditReasons(a) = {"ltv_above_max"}
       IN /\ CreditRank(b) > CreditRank(a) <=> only
          /\ Rank(Lane(b)) > Rank(Lane(a))
             <=> only /\ {c \in Criteria(a) : c.level = "red"} = Criterion("credit", "red")

\* No fact that is there and is worse for the bank helps: not to a better lane
\* or credit verdict, not to a product the owner could not have before, and
\* through the lane never from a person's decision to an automatic one, under
\* any threshold or a lower one; nor does a larger amount.  A fact that is
\* absent may help, by silencing its own check and no other, which takes the
\* lane to green, and the money gate to paying by rule, where nobody verified
\* the income (legal_classify_profile, credit_assess, product_suggest,
\* gated_decision).
WorseNeverHelps ==
    /\ case.what = "table" /\ case.amount # NoAmount =>
          \A n \in case.amount .. 12, l \in Lanes, t \in Thresholds :
              /\ Rank(l) <= Rank(case.lane) /\ t <= case.threshold
              /\ Decision(case.action, n, l, t) = "auto"
              => Decision(case.action, case.amount, case.lane, case.threshold) = "auto"
    /\ case.what = "application" =>
          LET lane   == Lane(case)
              credit == CreditRank(case)
              mine   == Eligible(Enquiry(case), Products)
          IN /\ \A b \in Worse(case) :
                   /\ CreditRank(b) <= credit
                   /\ b.asked = case.asked => Eligible(Enquiry(b), Products) \subseteq mine
                   /\ LET worse == Lane(b) IN
                         /\ Rank(worse) <= Rank(lane)
                         /\ \A t, u \in Thresholds :
                               u <= t /\ Decision("disburse", b.asked, worse, u) = "auto"
                               => Decision("disburse", case.asked, lane, t) = "auto"
             /\ AbsentSilencesItsCheck(case)
             /\ CreditRank([case EXCEPT !.income = IF @ > 4 THEN 4 ELSE 0]) <= credit

-------------------------------------------------------------------------------
(* Walks over graphs *)

\* Pages reached from a set in exactly i steps or fewer, one link at a time.
Reached(links, from, i) ==
    LET near[j \in 0 .. i] ==
            IF j = 0 THEN from ELSE near[j - 1] \cup {l[2] : l \in {l \in links : l[1] \in near[j - 1]}}
    IN near[i]

Symmetric(links) == links \cup {<<l[2], l[1]>> : l \in links}

\* The three walks of the code find what there is to find: the group of an
\* owner is everyone within two relations in either direction, so that two
\* members count each other, and a relation less never breaks a cap that held;
\* and a document graph is what the links reach within the depth
\* (legal_related_exposure, wiki_related_docs).  A registry that was accepted
\* leads every name to a store of the file, an alias to the one of its target,
\* and answers with it just where its adapter can be made; it asks nobody but
\* the first name that has a capability; and its health check reaches the store
\* behind each required name or fails, never for want of an address unless a
\* required alias leads to an optional store (DataStoreRegistry).
WalksReach ==
    /\ case.what = "graph" =>
          /\ \A o \in Owners : Group(case.edges, o) = Reached(Symmetric(case.edges), {o}, 2) \ {o}
          /\ \A o, p \in Owners : p \in Group(case.edges, o) => o \in Group(case.edges, p)
          /\ \A o \in Owners : \A p \in Group(case.edges, o) :
                p \in Reached(Symmetric(case.edges), {o}, Level(case.edges, o, p))
          /\ \A o \in Owners, pair \in case.edges :
                GroupOk(case.edges, ToyDebts, o, 3) => GroupOk(case.edges \ {pair}, ToyDebts, o, 3)
          /\ \A o \in Owners, d \in 0 .. 4 :
                Nodes(case.edges, o, d) = Reached(case.edges, {o}, Depth(d))
    /\ case.what = "stores" /\ ~CatalogueRefused(case.cat) =>
          LET cat  == case.cat
              real == {name \in DOMAIN cat : ~IsAlias(cat, name)}
          IN /\ \A name \in DOMAIN cat :
                   /\ End(cat, name) \in real
                   /\ name \in real => Store(cat, name) = {r \in {name} : CanBeMade(cat[r])}
                   /\ name \notin real => Store(cat, name) = Store(cat, cat[name].target)
             /\ \A c \in {"sql", "core", "cache", "none"} :
                   LET able == {i \in DOMAIN StoreOrder : c \in cat[StoreOrder[i]].capabilities}
                   IN \/ able = {} /\ Provider(cat, StoreOrder, c) = {}
                      \/ \E i \in able : /\ \A j \in able : i <= j
                                         /\ Provider(cat, StoreOrder, c) = Store(cat, StoreOrder[i])
             /\ ~HealthFails(cat) =>
                   HealthChecked(cat, StoreOrder) = {End(cat, name) : name \in Required(cat)}
             /\ HealthFails(cat) =>
                   \E name \in Required(cat) :
                      \/ ~cat[End(cat, name)].adapter
                      \/ IsAlias(cat, name) /\ ~cat[End(cat, name)].required

-------------------------------------------------------------------------------
(* Figures *)

\* What is shown together adds up, as far as READ COMMITTED lets it: the columns
\* of a sparkline are those of the rows its own statement sees, so they differ
\* from the figure beside them by exactly the rows that were committed, executed
\* or failed between the two statements; and so do the models (with the turns
\* that name none) and the roles from the total.  The points of a trend, another
\* request's, add up to what it sees; a delta compares two windows that touch.
\* Among fewer than six conversations none is ever an anomaly (_stats_sync,
\* _sparks, _cost_sync, _trend_sync).
FiguresAddUp ==
    /\ case.what = "rows" =>
          /\ \A key \in SparkKeys :
                LET figure == Shown(key, case.seen, 1, 5)
                    column == Shown(key, case.now, 1, 5)
                IN SumFunction(Spark(key, case.now, 1, 5)) + Cardinality(figure \ column)
                      = StatOf(key, case.seen, 1, 5) + Cardinality(column \ figure)
          /\ Cardinality(InWindow(case.now, 1, 5))
                = 2 * Cardinality(InWindow(case.now, 1, 3)) + Delta(case.now, 3, 5)
    /\ case.what = "turns" =>
          /\ \A parts \in {SumFunction(ByRole(case.now)),
                            SumFunction(ByModel(case.now)) + Cost({t \in case.now : t.model = NoModel})} :
                parts + Cost(case.seen \ case.now) = Cost(case.seen) + Cost(case.now \ case.seen)
          /\ \A group \in {"role", "model"} : SumFunction(Trend(case.now, group)) = Cost(case.now)
          /\ DeltaPct(case.now, 3, 5) = {} <=> InWindow(case.now, 1, 3) = {}
          /\ Anomalies(case.now) = {}
    /\ case.what = "costs" => \A k \in DOMAIN case.costs : ~IsAnomaly(case.costs, k)

-------------------------------------------------------------------------------
(* The desk *)

\* Lists, single reads and changes agree on what belongs to whom: a person is
\* listed the conversations they may open and the groups they may use, rename
\* and delete; a notification leads to a conversation they may open; a decision
\* says "decided already" only of a request that can be read, and what waits
\* can be decided; deleting a group leaves no conversation in it and touches
\* nobody else's; an old session sees what a new one does; and none of it is
\* another bank's (can_access_conv, store_groups, store_approvals, _derive).
AgreeFor(token, users, desk, name) ==
    LET who     == Who(token, users)
        mine    == ListConversations(desk.convs, who)
        usable  == ListGroups(desk.groups, who)
        waiting == ListPending(desk.approvals, who)
        told    == Notifications(desk.approvals, desk.convs, who)
    IN Admitted(who) =>
        /\ mine = {c \in desk.convs : CanAccess(c, who)}
        /\ \A g \in desk.groups :
              LET left == DeleteGroupRows(desk.groups, desk.convs, g.id, who)
              IN /\ g \in usable <=> CanUseGroup(desk.groups, g.id, who)
                 /\ g \in usable <=> UpdateGroup(desk.groups, g.id, who, name) = "renamed"
                 /\ g \in usable <=> left.groups # desk.groups
                 /\ \A c \in left.convs : c.group # 0 => \E h \in left.groups : h.id = c.group
                 /\ ListConversations(left.convs, who) = mine
                    \/ \E c \in mine : c.group = g.id
        /\ \A a \in told : \E c \in mine : c.id = a.conv
        /\ \A a \in desk.approvals :
              LET read == GetApproval(desk.approvals, a.id, who)
              IN /\ a \in waiting => a \in read
                 /\ DecideAnswer(desk.approvals, a.id, who) =
                       IF a \in waiting THEN 200 ELSE IF a \in read THEN 409 ELSE 404
                 /\ IsAdmin(who) /\ a \in read => \E c \in mine : c.id = a.conv
        /\ \A x \in mine \cup usable \cup waiting \cup told : x.tenant = who.tenant
        /\ Who([token EXCEPT !.tenant = who.tenant], users) = who

ListsAgree == case.what = "desk" => \A token \in RealTokens : AgreeFor(token, Users, case, "C")

\* A page of a query is full or holds all that the query finds with room for
\* many.  A row newer than one of the page is missing only if some row no
\* older than it, itself missing, reads no later than that one of the page.
PageIsCurrent(links, applications, q, many) ==
    LET found == UNION ListCases(links, applications, [q EXCEPT !.limit = many])
    IN /\ ListCases(links, applications, q) # {}
       /\ \A page \in ListCases(links, applications, q) :
             /\ page \subseteq found /\ (page = found \/ Cardinality(page) = q.limit)
             /\ \A r \in page, s \in found \ page :
                   s.at <= r.at \/ \E e \in found \ page : s.at <= e.at /\ e.text <= r.text
             /\ \A r \in page \cap links : GetCase(links, r.id, q.tenant) = {r}

LaneIsCurrent(asked, loans, applications, customers, assessments, tenant) ==
    LET displayed == Displayed(asked, loans, applications, customers, assessments, tenant)
        judged    == JudgedBy(asked, loans, applications, assessments, tenant)
    IN /\ displayed = {} <=> judged = {}
       /\ \A d \in displayed, j \in judged : d = j \/ (j.id < d.id /\ d.at < j.at)

\* What the desk shows is as current as the texts and the numbers it is sorted
\* by.  A page of cases is full or complete, whichever systems its rows come
\* from; it passes over a row newer than one it shows only where texts of
\* different offsets, or a bare or missing date, read against their moments;
\* and every link on it can be opened.  The lane a manager is shown with a
\* request is of the assessment the gate judges it by, unless that one was
\* overtaken: the one shown has a higher number and an earlier date
\* (list_cases, get_case, _ENRICH_SELECT, latest_verdict_for_action).
DeskIsCurrent ==
    /\ case.what = "cases" =>
          \A t \in {DefaultTenant, OtherTenant}, source \in {AnySource, "core", "internal_operations"},
             status \in {AnyStatus, "received", "ready_for_handover", "needs_specialist"} :
              PageIsCurrent(case.links, case.applications,
                            [tenant |-> t, source |-> source, status |-> status, limit |-> case.limit], 6)
    /\ case.what = "lane" =>
          \A t \in {DefaultTenant, OtherTenant} :
              LaneIsCurrent(case.asked, ToyLoans, ToyApplications, {7, 8}, case.assessments, t)
=============================================================================
