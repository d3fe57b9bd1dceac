----------------------------- MODULE ShadowLedger -----------------------------
(***************************************************************************)
(* The shadow ledger (orch/store_shadow.py): decisions of administrators   *)
(* write one review each, in their own transaction; a reader pages through *)
(* the mismatches with a cursor, and another one adds the ledger up in     *)
(* three statements.  A review is dated by the start of its transaction    *)
(* and seen from its commit, so reviews do not appear in the order of      *)
(* their dates.                                                            *)
(*                                                                         *)
(* Approval ids are natural numbers with their order; a day is a time.     *)
(***************************************************************************)
EXTENDS Integers, Sequences, Verdict, FiniteSets, FiniteSetsExt

CONSTANTS
    Approvals,      \* ids of approvals a person may decide
    Snapshots,      \* what the gate may have noted: [lane, recommendation]
    PageLimit,      \* rows of a page
    MaxNow          \* bound: the clock stops here

ASSUME ShadowAssumption ==
    /\ Approvals \subseteq Nat
    /\ PageLimit \in Nat \ {0}

VARIABLES
    now,        \* the database's clock
    deciding,   \* decisions updated and not committed: [id, at]
    reviews,    \* shadow_reviews
    reader,     \* a browser that pages: [filter, cursor, told, known, pc]
    summary     \* a browser that adds up: [pc, total, lanes, days]

shadowVars == <<now, deciding, reviews, reader, summary>>

NoCursor == [at |-> 0 - 1, id |-> 0 - 1]
NoBound  == 0 - 1

\* from inclusive, to exclusive; NoBound leaves a side open.
Filters ==
    {f \in [from : {NoBound, 1}, to : {NoBound, MaxNow}, lane : {"any", "green"}] :
        f.from # NoBound /\ f.to # NoBound => f.from < f.to}

\* WHERE match IS FALSE and the clauses of the filter.
Mismatches(rows, f) ==
    {r \in rows :
        /\ Comparable(r.recommendation)
        /\ ~Match(r.recommendation, r.decision)
        /\ f.from # NoBound => r.at >= f.from
        /\ f.to # NoBound => r.at < f.to
        /\ f.lane # "any" => r.lane = f.lane}

\* (r.at, r.id) < (s.at, s.id)
Earlier(r, s) == r.at < s.at \/ (r.at = s.at /\ r.id < s.id)

\* A faulty After: rows of the anchor's own moment are skipped.
AfterMoment(rows, cursor) ==
    IF cursor = NoCursor THEN rows ELSE {r \in rows : r.at < cursor.at}

After(rows, cursor) ==
    IF cursor = NoCursor THEN rows ELSE {r \in rows : Earlier(r, cursor)}

\* ORDER BY decided_at DESC, approval_id DESC LIMIT n
FirstOf(rows, n) == {r \in rows : Cardinality({s \in rows : Earlier(r, s)}) < n}

Anchor(page) == CHOOSE r \in page : \A s \in page \ {r} : Earlier(r, s)

\* _counts of a set of rows.
Counts(rows) ==
    [total      |-> Cardinality(rows),
     comparable |-> Cardinality({r \in rows : Comparable(r.recommendation)}),
     matched    |-> Cardinality({r \in rows : Comparable(r.recommendation)
                                              /\ Match(r.recommendation, r.decision)})]

-------------------------------------------------------------------------------

ShadowInit ==
    /\ now = 0
    /\ deciding = {}
    /\ reviews = {}
    /\ reader = [filter |-> [from |-> NoBound, to |-> NoBound, lane |-> "any"],
                 cursor |-> NoCursor, told |-> <<>>, known |-> {}, pc |-> "idle"]
    /\ summary = [pc |-> "total", total |-> Counts({}), lanes |-> {}, days |-> {}]

Tick ==
    /\ now < MaxNow
    /\ now' = now + 1
    /\ UNCHANGED <<deciding, reviews, reader, summary>>

\* UPDATE approvals ... WHERE status='pending': the second of two decisions
\* waits for the first and then finds the approval decided.
StartDecision(a) ==
    /\ a \notin {d.id : d \in deciding} \cup {r.id : r \in reviews}
    /\ deciding' = deciding \cup {[id |-> a, at |-> now]}
    /\ UNCHANGED <<now, reviews, reader, summary>>

\* insert_review and the commit of the decision.
Commit(d, snapshot, decision) ==
    /\ deciding' = deciding \ {d}
    /\ reviews' = reviews \cup
                    {[id |-> d.id, at |-> d.at, lane |-> snapshot.lane,
                      recommendation |-> snapshot.recommendation, decision |-> decision]}
    /\ UNCHANGED <<now, reader, summary>>

\* A failure of either write undoes both.
Rollback(d) ==
    /\ deciding' = deciding \ {d}
    /\ UNCHANGED <<now, reviews, reader, summary>>

\* The first page of a filter.
OpenList(f) ==
    /\ reader.pc = "idle"
    /\ reader' = [filter |-> f, cursor |-> NoCursor, told |-> <<>>,
                  known |-> Mismatches(reviews, f), pc |-> "paging"]
    /\ UNCHANGED <<now, deciding, reviews, summary>>

\* _mismatches_sync: a page and, if there are more rows, the next cursor.
\* The cursor is sent back with the filters it was made for.
ReadPage ==
    /\ reader.pc = "paging"
    /\ LET rows == After(Mismatches(reviews, reader.filter), reader.cursor)
           page == FirstOf(rows, PageLimit)
           more == Cardinality(rows) > PageLimit
       IN reader' = [reader EXCEPT
                        !.told = Append(@, page),
                        !.cursor = IF more THEN [at |-> Anchor(page).at, id |-> Anchor(page).id]
                                   ELSE @,
                        !.pc = IF more THEN "paging" ELSE "end"]
    /\ UNCHANGED <<now, deciding, reviews, summary>>

\* _decode_cursor: with any other filter the cursor is refused, and the list
\* is opened anew.
RefuseCursor(f) ==
    /\ reader.pc = "paging"
    /\ reader.cursor # NoCursor
    /\ f # reader.filter
    /\ reader' = [filter |-> f, cursor |-> NoCursor, told |-> <<>>, known |-> {}, pc |-> "idle"]
    /\ UNCHANGED <<now, deciding, reviews, summary>>

\* _shadow_match_sync: three statements, each with a snapshot of its own.
CountAll ==
    /\ summary.pc = "total"
    /\ summary' = [summary EXCEPT !.pc = "lanes", !.total = Counts(reviews)]
    /\ UNCHANGED <<now, deciding, reviews, reader>>

CountLanes ==
    /\ summary.pc = "lanes"
    /\ summary' = [summary EXCEPT
                      !.pc = "days",
                      !.lanes = {[lane |-> r.lane,
                                  counts |-> Counts({s \in reviews : s.lane = r.lane})] :
                                 r \in reviews}]
    /\ UNCHANGED <<now, deciding, reviews, reader>>

\* A faulty CountDays: only rows that can be compared are looked at.
CountComparableDays ==
    /\ summary.pc = "days"
    /\ summary' = [summary EXCEPT
                      !.pc = "end",
                      !.days = {[day |-> r.at,
                                 counts |-> Counts({s \in reviews : s.at = r.at
                                                      /\ Comparable(s.recommendation)})] :
                                r \in reviews}]
    /\ UNCHANGED <<now, deciding, reviews, reader>>

CountDays ==
    /\ summary.pc = "days"
    /\ summary' = [summary EXCEPT
                      !.pc = "end",
                      !.days = {[day |-> r.at, counts |-> Counts({s \in reviews : s.at = r.at})] :
                                r \in reviews}]
    /\ UNCHANGED <<now, deciding, reviews, reader>>

ShadowNext ==
    \/ Tick
    \/ \E a \in Approvals : StartDecision(a)
    \/ \E d \in deciding :
          \/ \E s \in Snapshots, decision \in {"approved", "rejected"} : Commit(d, s, decision)
          \/ Rollback(d)
    \/ \E f \in Filters : OpenList(f) \/ RefuseCursor(f)
    \/ ReadPage
    \/ CountAll \/ CountLanes \/ CountDays

ShadowSpec == ShadowInit /\ [][ShadowNext]_shadowVars

-------------------------------------------------------------------------------

Told == 1 .. Len(reader.told)

\* Whatever is decided while a browser pages: no mismatch is told twice, the
\* pages descend, and at the end every mismatch that was committed before the
\* first page has been told (_mismatches_sync, _decode_cursor).
PagesTellEach ==
    /\ \A i, j \in Told : i < j =>
          \A r \in reader.told[i], s \in reader.told[j] : Earlier(s, r)
    /\ reader.pc = "end" =>
          reader.known \subseteq UNION {reader.told[i] : i \in Told}

SumOf(field, groups) == MapThenSumSet(LAMBDA g : g.counts[field], groups)

\* The three statements of one summary may see different ledgers, but each
\* sees at least what the one before it saw: the lanes add up to the total or
\* more, and the days to the lanes or more (_shadow_match_sync).
SummaryOnlyGrows ==
    summary.pc = "end" =>
        \A field \in {"total", "comparable", "matched"} :
            /\ summary.total[field] <= SumOf(field, summary.lanes)
            /\ SumOf(field, summary.lanes) <= SumOf(field, summary.days)
=============================================================================
