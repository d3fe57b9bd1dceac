------------------------------- MODULE Figures --------------------------------
(***************************************************************************)
(* The figures of the administrator's dashboard: api/stats.py (how many    *)
(* approvals, assessments and conversations) and api/cost.py (what the     *)
(* agents' turns cost).                                                    *)
(*                                                                         *)
(* Each operator is one SQL statement, over the rows that statement sees.  *)
(* The statements of a request run one after the other under READ          *)
(* COMMITTED: what is committed between two of them only the later sees,   *)
(* and the two may be about different rows.                                *)
(*                                                                         *)
(* A row is dated by a natural number; a window is [end - width, end), and *)
(* the window before it ends where it starts.  A cost is a natural number. *)
(***************************************************************************)
EXTENDS Integers, FiniteSets, Functions

CONSTANTS
    SparkBuckets,   \* columns of a sparkline, 24 in the code
    TrendBucket,    \* date_trunc: width of an hour or a day
    NoModel         \* a turn whose model is NULL

ASSUME FiguresAssumption == SparkBuckets \in Nat \ {0} /\ TrendBucket \in Nat \ {0}

-------------------------------------------------------------------------------
(* api/stats.py: a row has at, status and by (of an approval) and lane (of *)
(* an assessment); both are "none" in a row of another table, and a        *)
(* conversation has neither.                                               *)

InWindow(rows, start, end) == {r \in rows : r.at >= start /\ r.at < end}

\* FILTER (WHERE ...) of each figure.
Counted(key, rows) ==
    CASE key = "approved" -> {r \in rows : r.status \in {"approved", "used"}}
      [] key = "rejected" -> {r \in rows : r.status = "rejected"}
      [] key = "auto"     -> {r \in rows : r.by = "auto-rule"}
      [] key = "conversations" -> {r \in rows : r.status = "none" /\ r.lane = "none"}
      [] OTHER            -> {r \in rows : r.lane = key}

Shown(key, rows, start, end) == Counted(key, InWindow(rows, start, end))

\* A figure, of the rows its statement sees.
StatOf(key, rows, start, end) == Cardinality(Shown(key, rows, start, end))

\* floor((at - start) / width)
Column(r, start, end) == ((r.at - start) * SparkBuckets) \div (end - start)

\* The sparklines of _sparks: every figure but "auto" has one.
SparkKeys == {"approved", "rejected", "green", "yellow", "red", "conversations"}

\* A faulty Spark: the first column is taken for the left edge and dropped.
SparkOpen(key, rows, start, end) ==
    [b \in 0 .. SparkBuckets - 1 |->
        Cardinality({r \in Shown(key, rows, start, end) : Column(r, start, end) = b /\ b > 0})]

Spark(key, rows, start, end) ==
    [b \in 0 .. SparkBuckets - 1 |->
        Cardinality({r \in Shown(key, rows, start, end) : Column(r, start, end) = b})]

\* delta: this window's rows less those of the window before it.
Delta(rows, start, end) ==
    Cardinality(InWindow(rows, start, end))
    - Cardinality(InWindow(rows, start - (end - start), start))

-------------------------------------------------------------------------------
(* api/cost.py: a turn has id, at, role (main for an assistant's message), *)
(* model, conv and cost.                                                   *)

Cost(turns) == SumFunction([t \in turns |-> t.cost])

ByModel(turns) ==
    [m \in {t.model : t \in turns} \ {NoModel} |-> Cost({t \in turns : t.model = m})]

ByRole(turns) == [r \in {t.role : t \in turns} |-> Cost({t \in turns : t.role = r})]

\* COALESCE(name, 'unknown'), a row for each bucket and name there is.
NameOf(t, group) ==
    CASE group = "role" -> t.role
      [] group = "model" /\ t.model # NoModel -> t.model
      [] OTHER -> "unknown"

Trend(turns, group) ==
    [c \in {<<t.at \div TrendBucket, NameOf(t, group)>> : t \in turns} |->
        Cost({t \in turns : t.at \div TrendBucket = c[1] /\ NameOf(t, group) = c[2]})]

\* delta in tenths of a percent; there is none when nothing was spent before.
DeltaPct(turns, start, end) ==
    LET cur  == Cost(InWindow(turns, start, end))
        prev == Cost(InWindow(turns, start - (end - start), start))
    IN IF prev = 0 THEN {} ELSE {((cur - prev) * 1000) \div prev}

\* z >= 2 over the conversations' costs, with the standard deviation of a
\* sample: both sides squared and multiplied out.
IsAnomaly(costs, conv) ==
    LET n   == Cardinality(DOMAIN costs)
        sum == SumFunction(costs)
        squares == SumFunction([k \in DOMAIN costs |-> costs[k] * costs[k]])
        off == n * costs[conv] - sum
        spread == n * squares - sum * sum
    IN /\ n >= 2
       /\ spread > 0
       /\ off > 0
       /\ off * off * (n - 1) >= 4 * n * spread

PerConversation(turns) == [k \in {t.conv : t \in turns} |-> Cost({t \in turns : t.conv = k})]
Anomalies(turns) ==
    {k \in {t.conv : t \in turns} : IsAnomaly(PerConversation(turns), k)}
=============================================================================
