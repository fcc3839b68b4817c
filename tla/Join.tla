-------------------------------- MODULE Join --------------------------------
(***************************************************************************)
(* Two growing series and the joins asked of them, beside what a join       *)
(* promises, said timestamp by timestamp.                                   *)
(*                                                                         *)
(* TS.JOIN (src/join, src/commands/ts_join.rs): the windows and filters     *)
(* each side is read through, the sorted merges of the positional joins,    *)
(* the streaming semi join, the three cursors of the ASOF join, REDUCE and  *)
(* AGGREGATION over the joined rows.                                        *)
(*                                                                         *)
(* A row is a record l, r of samples, None where a side is missing.         *)
(***************************************************************************)
EXTENDS Query

CONSTANT MaxTimestamp           \* MAX_TIMESTAMP

--------------------------------------------------------------------------
(* TimestampValue and TimestampRange.  A bound is a record at, ts: `-`,     *)
(* `+`, `*`, a timestamp, or a signed duration.                             *)

AsTimestamp(b, now) ==
    CASE b.at = "earliest" -> 0
      [] b.at = "latest" -> MaxTimestamp
      [] b.at = "now" -> now
      [] b.at = "specific" -> b.ts
      [] b.at = "relative" -> now + b.ts

AsSeriesTimestamp(b, held, now) ==
    CASE b.at = "earliest" -> MinTimestamp(held)
      [] b.at = "latest" -> LastTimestamp(held)
      [] OTHER -> AsTimestamp(b, now)

(* A signed duration as the end is counted from the start of the range.     *)
GetTimestamps(o, now) ==
    LET start == AsTimestamp(o.from, now)
    IN  [start |-> start,
         end   |-> IF o.to.at = "relative" THEN start + o.to.ts ELSE AsTimestamp(o.to, now)]

GetSeriesRange(o, held, now) ==
    LET start == AsSeriesTimestamp(o.from, held, now)
    IN  [start |-> IF held.retention = 0 THEN start
                   ELSE Maximum(start, MinTimestamp(held)),
         end   |-> IF o.to.at = "relative" THEN start + o.to.ts
                   ELSE AsSeriesTimestamp(o.to, held, now)]

--------------------------------------------------------------------------
(* Reading one side: TimeSeries::get_range_filtered.                        *)

GetRange(held, start, end) ==
    Concat(MapSeq(LAMBDA chunk : InRange(chunk, start, end), held.chunks))

(* filter_timestamp_slice: clipped, sorted, without duplicates.             *)
FilterTimestampSlice(timestamps, start, end) ==
    Ascending({t \in ToSet(timestamps) : start <= t /\ t <= end})

(* TimeSeriesChunk::samples_by_timestamps: one pass over the chunk with a   *)
(* cursor into the wanted timestamps that never moves back.                 *)
RECURSIVE ByTimestamps(_, _, _, _)
ByTimestamps(samples, wanted, i, out) ==
    IF samples = <<>> \/ i > Len(wanted) THEN out
    ELSE LET s == Head(samples)
         IN  IF s.ts < wanted[i] THEN ByTimestamps(Tail(samples), wanted, i, out)
             ELSE IF s.ts = wanted[i]
             THEN ByTimestamps(Tail(samples), wanted, i + 1, Append(out, s))
             ELSE LET ahead == {j \in i..Len(wanted) : wanted[j] >= s.ts}
                      at    == IF ahead = {} THEN Len(wanted)
                               ELSE CHOOSE j \in ahead : \A k \in ahead : j <= k
                  IN  IF wanted[at] = s.ts
                      THEN ByTimestamps(Tail(samples), wanted, at + 1, Append(out, s))
                      ELSE ByTimestamps(Tail(samples), wanted, at, out)

(* TimeSeries::samples_by_timestamps: each timestamp goes to the chunk      *)
(* whose extent holds it, and each chunk is asked for its share.            *)
SamplesByTimestamps(held, timestamps) ==
    Concat(MapSeq(LAMBDA chunk :
                      LET mine == SelectSeq(timestamps,
                                            LAMBDA t : FirstOf(chunk) <= t /\ t <= LastOf(chunk))
                      IN  IF mine = <<>> THEN <<>>
                          ELSE ByTimestamps(InRange(chunk, mine[1], mine[Len(mine)]), mine, 1, <<>>),
                  held.chunks))

GetRangeFiltered(held, start, end, tsFilter, valueFilter) ==
    LET from    == Maximum(start, MinTimestamp(held))
        samples == IF tsFilter = None THEN GetRange(held, from, end)
                   ELSE SamplesByTimestamps(held, FilterTimestampSlice(tsFilter, from, end))
    IN  IF from > end THEN <<>>
        ELSE SelectSeq(samples, LAMBDA s : PassesValue(valueFilter, s))

FetchSamples(held, o, now) ==
    LET range == GetSeriesRange(o, held, now)
    IN  GetRangeFiltered(held, range.start, range.end, o.tsFilter, o.valueFilter)

--------------------------------------------------------------------------
(* Rows.                                                                    *)

Both(l, r) == [l |-> l, r |-> r]
OnlyLeft(l) == [l |-> l, r |-> None]
OnlyRight(r) == [l |-> None, r |-> r]

(* merge_join_by on timestamps: the full outer merge.                       *)
RECURSIVE Merge(_, _)
Merge(left, right) ==
    IF left = <<>> THEN MapSeq(OnlyRight, right)
    ELSE IF right = <<>> THEN MapSeq(OnlyLeft, left)
    ELSE LET l == Head(left)
             r == Head(right)
         IN  IF l.ts < r.ts THEN <<OnlyLeft(l)>> \o Merge(Tail(left), right)
             ELSE IF r.ts < l.ts THEN <<OnlyRight(r)>> \o Merge(left, Tail(right))
             ELSE <<Both(l, r)>> \o Merge(Tail(left), Tail(right))

(* The rows of the merge that each positional join keeps.                   *)
Keeps(type, row) ==
    CASE type = "left" -> row.l # None
      [] type = "right" -> row.r # None
      [] type = "anti" -> row.r = None
      [] type = "inner" -> row.l # None /\ row.r # None
      [] type = "full" -> TRUE

(* SortedJoinSemiBy: the right side only ever advances, and the join ends   *)
(* with it.                                                                 *)
RECURSIVE JoinSemi(_, _)
JoinSemi(left, right) ==
    IF left = <<>> \/ right = <<>> THEN <<>>
    ELSE LET l == Head(left)
             r == Head(right)
         IN  IF r.ts < l.ts THEN JoinSemi(left, Tail(right))
             ELSE IF r.ts = l.ts THEN <<OnlyLeft(l)>> \o JoinSemi(Tail(left), right)
             ELSE JoinSemi(Tail(left), right)

--------------------------------------------------------------------------
(* The ASOF join.  A cursor is a record best, scan: the index of the best   *)
(* match so far (0 for none) and the next right index to look at; it        *)
(* outlives the left sample.                                                *)

Start == [best |-> 0, scan |-> 1]
GeAllowEq(l, r, eq) == l > r \/ (eq /\ l = r)
LtAllowEq(l, r, eq) == l < r \/ (eq /\ l = r)
AbsDiff(a, b) == Abs(a - b)

RECURSIVE ForwardNext(_, _, _, _)
ForwardNext(cur, ts, right, eq) ==
    IF cur.scan > Len(right) THEN [cur |-> cur, hit |-> 0]
    ELSE IF GeAllowEq(right[cur.scan].ts, ts, eq) THEN [cur |-> cur, hit |-> cur.scan]
    ELSE ForwardNext([cur EXCEPT !.scan = @ + 1], ts, right, eq)

RECURSIVE BackwardNext(_, _, _, _)
BackwardNext(cur, ts, right, eq) ==
    IF cur.scan <= Len(right) /\ LtAllowEq(right[cur.scan].ts, ts, eq)
    THEN BackwardNext([best |-> cur.scan, scan |-> cur.scan + 1], ts, right, eq)
    ELSE [cur |-> cur, hit |-> cur.best]

(* nearest_past_exact: the exact match under the cursor is looked past and  *)
(* not consumed.                                                            *)
NearestPastExact(cur, ts, right) ==
    LET later == {j \in (cur.scan + 1)..Len(right) : right[j].ts # ts}
        ahead == IF later = {} THEN 0 ELSE CHOOSE j \in later : \A k \in later : j <= k
    IN  IF cur.best = 0 THEN ahead
        ELSE IF ahead = 0 THEN cur.best
        ELSE IF AbsDiff(ts, right[ahead].ts) <= AbsDiff(ts, right[cur.best].ts) THEN ahead
        ELSE cur.best

(* The best bound is taken while right samples lie before the left one; the *)
(* first one past it competes on distance, a tie going to the later.        *)
RECURSIVE NearestNext(_, _, _, _)
NearestNext(cur, ts, right, eq) ==
    IF cur.scan > Len(right) THEN [cur |-> cur, hit |-> cur.best]
    ELSE LET scan == right[cur.scan].ts
         IN  IF LtAllowEq(scan, ts, eq)
             THEN NearestNext([best |-> cur.scan, scan |-> cur.scan + 1], ts, right, eq)
             ELSE IF ~eq /\ scan = ts
             THEN [cur |-> cur, hit |-> NearestPastExact(cur, ts, right)]
             ELSE IF cur.best = 0 \/ AbsDiff(ts, scan) <= AbsDiff(ts, right[cur.best].ts)
             THEN [cur |-> [best |-> cur.scan, scan |-> cur.scan + 1], hit |-> cur.scan]
             ELSE [cur |-> cur, hit |-> cur.best]

NextMatch(strategy, cur, ts, right, eq) ==
    CASE strategy = "next" -> ForwardNext(cur, ts, right, eq)
      [] strategy = "previous" -> BackwardNext(cur, ts, right, eq)
      [] strategy = "nearest" -> NearestNext(cur, ts, right, eq)

Within(tolerance, a, b) == tolerance = None \/ AbsDiff(a, b) <= tolerance

(* join_asof_samples and join_asof_impl: one cursor over the whole left     *)
(* side; a match too far away drops the row, not the cursor.                *)
JoinAsof(left, right, type) ==
    FoldLeft(LAMBDA st, l :
                 LET n == NextMatch(type.strategy, st.cur, l.ts, right, type.exact)
                     keep == n.hit # 0 /\ Within(type.tolerance, l.ts, right[n.hit].ts)
                 IN  [cur |-> n.cur,
                      out |-> IF keep THEN Append(st.out, Both(l, right[n.hit])) ELSE st.out],
             [cur |-> Start, out |-> <<>>], left).out

CreateJoinIter(left, right, type) ==
    CASE type.kind = "asof" -> JoinAsof(left, right, type)
      [] type.kind = "semi" -> JoinSemi(left, right)
      [] OTHER -> SelectSeq(Merge(left, right), LAMBDA row : Keeps(type.kind, row))

--------------------------------------------------------------------------
(* JoinReducer and the functions of common/binop.rs behind it.              *)

Lifted(op(_, _), x, y) == IF x = NaN \/ y = NaN THEN NaN ELSE op(x, y)
Ordered(b, x) == IF b THEN x ELSE NaN           \* to_comparison_value
Sign(x) == IF Less(x, Zero) THEN Num(-1) ELSE Num(1)    \* f64::signum: 0.0 is positive
Divided(x, y) == IF y = Zero THEN NaN ELSE Over(x, y)
(* The remainder has the dividend's sign.                                   *)
Remainder(x, y) ==
    LET q == Over(x, y)
        whole == IF q[1] < 0 THEN -((-q[1]) \div q[2]) ELSE q[1] \div q[2]
    IN  IF y = Zero THEN NaN ELSE Minus(x, Times(y, Num(whole)))
RECURSIVE Power(_, _)
Power(x, n) == IF n = 0 THEN Num(1) ELSE Times(x, Power(x, n - 1))

OpEq(x, y) == x = y                             \* NaN equals NaN
OpNeq(x, y) == x # y
OpGt(x, y) == x # NaN /\ y # NaN /\ Less(y, x)
OpGte(x, y) == x # NaN /\ y # NaN /\ ~Less(x, y)
OpCoalesce(x, y) == IF x # NaN THEN x ELSE y
OpMin(x, y) == IF x = NaN THEN y ELSE IF y = NaN THEN x ELSE Smaller(x, y)
OpMax(x, y) == IF x = NaN THEN y ELSE IF y = NaN THEN x ELSE Larger(x, y)
OpCmp(x, y) ==
    IF y = NaN THEN Num(1)
    ELSE IF x = NaN \/ Less(x, y) THEN Num(-1)
    ELSE IF x = y THEN Zero ELSE Num(1)
(* powf, for whole exponents that are not negative.                         *)
OpPow(x, y) ==
    IF y = Zero \/ x = Num(1) THEN Num(1)
    ELSE IF x = NaN \/ y = NaN THEN NaN ELSE Power(x, y[1])
PercentChange(x, y) ==
    IF x = Zero THEN Zero ELSE Lifted(LAMBDA a, b : Over(Minus(b, a), a), x, y)

Reduce(op, x, y) ==
    CASE op = "sum" -> Lifted(Plus, x, y)
      [] op = "sub" -> Lifted(Minus, x, y)
      [] op = "mul" -> Lifted(Times, x, y)
      [] op = "div" -> Lifted(Divided, x, y)
      [] op = "mod" -> Lifted(Remainder, x, y)
      [] op = "pow" -> OpPow(x, y)
      [] op = "avg" -> Lifted(LAMBDA a, b : Over(Plus(a, b), Num(2)), x, y)
      [] op = "abs_diff" -> Lifted(LAMBDA a, b : Larger(Minus(a, b), Minus(b, a)), x, y)
      [] op = "sgn_diff" -> Lifted(LAMBDA a, b : Sign(Minus(a, b)), x, y)
      [] op = "pct_change" -> PercentChange(x, y)
      [] op = "coalesce" -> OpCoalesce(x, y)
      [] op = "cmp" -> OpCmp(x, y)
      [] op = "min" -> OpMin(x, y)
      [] op = "max" -> OpMax(x, y)
      [] op = "eq" -> Ordered(OpEq(x, y), x)
      [] op = "ne" -> Ordered(OpNeq(x, y), x)
      [] op = "gt" -> Ordered(OpGt(x, y), x)
      [] op = "gte" -> Ordered(OpGte(x, y), x)
      [] op = "lt" -> Ordered(OpGt(y, x), x)
      [] op = "lte" -> Ordered(OpGte(y, x), x)
      [] op = "left" -> x                       \* SEMI and ANTI under AGGREGATION

Reducers ==
    {"sum", "sub", "mul", "div", "mod", "pow", "avg", "abs_diff", "sgn_diff", "pct_change",
     "coalesce", "cmp", "min", "max", "eq", "ne", "gt", "gte", "lt", "lte"}

(* transform_join_value_to_sample: a missing side counts as NaN.            *)
ToSample(row, op) ==
    LET x == IF row.l = None THEN NaN ELSE row.l.v
        y == IF row.r = None THEN NaN ELSE row.r.v
    IN  Sample(IF row.l # None THEN row.l.ts ELSE row.r.ts, Reduce(op, x, y))

--------------------------------------------------------------------------
(* join_internal.  COUNT cuts what is returned, never what is joined.       *)

SingleSided(type) == type.kind \in {"semi", "anti"}
Unfilled == [start |-> None, end |-> None]

Aggregated(samples, o, now) ==
    LET range == GetTimestamps(o, now)
    IN  AsSamples(AggregateRows(samples, [agg |-> o.agg, start |-> range.start, end |-> range.end],
                                Unfilled))

(* Mutant of JoinInternal: COUNT cuts both inputs as well.                  *)
JoinInternalCutFirst(left, right, o, now) ==
    LET rows    == CreateJoinIter(Take(left, o.count), Take(right, o.count), o.type)
        op      == IF o.reducer # None THEN o.reducer ELSE "left"
        samples == MapSeq(LAMBDA row : ToSample(row, op), rows)
    IN  IF o.reducer = None /\ (o.agg = None \/ ~SingleSided(o.type)) THEN Take(rows, o.count)
        ELSE Take(IF o.agg = None THEN samples ELSE Aggregated(samples, o, now), o.count)

JoinInternal(left, right, o, now) ==
    LET rows    == CreateJoinIter(left, right, o.type)
        op      == IF o.reducer # None THEN o.reducer ELSE "left"
        samples == MapSeq(LAMBDA row : ToSample(row, op), rows)
    IN  IF o.reducer = None /\ (o.agg = None \/ ~SingleSided(o.type)) THEN Take(rows, o.count)
        ELSE Take(IF o.agg = None THEN samples ELSE Aggregated(samples, o, now), o.count)

(* What parse_join_args and join_internal accept: REDUCE makes no sense     *)
(* where a row has one value, AGGREGATION needs one value per row, of one   *)
(* aggregator.                                                              *)
Accepted(o) ==
    /\ o.reducer # None => ~SingleSided(o.type)
    /\ o.agg # None => /\ o.reducer # None \/ SingleSided(o.type)
                       /\ Len(o.agg.configs) = 1

ProcessJoin(left, right, o, now) ==
    JoinInternal(FetchSamples(left, o, now), FetchSamples(right, o, now), o, now)

-----------------------------------------------------------------------------

CONSTANTS Joins,                    \* the option records asked
          LeftValues, RightValues, JoinGaps,
          JoinSettings,             \* retention of either side
          JoinCapacity,             \* samples per chunk
          MaxSide,                  \* samples per side
          Now

VARIABLES left, right, joined

joinVars == <<left, right, joined>>

NewSide(retention) ==
    [chunks |-> <<>>, retention |-> retention, compressed |-> TRUE, open |-> None]

JoinInit ==
    /\ \E r \in JoinSettings : left = NewSide(r) /\ right = NewSide(0)
    /\ joined = None

(* TS.ADD past the last sample; the tail chunk takes it or a new one does.  *)
Grown(side, x) ==
    LET n == Len(side.chunks)
    IN  IF n = 0 \/ Len(side.chunks[n]) = JoinCapacity
        THEN [side EXCEPT !.chunks = Append(@, <<x>>)]
        ELSE [side EXCEPT !.chunks[n] = Append(@, x)]

Room(side) == joined = None /\ Len(Concat(side.chunks)) < MaxSide

AddLeft(gap, v) ==
    /\ Room(left) /\ right.chunks = <<>>
    /\ left' = Grown(left, Sample(LastTimestamp(left) + gap, v))
    /\ UNCHANGED <<right, joined>>

AddRight(gap, v) ==
    /\ Room(right)
    /\ right' = Grown(right, Sample(LastTimestamp(right) + gap, v))
    /\ UNCHANGED <<left, joined>>

(* ts_join_cmd                                                              *)
JoinCmd(o) ==
    /\ joined = None
    /\ Accepted(o)
    /\ joined' = [o |-> o, reply |-> ProcessJoin(left, right, o, Now)]
    /\ UNCHANGED <<left, right>>

Replied ==
    /\ joined # None
    /\ joined' = None
    /\ UNCHANGED <<left, right>>

JoinNext ==
    \/ \E gap \in JoinGaps : \/ \E v \in LeftValues : AddLeft(gap, v)
                             \/ \E v \in RightValues : AddRight(gap, v)
    \/ \E o \in Joins : JoinCmd(o)
    \/ Replied

JoinSpec == JoinInit /\ [][JoinNext]_joinVars

--------------------------------------------------------------------------
(* The promise.                                                             *)

(* The samples of a side in the window, past both filters.                  *)
RefSide(side, o) ==
    LET w == GetTimestamps(o, Now)
    IN  ToSet(SelectSeq(Visible(side),
            LAMBDA s : /\ w.start <= s.ts /\ s.ts <= w.end
                       /\ PassesTime(o.tsFilter, s) /\ PassesValue(o.valueFilter, s)))

(* The right samples an ASOF join may pair with l, and the one it pairs.    *)
Candidates(l, R, type) ==
    {r \in R : /\ type.exact \/ r.ts # l.ts
               /\ type.strategy = "previous" => r.ts <= l.ts
               /\ type.strategy = "next" => r.ts >= l.ts}

RefAsof(L, R, type) ==
    {p \in {Both(l, r) : l \in L, r \in R} :
        /\ p.r \in Candidates(p.l, R, type)
        /\ \A r \in Candidates(p.l, R, type) :
              \/ AbsDiff(p.l.ts, p.r.ts) < AbsDiff(p.l.ts, r.ts)
              \/ AbsDiff(p.l.ts, p.r.ts) = AbsDiff(p.l.ts, r.ts) /\ p.r.ts >= r.ts
        /\ type.tolerance = None \/ AbsDiff(p.l.ts, p.r.ts) <= type.tolerance}

RefRows(L, R, type) ==
    LET inner == {Both(l, r) : l \in L, r \in R}
        both  == {p \in inner : p.l.ts = p.r.ts}
        loneL == {OnlyLeft(l) : l \in {x \in L : \A r \in R : r.ts # x.ts}}
        loneR == {OnlyRight(r) : r \in {x \in R : \A l \in L : l.ts # x.ts}}
    IN  CASE type.kind = "inner" -> both
          [] type.kind = "left" -> both \cup loneL
          [] type.kind = "right" -> both \cup loneR
          [] type.kind = "full" -> both \cup loneL \cup loneR
          [] type.kind = "anti" -> loneL
          [] type.kind = "semi" -> {OnlyLeft(p.l) : p \in both}
          [] type.kind = "asof" -> RefAsof(L, R, type)

RowTs(row) == IF row.l # None THEN row.l.ts ELSE row.r.ts
InTimeOrder(rows) ==
    MapSeq(LAMBDA t : CHOOSE row \in rows : RowTs(row) = t, Ascending({RowTs(row) : row \in rows}))

(* The buckets of the grid between the first and the last joined row.       *)
RefBuckets(samples, o) ==
    LET d     == o.agg.duration
        w     == GetTimestamps(o, Now)
        align == AlignedTimestamp([agg |-> o.agg, start |-> w.start, end |-> w.end])
        c     == o.agg.configs[1]
        near  == {BucketStartFor(s.ts, align, d) : s \in ToSet(samples)}
        grid  == {b \in (-d)..MaxTimestamp : /\ (b - align) % d = 0
                                            /\ \E x, y \in near : x <= b /\ b <= y}
        shown == {b \in grid : \/ o.agg.empty
                               \/ \E s \in ToSet(Inside(b, d, samples)) : Counts(c, s)}
    IN  MapSeq(LAMBDA b : Sample(RenderTimestamp(o.agg, b), RefValue(c, d, Inside(b, d, samples))),
               Ascending(shown))

RefJoin(o) ==
    LET rows    == InTimeOrder(RefRows(RefSide(left, o), RefSide(right, o), o.type))
        samples == MapSeq(LAMBDA row : ToSample(row, IF o.reducer = None THEN "left" ELSE o.reducer),
                          rows)
    IN  Take(IF o.agg # None THEN RefBuckets(samples, o)
             ELSE IF o.reducer # None THEN samples ELSE rows,
             o.count)

ExcludesExact(type) == type.kind = "asof" /\ type.strategy = "nearest" /\ ~type.exact

(* JOIN EXACT.  Whatever the two series hold, across their chunks, under    *)
(* retention, both filters and every kind of bound, the reply is the        *)
(* documented join of the two windows in time order: each row, its reduced  *)
(* value or its bucket, cut by COUNT after joining.  (NEAREST without exact *)
(* matches is the subject of NeverExact.)                                   *)
JoinExact ==
    joined # None /\ ~ExcludesExact(joined.o.type) => joined.reply = RefJoin(joined.o)

(* NEVER EXACT.  Under ALLOW_EXACT_MATCH false no left sample is paired     *)
(* with a right sample of its own timestamp.                                *)
NeverExact ==
    joined # None /\ ExcludesExact(joined.o.type) /\ joined.o.reducer = None =>
        \A i \in DOMAIN joined.reply : joined.reply[i].l.ts # joined.reply[i].r.ts
=============================================================================
