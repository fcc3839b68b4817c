------------------------------- MODULE Query --------------------------------
(***************************************************************************)
(* One series, growing, and the range queries asked of it; beside it one    *)
(* running aggregator per kind, fed every sample as a compaction rule feeds *)
(* its own and saved and loaded between any two samples.                    *)
(*                                                                         *)
(* What queries promise, said without iterators: an aggregate of a bag of   *)
(* values, and a reply as the filtered samples of a window, or as the       *)
(* buckets of a grid.  The pipelines of QueryOps are checked against it.    *)
(***************************************************************************)
EXTENDS MRangeOps

SumOf(vs) == FoldLeft(Plus, Zero, vs)
Matching(filter, vs) == SelectSeq(vs, LAMBDA v : Compare(filter, v))
Truth(b) == IF b THEN Num(1) ELSE Zero

(* Sum of squared deviations from the mean.                                 *)
SpreadFrom(mean, vs) == SumOf(MapSeq(LAMBDA v : Times(Minus(v, mean), Minus(v, mean)), vs))
Spread(vs) == SpreadFrom(Over(SumOf(vs), Num(Len(vs))), vs)

(* Sum of the rises between neighbours.                                     *)
Rises(vs) ==
    SumOf(MapSeq(LAMBDA i : Larger(Minus(vs[i + 1], vs[i]), Zero), Columns(Len(vs) - 1)))

(* The aggregate of the samples of a bucket, in time order; None where      *)
(* there is nothing to report.                                              *)
RefOf(config, window, all, good, vs, n, filter) ==
    LET kind == config.kind
        hits == Matching(filter, vs)
    IN  CASE kind = "first" -> IF n = 0 THEN None ELSE vs[1]
          [] kind = "last" -> IF n = 0 THEN None ELSE vs[n]
          [] kind = "min" -> IF n = 0 THEN None
                             ELSE CHOOSE v \in ToSet(vs) : \A w \in ToSet(vs) : ~Less(w, v)
          [] kind = "max" -> IF n = 0 THEN None
                             ELSE CHOOSE v \in ToSet(vs) : \A w \in ToSet(vs) : ~Less(v, w)
          [] kind = "range" -> IF n = 0 THEN None
                               ELSE CHOOSE d \in {Minus(v, w) : v, w \in ToSet(vs)} :
                                        \A v, w \in ToSet(vs) : ~Less(d, Minus(v, w))
          [] kind = "avg" -> IF n = 0 THEN None ELSE Over(SumOf(vs), Num(n))
          [] kind = "sum" /\ config.filter = None -> IF SumOf(vs) = Zero THEN None ELSE SumOf(vs)
          [] kind = "count" /\ config.filter = None -> IF n = 0 THEN None ELSE Num(n)
          [] kind = "countall" -> IF all = <<>> THEN None ELSE Num(Len(all))
          [] kind = "countnan" -> IF Len(all) = n THEN None ELSE Num(Len(all) - n)
          [] kind \in {"count", "countif"} -> IF hits = <<>> THEN None ELSE Num(Len(hits))
          [] kind \in {"sum", "sumif"} -> IF hits = <<>> THEN None ELSE SumOf(hits)
          [] kind = "var.p" -> IF n = 0 THEN None ELSE Over(Spread(vs), Num(n))
          [] kind = "var.s" -> IF n = 0 THEN None ELSE Over(Spread(vs), Num(Maximum(n - 1, 1)))
          [] kind = "std.p" -> IF n = 0 THEN None ELSE Sqrt(Over(Spread(vs), Num(n)))
          [] kind = "std.s" -> IF n = 0 THEN None ELSE Sqrt(Over(Spread(vs), Num(Maximum(n - 1, 1))))
          [] kind = "increase" -> IF n = 0 THEN None ELSE Rises(vs)
          [] kind = "rate" -> IF n = 0 THEN None ELSE Over(Rises(vs), Ratio(window, 1000))
          [] kind = "irate" -> IF n < 2 \/ Less(vs[n], vs[n - 1]) THEN None
                               ELSE Over(Minus(vs[n], vs[n - 1]),
                                         Ratio(good[n].ts - good[n - 1].ts, 1000))
          [] kind = "share" -> IF all = <<>> THEN None
                               ELSE Ratio(Len(Matching(filter, all)), Len(all))
          [] kind = "all" -> IF all = <<>> THEN None ELSE Truth(Matching(filter, all) = all)
          [] kind = "any" -> IF all = <<>> THEN None ELSE Truth(Matching(filter, all) # <<>>)
          [] kind = "none" -> IF all = <<>> THEN None ELSE Truth(Matching(filter, all) = <<>>)

RefKnown(config, window, samples, good) ==
    RefOf(config, window, MapSeq(LAMBDA s : s.v, samples), good, MapSeq(LAMBDA s : s.v, good),
          Len(good), IF config.filter = None THEN NotNaN ELSE config.filter)
RefAggregate(config, window, samples) ==
    RefKnown(config, window, samples, SelectSeq(samples, LAMBDA s : s.v # NaN))

(* What a column shows of a bucket with nothing to report.                  *)
RefEmpty(config) ==
    IF config.kind \in {"sum", "sumif", "count", "countall", "countif", "countnan"}
    THEN Zero ELSE NaN

OrRefEmpty(config, v) == IF v = None THEN RefEmpty(config) ELSE v
RefValue(config, window, samples) == OrRefEmpty(config, RefAggregate(config, window, samples))

(* Whether a column has anything to say of a bucket at all.                 *)
Counts(config, s) ==
    CASE config.kind \in {"countall", "share", "all", "any", "none"} -> TRUE
      [] config.kind = "countnan" -> s.v = NaN
      [] OTHER -> s.v # NaN

--------------------------------------------------------------------------
(* A reply as a set.                                                        *)

(* Every sample retention leaves visible, plus the open bucket under LATEST *)
(* when the window reaches past the stored data.                            *)
Visible(series) ==
    LET all == Concat(series.chunks)
    IN  SelectSeq(all, LAMBDA s : series.retention = 0
                                  \/ s.ts >= LastTimestamp(series) - series.retention)

RefStream(series, q) ==
    LET open == /\ q.latest /\ series.open # None
                /\ series.open.ts > LastTimestamp(series)
    IN  Passing(q, IF open THEN Append(Visible(series), series.open) ELSE Visible(series))

InWindow(q, samples) == SelectSeq(samples, LAMBDA s : q.start <= s.ts /\ s.ts <= q.end)

(* The starts of the buckets that meet the window.                          *)
RefGrid(q) ==
    LET d == q.agg.duration
    IN  {b \in (q.start - d + 1)..q.end : (b - AlignedTimestamp(q)) % d = 0}

Inside(b, d, samples) == SelectSeq(samples, LAMBDA s : b <= s.ts /\ s.ts < b + d)

(* A bucket is reported when a column counts one of its samples; with EMPTY *)
(* also when it holds any, or has data on both sides.                       *)
RefReported(q, b, stream) ==
    LET d    == q.agg.duration
        mine == Inside(b, d, InWindow(q, stream))
    IN  \/ \E s \in ToSet(mine), i \in DOMAIN q.agg.configs : Counts(q.agg.configs[i], s)
        \/ /\ q.agg.empty
           /\ \E s \in ToSet(stream) : s.ts <= Minimum(b + d - 1, q.end)
           /\ \E s \in ToSet(stream) : s.ts >= Maximum(b, q.start)

(* `last` under EMPTY repeats the latest value before the bucket: of the    *)
(* window, or else the last sample before the window's first bucket.        *)
RefLast(q, b, stream) ==
    LET d      == q.agg.duration
        first  == q.start - ((q.start - AlignedTimestamp(q)) % d)
        known  == SelectSeq(InWindow(q, stream), LAMBDA s : s.v # NaN /\ s.ts < b + d)
        before == SelectSeq(stream, LAMBDA s : s.ts < first)
    IN  IF known # <<>> THEN known[Len(known)].v
        ELSE IF before # <<>> THEN before[Len(before)].v ELSE NaN

RefRow(q, b, stream) ==
    Row(RenderTimestamp(q.agg, b),
        MapSeq(LAMBDA c : IF c.kind = "last" /\ q.agg.empty THEN RefLast(q, b, stream)
                          ELSE RefValue(c, q.agg.duration,
                                        Inside(b, q.agg.duration, InWindow(q, stream))),
               q.agg.configs))

Columnwise(q, rows) == IF IsMulti(q) THEN rows ELSE AsSamples(rows)
RefWindows(q, stream) ==
    Columnwise(q, MapSeq(LAMBDA b : RefRow(q, b, stream),
                         Ascending({b \in RefGrid(q) : RefReported(q, b, stream)})))
RefUncut(series, q) ==
    IF q.agg = None THEN InWindow(q, RefStream(series, q)) ELSE RefWindows(q, RefStream(series, q))

Cut(q, items) == Take(IF q.reverse THEN Reverse(items) ELSE items, q.count)

RefReply(series, q) == Cut(q, RefUncut(series, q))

-----------------------------------------------------------------------------

CONSTANTS Configs,      \* the aggregator configurations kept running
          Window,       \* the bucket duration of those aggregators
          Queries,      \* the queries asked
          Values,       \* sample values
          Gaps,         \* distances between neighbouring samples
          OpenGaps, OpenValues,     \* the open bucket of the compaction feeding it
          Settings,     \* retention and compression of the series
          ChunkCapacity,
          MaxSamples

VARIABLES series, running, asked

vars == <<series, running, asked>>

Init ==
    /\ \E o \in Settings : series = [chunks |-> <<>>, retention |-> o.retention,
                                     compressed |-> o.compressed, open |-> None]
    /\ running = [c \in Configs |-> CreateAggregator(c, Window)]
    /\ asked = None

Stored(s) == Concat(s.chunks)

(* TimeSeries::add for a sample past the last one: the tail chunk takes it, *)
(* or a new chunk does when the tail is full.                               *)
Appended(s, x) ==
    LET n == Len(s.chunks)
    IN  IF n = 0 \/ Len(s.chunks[n]) = ChunkCapacity
        THEN [s EXCEPT !.chunks = Append(@, <<x>>)]
        ELSE [s EXCEPT !.chunks[n] = Append(@, x)]

Add(gap, v) ==
    LET x == Sample(LastTimestamp(series) + gap, v) IN
    /\ Len(Stored(series)) < MaxSamples
    /\ series.open = None /\ asked = None
    /\ series' = Appended(series, x)
    /\ running' = [c \in Configs |-> Update(running[c], x.ts, v).agg]
    /\ UNCHANGED asked

(* The compaction writing into this series opens its next bucket.           *)
OpenBucket(gap, v) ==
    /\ series.open = None /\ asked = None
    /\ Len(Stored(series)) = MaxSamples
    /\ series' = [series EXCEPT !.open = Sample(LastTimestamp(series) + gap, v)]
    /\ UNCHANGED <<running, asked>>

(* A save and a load of the running aggregators.                            *)
Reload ==
    /\ asked = None
    /\ running' = [c \in Configs |-> RdbLoad(RdbSave(running[c]), Window)]
    /\ UNCHANGED <<series, asked>>

(* parse_range_options drops FILTER_BY_TS timestamps outside the range.     *)
ClipTimestamps(q) ==
    IF q.tsFilter = None THEN q
    ELSE [q EXCEPT !.tsFilter = SelectSeq(@, LAMBDA t : q.start <= t /\ t <= q.end)]

Ask(q) ==
    /\ asked = None
    /\ asked' = [q |-> q, reply |-> RangeReply(series, ClipTimestamps(q))]
    /\ UNCHANGED <<series, running>>

Deliver ==
    /\ asked # None
    /\ asked' = None
    /\ UNCHANGED <<series, running>>

Next ==
    \/ \E gap \in Gaps, v \in Values : Add(gap, v)
    \/ \E gap \in OpenGaps, v \in OpenValues : OpenBucket(gap, v)
    \/ Deliver
    \/ Reload
    \/ \E q \in Queries : Ask(q)

Spec == Init /\ [][Next]_vars

--------------------------------------------------------------------------
(* AGGREGATORS EXACT.  Whatever the samples, and wherever among them the    *)
(* aggregators were saved and loaded, each reports the aggregate of the     *)
(* whole history.                                                           *)
AggregatesExact ==
    \A c \in Configs : Current(running[c]) = RefAggregate(c, Window, Stored(series))

(* RANGE EXACT.  A reply holds exactly the samples, or the buckets of the   *)
(* grid, that the query selects: across chunk borders, in both directions,  *)
(* cut by COUNT, under retention, LATEST, both filters and EMPTY; and the   *)
(* running aggregates behind the buckets are exact at any moment.           *)
RangeExact ==
    /\ AggregatesExact
    /\ asked # None => asked.reply = RefReply(series, ClipTimestamps(asked.q))
=============================================================================
