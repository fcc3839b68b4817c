----------------------------- MODULE QueryOps -----------------------------
(***************************************************************************)
(* The read side: sample iterators over a chunked series, the bucketing     *)
(* iterator behind AGGREGATION, the per-series pipelines of TS.RANGE and    *)
(* TS.REVRANGE, k-way merging, GROUPBY/REDUCE, and the pivot of TS.NRANGE.  *)
(*                                                                         *)
(* An iterator is the sequence of what it yields, except the bucketing      *)
(* iterator, whose state machine (pending run of empty buckets, bucket      *)
(* bounds, accepted flags) is kept as the code has it.                      *)
(*                                                                         *)
(* A series is a record: chunks (sequences of samples in time order),       *)
(* retention in ms (0 for none), compressed, and open, the still open       *)
(* bucket of the compaction feeding it (None when it is no compaction).     *)
(***************************************************************************)
EXTENDS AggregatorOps

Sample(ts, v) == [ts |-> ts, v |-> v]
Row(ts, vs) == [ts |-> ts, vs |-> vs]

RECURSIVE Concat(_)
Concat(ss) == IF ss = <<>> THEN <<>> ELSE Head(ss) \o Concat(Tail(ss))

Maximum(a, b) == IF a < b THEN b ELSE a
Minimum(a, b) == IF a < b THEN a ELSE b

(* Iterator::take and TailIter.                                             *)
Take(s, count) == IF count = None \/ Len(s) <= count THEN s ELSE SubSeq(s, 1, count)
TailIter(s, n) == IF Len(s) <= n THEN s ELSE SubSeq(s, Len(s) - n + 1, Len(s))

--------------------------------------------------------------------------
(* What a read sees of a series.                                            *)

FirstOf(chunk) == chunk[1].ts
LastOf(chunk) == chunk[Len(chunk)].ts
IsEmptySeries(series) == series.chunks = <<>>
FirstTimestamp(series) == IF IsEmptySeries(series) THEN 0 ELSE FirstOf(series.chunks[1])
LastTimestamp(series) ==
    IF IsEmptySeries(series) THEN 0 ELSE LastOf(series.chunks[Len(series.chunks)])

(* TimeSeries::get_min_timestamp                                            *)
MinTimestamp(series) ==
    IF series.retention = 0 THEN FirstTimestamp(series)
    ELSE Maximum(LastTimestamp(series) - series.retention, 0)

InRange(chunk, start, end) ==
    SelectSeq(chunk, LAMBDA s : start <= s.ts /\ s.ts <= end)

(* SeriesSampleIterator: chunks are walked in the requested direction, the  *)
(* walk ending at the first one past the far bound.                         *)
RECURSIVE WalkForward(_, _, _, _)
WalkForward(chunks, i, start, end) ==
    IF i > Len(chunks) \/ FirstOf(chunks[i]) > end THEN <<>>
    ELSE (IF LastOf(chunks[i]) >= start THEN InRange(chunks[i], start, end) ELSE <<>>)
         \o WalkForward(chunks, i + 1, start, end)

RECURSIVE WalkReverse(_, _, _, _)
WalkReverse(chunks, i, start, end) ==
    IF i = 0 \/ LastOf(chunks[i]) < start THEN <<>>
    ELSE (IF FirstOf(chunks[i]) <= end
          THEN Reverse(InRange(chunks[i], Maximum(FirstOf(chunks[i]), start),
                                          Minimum(LastOf(chunks[i]), end)))
          ELSE <<>>)
         \o WalkReverse(chunks, i - 1, start, end)

SeriesSamples(series, start, end, reverse) ==
    CASE IsEmptySeries(series) \/ start > end -> <<>>
      [] reverse -> WalkReverse(series.chunks, Len(series.chunks), start, end)
      [] OTHER   -> WalkForward(series.chunks, 1, start, end)

FirstVisible(series, visible) ==
    IF FirstTimestamp(series) >= MinTimestamp(series) \/ visible = <<>> THEN FirstTimestamp(series)
    ELSE visible[1].ts
VisibleFirstTimestamp(series) ==
    FirstVisible(series, SeriesSamples(series, MinTimestamp(series), LastTimestamp(series), FALSE))

(* TimestampFilterIterator.  It walks the chunks once for a sorted list of  *)
(* timestamps: idx is the chunk hint, chunk the loaded chunk (0 for none)   *)
(* and rest what the loaded chunk's cursor has left.                        *)
RECURSIVE SeekChunk(_, _, _, _)
SeekChunk(chunks, idx, ts, reverse) ==      \* <<hint, chunk or 0>>
    IF idx < 1 \/ idx > Len(chunks) THEN <<idx, 0>>
    ELSE IF ts < FirstOf(chunks[idx])
    THEN IF reverse THEN SeekChunk(chunks, idx - 1, ts, reverse) ELSE <<idx, 0>>
    ELSE IF ts > LastOf(chunks[idx])
    THEN IF reverse THEN <<idx, 0>> ELSE SeekChunk(chunks, idx + 1, ts, reverse)
    ELSE <<idx, idx>>

(* One timestamp: ensure_chunk_for_timestamp and get_sample.                *)
LoadChunk(chunks, random, cur, ts, found) ==
    [cur EXCEPT !.idx = found[1], !.chunk = found[2],
                !.rest = IF found[2] = 0 THEN <<>>
                         ELSE IF random THEN chunks[found[2]]
                         ELSE InRange(chunks[found[2]], ts, LastOf(chunks[found[2]]))]
EnsureChunk(chunks, random, reverse, cur, ts) ==
    IF cur.chunk # 0 /\ FirstOf(chunks[cur.chunk]) <= ts /\ ts <= LastOf(chunks[cur.chunk]) THEN cur
    ELSE LoadChunk(chunks, random, cur, ts, SeekChunk(chunks, cur.idx, ts, reverse))
GetSample(random, at, ts) ==
    LET hit == SelectSeq(at.rest, LAMBDA s : s.ts = ts)
    IN  IF at.chunk = 0 THEN at
        ELSE IF hit # <<>>
        THEN [at EXCEPT !.out = Append(@, hit[1]),
                        !.rest = IF random THEN @ ELSE SelectSeq(@, LAMBDA s : s.ts > ts)]
        ELSE IF random THEN at
        ELSE [at EXCEPT !.chunk = 0]
FilterStep(series, reverse, cur, ts) ==
    LET random == reverse \/ ~series.compressed
    IN  GetSample(random, EnsureChunk(series.chunks, random, reverse, cur, ts), ts)

TimestampFilterSamples(series, timestamps, reverse) ==
    LET kept == SetToSortSeq({t \in ToSet(timestamps) : t >= MinTimestamp(series)}, <)
        init == [idx |-> IF IsEmptySeries(series) THEN 0
                         ELSE IF reverse THEN Len(series.chunks) ELSE 1,
                 chunk |-> 0, rest |-> <<>>, out |-> <<>>]
    IN  FoldLeft(LAMBDA cur, ts : FilterStep(series, reverse, cur, ts), init,
                 IF reverse THEN Reverse(kept) ELSE kept).out

(* The partial sample LATEST adds: get_range_latest_sample.                 *)
LatestSample(series, q) ==
    LET start == IF series.retention = 0 THEN q.start
                 ELSE Maximum(q.start, MinTimestamp(series))
        end   == IF series.retention = 0 THEN q.end ELSE Maximum(start, q.end)
    IN  IF /\ q.latest
           /\ series.open # None
           /\ end > LastTimestamp(series)
           /\ start <= series.open.ts /\ series.open.ts <= end
           /\ q.tsFilter = None \/ series.open.ts \in ToSet(q.tsFilter)
        THEN series.open ELSE None

--------------------------------------------------------------------------
(* Filters of a query.                                                      *)

PassesValue(filter, s) ==
    filter = None \/ (s.v # NaN /\ ~Less(s.v, filter.min) /\ ~Less(filter.max, s.v))
PassesTime(filter, s) == filter = None \/ s.ts \in ToSet(filter)
Passing(q, samples) ==
    SelectSeq(samples, LAMBDA s : PassesTime(q.tsFilter, s) /\ PassesValue(q.valueFilter, s))

(* has_passing_sample, over [from, to].                                     *)
HasPassingSample(series, q, from, to) ==
    /\ from <= to
    /\ ~IsEmptySeries(series)
    /\ \E first \in {VisibleFirstTimestamp(series)} :
        /\ to >= first
        /\ from <= LastTimestamp(series)
        /\ \/ q.valueFilter = None /\ q.tsFilter = None
           \/ Passing(q, SeriesSamples(series, Maximum(from, first), to, FALSE)) # <<>>

(* last_passing_sample_before                                               *)
HeadOrNone(found) == IF found = <<>> THEN None ELSE found[1]
PassingBefore(series, q, first, to) ==
    IF to < first THEN None ELSE HeadOrNone(Passing(q, SeriesSamples(series, first, to, TRUE)))
LastPassingBefore(series, q, to) ==
    IF IsEmptySeries(series) THEN None
    ELSE PassingBefore(series, q, VisibleFirstTimestamp(series), to)

--------------------------------------------------------------------------
(* The bucket grid.  A query's aggregation is a record: configs (one per    *)
(* output column), duration, align, bucketTs and empty.                     *)

BucketStartFor(ts, align, duration) == ts - ((ts - align) % duration)

AlignedTimestamp(q) ==
    CASE q.agg.align.at = "default" -> 0
      [] q.agg.align.at = "start" -> q.start
      [] q.agg.align.at = "end" -> q.end
      [] q.agg.align.at = "timestamp" -> q.agg.align.ts

(* The reported timestamp: clamped to 0 first, then start, middle or end.   *)
RenderTimestamp(agg, bucketStart) ==
    LET start == Maximum(bucketStart, 0)
    IN  CASE agg.bucketTs = "start" -> start
          [] agg.bucketTs = "mid" -> start + agg.duration \div 2
          [] agg.bucketTs = "end" -> start + agg.duration

(* EmptyFillBounds: how far an EMPTY fill runs past the samples of a query. *)
NoFill == [start |-> None, end |-> None, seed |-> NaN]

CarriesLast(agg) == agg.empty /\ \E i \in DOMAIN agg.configs : agg.configs[i].kind = "last"

Lowest == -1000000       \* Timestamp::MIN
Highest == 1000000       \* Timestamp::MAX

SeedValue(before) == IF before = None THEN NaN ELSE before.v
CarrySeed(series, q) ==
    SeedValue(LastPassingBefore(series, q,
                  BucketStartFor(q.start, AlignedTimestamp(q), q.agg.duration) - 1))
FillBounds(series, q, leads, trails) ==
    IF ~(leads /\ trails) /\ ~HasPassingSample(series, q, q.start, q.end) THEN NoFill
    ELSE [start |-> IF leads THEN q.start ELSE None,
          end   |-> IF trails THEN q.end ELSE None,
          seed  |-> IF leads /\ CarriesLast(q.agg) THEN CarrySeed(series, q) ELSE NaN]
EmptyFill(series, q) ==
    IF q.agg = None \/ ~q.agg.empty THEN NoFill
    ELSE FillBounds(series, q, HasPassingSample(series, q, Lowest, q.start - 1),
                    HasPassingSample(series, q, q.end + 1, Highest))

(* MultiAggregateIterator and its AggregationHelper.  next and until are  *)
(* the pending EmptyBucketRun; saw is saw_sample.                           *)
NewAggregateIter(samples, agg, align, fill) ==
    LET aggs == [i \in DOMAIN agg.configs |-> CreateAggregator(agg.configs[i], agg.duration)]
    IN  [inner |-> samples, aggs |-> FoldLeft(LAMBDA all, i : Append(all, aggs[i]), <<>>,
                                              [i \in DOMAIN agg.configs |-> i]),
         accepted |-> FALSE, agg |-> agg, align |-> align, start |-> 0, end |-> 0,
         saw |-> FALSE, next |-> 0, until |-> 0,
         init |-> FALSE, fill |-> fill]

GridStart(it, ts) == BucketStartFor(ts, it.align, it.agg.duration)
Drained(it) == it.next >= it.until

(* add_empty_bucket_internal and EmptyBucketRun::queue                      *)
QueueEmpty(it, from, until) ==
    IF until <= from THEN it
    ELSE [it EXCEPT !.next = from, !.until = until]

MapSeq(op(_), s) == FoldLeft(LAMBDA all, x : Append(all, op(x)), <<>>, s)

PopEmpty(it) ==
    [row |-> Row(RenderTimestamp(it.agg, it.next), MapSeq(EmptyValue, it.aggs)),
     it  |-> [it EXCEPT !.next = @ + it.agg.duration]]

(* AggregationHelper::update, over every column.                            *)
Absorbed(it, us) ==
    [it EXCEPT !.aggs = MapSeq(LAMBDA u : u.agg, us),
               !.accepted = @ \/ \E i \in DOMAIN us : us[i].ok,
               !.saw = TRUE]
Absorb(it, s) == Absorbed(it, MapSeq(LAMBDA a : Update(a, s.ts, s.v), it.aggs))

StartNewBucket(it, s) ==
    LET start == GridStart(it, s.ts)
    IN  Absorb([it EXCEPT !.start = start, !.end = start + it.agg.duration], s)

(* complete_bucket.  A bucket is a row once some column accepted a sample   *)
(* from it, or under EMPTY; then the gap up to the next sample is queued.   *)
CompleteBucket(it, lastTs) ==
    LET ts    == RenderTimestamp(it.agg, it.start)
        fresh == [it EXCEPT !.aggs = MapSeq(Reset, @), !.accepted = FALSE, !.saw = FALSE]
    IN  [row |-> IF it.accepted THEN Row(ts, MapSeq(Finalize, it.aggs))
                 ELSE IF it.agg.empty THEN Row(ts, MapSeq(EmptyValue, it.aggs))
                 ELSE None,
         it  |-> IF it.agg.empty /\ lastTs # None /\ lastTs >= it.end
                 THEN QueueEmpty(fresh, GridStart(it, it.end + 1), GridStart(it, lastTs))
                 ELSE fresh]

EnsureInitialized(it) ==
    LET begun == [it EXCEPT !.init = TRUE]
        first == Head(it.inner)
        led   == IF it.agg.empty /\ it.fill.start # None
                 THEN QueueEmpty(begun, GridStart(it, it.fill.start), GridStart(it, first.ts))
                 ELSE begun
    IN  IF it.init THEN it
        ELSE IF it.inner # <<>>
        THEN StartNewBucket([led EXCEPT !.inner = Tail(@)], first)
        ELSE IF it.agg.empty /\ it.fill.start # None /\ it.fill.end # None
        THEN QueueEmpty(begun, GridStart(it, it.fill.start),
                        GridStart(it, it.fill.end) + it.agg.duration)
        ELSE begun

RECURSIVE ProcessBucket(_), NextBucket(_, _)
ProcessBucket(it) ==
    IF it.inner = <<>> THEN [row |-> None, it |-> it]
    ELSE LET s    == Head(it.inner)
             rest == [it EXCEPT !.inner = Tail(@)]
         IN  IF s.ts < it.end THEN ProcessBucket(Absorb(rest, s))
             ELSE NextBucket(CompleteBucket(rest, s.ts), s)
NextBucket(done, s) ==
    IF done.row # None THEN [row |-> done.row, it |-> StartNewBucket(done.it, s)]
    ELSE ProcessBucket(StartNewBucket(done.it, s))

FillAfter(it, done) ==
    IF it.agg.empty /\ it.fill.end # None
      THEN [done EXCEPT !.it = QueueEmpty(@, it.end, GridStart(it, it.fill.end) + it.agg.duration)]
      ELSE done
FinalizeLast(it) ==
    IF ~it.saw THEN [row |-> None, it |-> it] ELSE FillAfter(it, CompleteBucket(it, None))

(* Iterator::next; an empty row is popped wherever one is pending.          *)
AfterLast(last) == IF last.row = None /\ ~Drained(last.it) THEN PopEmpty(last.it) ELSE last
AfterBuckets(proc) == IF proc.row # None THEN proc ELSE AfterLast(FinalizeLast(proc.it))
AfterInit(it) == IF ~Drained(it) THEN PopEmpty(it) ELSE AfterBuckets(ProcessBucket(it))
NextRow(it) == IF ~Drained(it) THEN PopEmpty(it) ELSE AfterInit(EnsureInitialized(it))

RECURSIVE Drain(_, _), DrainOn(_, _)
Drain(it, rows) == DrainOn(NextRow(it), rows)
DrainOn(n, rows) == IF n.row = None THEN rows ELSE Drain(n.it, Append(rows, n.row))

AggregateRows(samples, q, fill) ==
    Drain(NewAggregateIter(samples, q.agg, AlignedTimestamp(q), fill), <<>>)

(* CarryLastEmpty: a gap of a `last` column repeats the previous value.     *)
CarryLast(rows, agg, seed) ==
    IF ~CarriesLast(agg) THEN rows
    ELSE LET fill(row, prev) ==
                 [i \in DOMAIN row.vs |->
                    IF agg.configs[i].kind = "last" /\ row.vs[i] = NaN THEN prev[i] ELSE row.vs[i]]
             step(cur, row) ==
                 LET vs == FoldLeft(LAMBDA all, i : Append(all, fill(row, cur.prev)[i]), <<>>,
                                    [i \in DOMAIN row.vs |-> i])
                 IN  [out |-> Append(cur.out, Row(row.ts, vs)), prev |-> vs]
         IN  FoldLeft(step, [out |-> <<>>, prev |-> [i \in DOMAIN agg.configs |-> seed]], rows).out

--------------------------------------------------------------------------
(* Merging and reducing several ascending streams.                          *)

(* The heap entry popped next: earliest timestamp, ties by source.          *)
NextSource(streams) ==
    LET live == {i \in DOMAIN streams : streams[i] # <<>>}
    IN  CHOOSE i \in live : \A j \in live :
            \/ streams[i][1].ts < streams[j][1].ts
            \/ streams[i][1].ts = streams[j][1].ts /\ i <= j

RECURSIVE KWayMerge(_, _)
KWayMerge(streams, out) ==
    IF \A i \in DOMAIN streams : streams[i] = <<>> THEN out
    ELSE LET i == NextSource(streams)
         IN  KWayMerge([streams EXCEPT ![i] = Tail(@)], Append(out, streams[i][1]))

MultiSeriesSampleIter(streams) == KWayMerge(streams, <<>>)
MultiSeriesRowIter(streams) == KWayMerge(streams, <<>>)

(* Equal timestamps of an ascending (or descending) stream, as groups.      *)
SameTimestamp(stream) ==
    FoldLeft(LAMBDA groups, x :
                IF groups # <<>> /\ groups[Len(groups)][1].ts = x.ts
                THEN [groups EXCEPT ![Len(groups)] = Append(@, x)]
                ELSE Append(groups, <<x>>),
             <<>>, stream)

(* One group through a fresh aggregator; a group it accepted nothing of     *)
(* reports empty_group_value.                                               *)
OrOkay(u, ok) == [u EXCEPT !.ok = @ \/ ok]
GroupValue(end) == IF end.ok THEN Finalize(end.agg) ELSE EmptyGroupValue(end.agg)
ReduceValues(config, ts, vs) ==
    GroupValue(FoldLeft(LAMBDA cur, v : OrOkay(Update(cur.agg, ts, v), cur.ok),
                        [agg |-> CreateAggregator(config, 0), ok |-> FALSE], vs))

SampleReducer(samples, config) ==
    MapSeq(LAMBDA g : Sample(g[1].ts, ReduceValues(config, g[1].ts, MapSeq(LAMBDA s : s.v, g))),
           SameTimestamp(samples))

(* ReduceIterator, the twin the single-stream adapter uses.                 *)
ReduceIterator(samples, config) ==
    MapSeq(LAMBDA g : Sample(g[1].ts, ReduceValues(config, g[1].ts, MapSeq(LAMBDA s : s.v, g))),
           SameTimestamp(samples))

Columns(n) == [i \in 1..n |-> i]

RowReducer(rows, config, n) ==
    MapSeq(LAMBDA g : Row(g[1].ts,
               MapSeq(LAMBDA c : ReduceValues(config, g[1].ts, MapSeq(LAMBDA r : r.vs[c], g)),
                      Columns(n))),
           SameTimestamp(rows))

(* PartialSampleReducer and PartialRowReducer: a state per timestamp, and   *)
(* per column.                                                              *)
PartialValues(reducer, ts, vs) ==
    FoldLeft(LAMBDA p, v : PartialUpdate(reducer, p, ts, v), EmptyPartial, vs)

PartialSampleReducer(samples, reducer) ==
    MapSeq(LAMBDA g : Row(g[1].ts, <<PartialValues(reducer, g[1].ts, MapSeq(LAMBDA s : s.v, g))>>),
           SameTimestamp(samples))

PartialRowReducer(rows, reducer, n) ==
    MapSeq(LAMBDA g : Row(g[1].ts,
               MapSeq(LAMBDA c : PartialValues(reducer, g[1].ts, MapSeq(LAMBDA r : r.vs[c], g)),
                      Columns(n))),
           SameTimestamp(rows))

(* PivotIter: one row per timestamp, each source's values at its columns,   *)
(* NaN where a source has no row.                                           *)
PivotRow(group, widths) ==
    LET from(k) == FoldLeft(LAMBDA n, w : n + w, 0, SubSeq(widths, 1, k - 1))
        total == from(Len(widths) + 1)
        blank == MapSeq(LAMBDA c : NaN, Columns(total))
    IN  Row(group[1].ts,
            FoldLeft(LAMBDA vs, e :
                        FoldLeft(LAMBDA row, c : [row EXCEPT ![from(e.source) + c] = e.vs[c]],
                                 vs, Columns(Minimum(widths[e.source], Len(e.vs)))),
                     blank, group))

PivotIter(streams, widths) ==
    LET tagged == MapSeq(LAMBDA k : MapSeq(LAMBDA r : [ts |-> r.ts, vs |-> r.vs, source |-> k],
                                           streams[k]),
                         Columns(Len(streams)))
    IN  MapSeq(LAMBDA g : PivotRow(g, widths), SameTimestamp(KWayMerge(tagged, <<>>)))

--------------------------------------------------------------------------
(* The pipelines.                                                           *)

(* Mutant of Finish: COUNT before the reversal.                             *)
FinishCutFirst(stream, reverse, count) ==
    IF reverse THEN Reverse(Take(stream, count)) ELSE Take(stream, count)

(* Reversal and COUNT: the last stage of every pipeline.  A reverse query   *)
(* keeps only the tail it can return before reversing it.                   *)
Finish(stream, reverse, count) ==
    IF reverse
    THEN Take(Reverse(IF count = None THEN stream ELSE TailIter(stream, count)), count)
    ELSE Take(stream, count)

IsMulti(q) == q.agg # None /\ Len(q.agg.configs) > 1

AsSamples(rows) == MapSeq(LAMBDA r : Sample(r.ts, r.vs[1]), rows)

(* create_sample_iterator_adapter                                           *)
BucketSamples(rows, q, reducer, fill) ==
    AsSamples(IF reducer = None THEN CarryLast(rows, q.agg, fill.seed) ELSE rows)
IntoBuckets(filtered, q, reducer, fill) ==
    IF q.agg = None THEN filtered
    ELSE BucketSamples(AggregateRows(filtered, q, fill), q, reducer, fill)
ReducedBy(reducer, samples) == IF reducer = None THEN samples ELSE ReduceIterator(samples, reducer)
SampleAdapter(base, q, reducer, reverse, fill) ==
    Finish(ReducedBy(reducer, IntoBuckets(Passing(q, base), q, reducer, fill)), reverse, q.count)

(* create_range_iterator.  Without aggregation the base reads in the        *)
(* requested direction; with it, forward, and the buckets are reversed.     *)
WithLatest(base, latest, back) ==
    IF latest = None THEN base ELSE IF back THEN <<latest>> \o base ELSE Append(base, latest)
BaseSamples(series, q, latest, back) ==
    WithLatest(IF q.tsFilter # None THEN TimestampFilterSamples(series, q.tsFilter, back)
               ELSE SeriesSamples(series, Maximum(q.start, MinTimestamp(series)), q.end, back),
               latest, back)
RangeIterator(series, q, latest, reverse) ==
    SampleAdapter(BaseSamples(series, q, latest, q.agg = None /\ reverse),
                  [q EXCEPT !.tsFilter = None], None, q.agg # None /\ reverse, EmptyFill(series, q))

(* create_row_iterator, and finalize_row_iterator: the same for several     *)
(* aggregation columns.                                                     *)
FilledRows(samples, q, fill) == CarryLast(AggregateRows(samples, q, fill), q.agg, fill.seed)
RowIterator(series, q, latest, reverse) ==
    Finish(FilledRows(SelectSeq(BaseSamples(series, q, latest, FALSE),
                                LAMBDA s : PassesValue(q.valueFilter, s)), q, EmptyFill(series, q)),
           reverse, q.count)

(* TS.RANGE and TS.REVRANGE on one series.                                  *)
RangeReply(series, q) ==
    IF IsMulti(q) THEN RowIterator(series, q, LatestSample(series, q), q.reverse)
    ELSE RangeIterator(series, q, LatestSample(series, q), q.reverse)

(* TS.NRANGE: per-key rows without COUNT, pivoted, then reversed and cut.   *)
IfPassing(q, l) == IF l # None /\ PassesValue(q.valueFilter, l) THEN l ELSE None
KeyRows(series, q) ==
    LET one == [q EXCEPT !.count = None]
        latest == IfPassing(q, LatestSample(series, one))
    IN  IF q.agg # None THEN RowIterator(series, one, latest, FALSE)
        ELSE MapSeq(LAMBDA s : Row(s.ts, <<s.v>>), RangeIterator(series, one, latest, FALSE))

Turned(reverse, rows) == IF reverse THEN Reverse(rows) ELSE rows
NRangeReply(all, q) ==
    LET width == IF q.agg = None THEN 1 ELSE Len(q.agg.configs)
    IN  Take(Turned(q.reverse, PivotIter(MapSeq(LAMBDA series : KeyRows(series, q), all),
                                         MapSeq(LAMBDA series : width, all))),
             q.count)
============================================================================
