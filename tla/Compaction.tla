----------------------------- MODULE Compaction -----------------------------
(***************************************************************************)
(* A keyspace of series linked by compaction rules under the commands that *)
(* change data (TS.ADD, TS.MADD, TS.DEL), rules (TS.CREATERULE,            *)
(* TS.DELETERULE) and keys (TS.CREATE, DEL, RENAME, a restart).  Each runs *)
(* on the main thread, so each is one step; writes to a destination may    *)
(* fail.                                                                   *)
(*                                                                         *)
(* Compaction rules as operators on a keyspace: a source series feeds the  *)
(* buckets of each rule's destination, and a destination may itself have   *)
(* rules.  A series is the map of its samples (Series shows that chunking  *)
(* does not show); an aggregator's state is the sequence of values it was  *)
(* fed, so a sample missed, fed twice or fed out of order changes it.      *)
(***************************************************************************)
EXTENDS Integers, Sequences, FiniteSets, FiniteSetsExt, SequencesExt

CONSTANTS
    Keys,           \* key names
    None            \* Option::None, and an absent key

\* A bound above every timestamp: Timestamp::MAX.
CONSTANT MaxTimestamp

-----------------------------------------------------------------------------
(* Series *)

EmptyMap == [t \in {} |-> 0]

\* The members of a set of integers in increasing order.
RECURSIVE Ascending(_)
Ascending(S) == IF S = {} THEN <<>> ELSE <<Min(S)>> \o Ascending(S \ {Min(S)})

NewSeries(retention) ==
    [samples |-> EmptyMap, retention |-> retention, rules |-> <<>>, src |-> None, marker |-> None]

LastTs(s) == IF s.samples = EmptyMap THEN None ELSE Max(DOMAIN s.samples)

\* get_min_timestamp, for a series with a retention period.
Floor(s) == IF s.retention = 0 \/ LastTs(s) = None THEN 0 ELSE Max({0, LastTs(s) - s.retention})

Without(s, gone) ==
    [s EXCEPT !.samples = [t \in DOMAIN s.samples \ gone |-> s.samples[t]]]

\* apply_retention on the uncompressed encoding: nothing expired stays.
ApplyRetention(s) == Without(s, {t \in DOMAIN s.samples : t < Floor(s)})

\* add_deferring_retention with KeepLast, for a sample that is not too old.
Put(s, ts, value) == [s EXCEPT !.samples = (ts :> value) @@ @]

RemoveRange(s, start, end) == Without(s, start .. end)

-----------------------------------------------------------------------------
(* Rules *)

\* A new CompactionRule: no bucket is open.
NewRule(dest, duration, align, kind) ==
    [dest |-> dest, duration |-> duration, align |-> align, kind |-> kind,
     bucket_start |-> None, acc |-> <<>>, has_samples |-> FALSE]

\* calc_bucket_start: the first bucket is cut off at 0.
BucketStart(rule, ts) == Max({0, ts - ((ts - rule.align) % rule.duration)})

\* Mutant: a bucket is always a whole duration long.
BucketEndWhole(rule, start) == start + rule.duration

\* The exclusive end of a bucket: the start of the bucket one duration on.
BucketEnd(rule, start) == BucketStart(rule, start + rule.duration)

\* AggregationHandler::finalize.
AggValue(kind, acc) ==
    CASE kind = "sum"   -> FoldLeft(LAMBDA x, y : x + y, 0, acc)
      [] kind = "count" -> Len(acc)
      [] kind = "last"  -> IF acc = <<>> THEN 0 ELSE acc[Len(acc)]

ResetRule(rule) == [rule EXCEPT !.acc = <<>>, !.bucket_start = None, !.has_samples = FALSE]

UpdateRule(rule, value) == [rule EXCEPT !.acc = Append(@, value), !.has_samples = TRUE]

\* calculate_range: the values of the stored samples of start .. end, in time order, without
\* those below the floor and those in `removed`.
CalculateRange(parent, start, end, floor, removed) ==
    LET times == {t \in DOMAIN parent.samples :
                     Max({start, floor}) <= t /\ t <= end /\ t \notin removed}
        order == Ascending(times)
    IN  [i \in DOMAIN order |-> parent.samples[order[i]]]

-----------------------------------------------------------------------------
(* One rule: the context of an operation is the parent, the destination,   *)
(* the rule, the timestamps written, whether writes to the destination     *)
(* fail and whether one has failed.                                        *)

Context(parent, dest, rule, faulty) ==
    [parent |-> parent, dest |-> dest, rule |-> rule, written |-> <<>>,
     faulty |-> faulty, failed |-> FALSE]

StartBucket(c, start, sample) ==
    [c EXCEPT !.rule = UpdateRule([@ EXCEPT !.bucket_start = start], sample.value)]

\* remove_dest_range: a marker whose bucket is gone falls back to the last sample.  On an empty
\* destination, which callers skip, it changes nothing.
RemoveDestRange(c, start, end) ==
    LET dest == RemoveRange(c.dest, start, end)
    IN  [c EXCEPT !.dest =
            [dest EXCEPT !.marker =
                IF @ # None /\ @ \notin DOMAIN dest.samples THEN LastTs(dest) ELSE @]]

\* add_dest_bucket: a bucket below the destination's floor is dropped silently.
AddDestBucket(c, start, value) ==
    IF c.faulty THEN [c EXCEPT !.failed = TRUE]
    ELSE IF c.dest.retention # 0 /\ start < Floor(c.dest) THEN c
    ELSE [c EXCEPT !.dest =
             LET dest == ApplyRetention(Put(@, start, value))
             IN  [dest EXCEPT !.marker = IF @ = None THEN start ELSE @],
          !.written = Append(@, [timestamp |-> start, value |-> value])]

\* recalculate_current_bucket: rebuilt from the source, not published.
RecalculateCurrentBucket(c, start, floor) ==
    LET acc == CalculateRange(c.parent, start, BucketEnd(c.rule, start) - 1, floor, {})
    IN  [c EXCEPT !.rule = [@ EXCEPT !.acc = acc, !.has_samples = acc # <<>>,
                                     !.bucket_start = start]]

\* recalculate_bucket: a closed bucket is rewritten, or removed when it has no samples left.
RecalculateBucket(c, start, floor, removed) ==
    LET end == BucketEnd(c.rule, start)
        acc == CalculateRange(c.parent, start, end - 1, floor, removed)
    IN  IF acc # <<>> THEN AddDestBucket(c, start, AggValue(c.rule.kind, acc))
        ELSE RemoveDestRange(c, start, end - 1)

\* finalize_current_bucket: publish the open bucket, move the marker, open the next one.
FinalizeCurrentBucket(c, sample, start) ==
    LET Moved(d)  == IF Len(d.written) > Len(c.written)
                       THEN [d EXCEPT !.dest.marker = c.rule.bucket_start] ELSE d
        Reopened(d) == IF d.failed THEN d
                     ELSE StartBucket([Moved(d) EXCEPT !.rule = ResetRule(@)], start, sample)
    IN  Reopened(IF c.rule.has_samples
                 THEN AddDestBucket(c, c.rule.bucket_start, AggValue(c.rule.kind, c.rule.acc))
                 ELSE c)

\* handle_sample_compaction: a sample newer than everything in the source.
HandleSampleCompaction(c, sample) ==
    LET start == BucketStart(c.rule, sample.timestamp)
        open  == c.rule.bucket_start
    IN  IF c.failed THEN c
        ELSE IF open = None THEN StartBucket(c, start, sample)
        ELSE IF start = open THEN [c EXCEPT !.rule = UpdateRule(@, sample.value)]
        ELSE IF start > open THEN FinalizeCurrentBucket(c, sample, start)
        ELSE RecalculateBucket(c, start, Floor(c.parent), {})

\* handle_compaction_upsert: a sample at or below the source's last timestamp.
HandleCompactionUpsert(c, sample) ==
    LET start == BucketStart(c.rule, sample.timestamp)
    IN  CASE c.rule.bucket_start = None  -> StartBucket(c, start, sample)
          [] c.rule.bucket_start = start -> RecalculateCurrentBucket(c, start, Floor(c.parent))
          [] OTHER                       -> RecalculateBucket(c, start, Floor(c.parent), {})

-----------------------------------------------------------------------------
(* Batches *)

\* The replay of a batch in input order: the running maximum, the open bucket, the timestamps
\* that moved it forward and the back-fills with the maximum each one met.
ReplayStep(rule, r, ts) ==
    IF r.high # None /\ ts <= r.high
      THEN IF ts \notin r.advanced \/ BucketStart(rule, ts) # r.open
             THEN [r EXCEPT !.backfilled = @ \cup {<<ts, r.high>>}]
             ELSE r
      ELSE [r EXCEPT !.high = ts, !.open = BucketStart(rule, ts), !.advanced = @ \cup {ts}]

Replay(rule, prevLast, order) ==
    FoldLeft(LAMBDA r, ts : ReplayStep(rule, r, ts),
             [high |-> prevLast, open |-> rule.bucket_start, advanced |-> {}, backfilled |-> {}],
             order)

\* trace_dest_cache_in_input_order: the bucket the last forward step closed and the bucket of
\* the first write, had the items been applied one at a time.
TraceStep(rule, t, ts) ==
    LET bucket == BucketStart(rule, ts)
        First(b) == IF t.first = None THEN b ELSE t.first
    IN  IF t.high # None /\ ts <= t.high
          THEN IF t.current # None /\ bucket < t.current THEN [t EXCEPT !.first = First(bucket)]
               ELSE t
        ELSE IF t.current # None /\ bucket > t.current
          THEN [high |-> ts, current |-> bucket, first |-> First(t.current), close |-> t.current]
        ELSE [t EXCEPT !.high = ts, !.current = IF @ = None THEN bucket ELSE @]

TraceDestCache(rule, prevLast, order) ==
    FoldLeft(LAMBDA t, ts : TraceStep(rule, t, ts),
             [high |-> prevLast, current |-> rule.bucket_start, first |-> None, close |-> None],
             order)

\* The floor in force when the series' last timestamp was `last`.
FloorAt(retention, last) == IF retention = 0 THEN 0 ELSE Max({0, last - retention})

\* Mutant: a bucket is recalculated at the floor its oldest back-fill met.
BucketFloorsFirst(c, backfilled) ==
    LET starts == {BucketStart(c.rule, b[1]) : b \in backfilled}
    IN  [s \in starts |->
            Min({FloorAt(c.parent.retention, b[2]) :
                    b \in {x \in backfilled : BucketStart(c.rule, x[1]) = s}})]

\* The buckets to recalculate, each with the largest floor any of its back-fills met.
BucketFloors(c, backfilled) ==
    LET starts == {BucketStart(c.rule, b[1]) : b \in backfilled}
    IN  [s \in starts |->
            Max({FloorAt(c.parent.retention, b[2]) :
                    b \in {x \in backfilled : BucketStart(c.rule, x[1]) = s}})]

RecalculateTouched(c, start, floor) ==
    IF c.failed THEN c
    ELSE IF c.rule.bucket_start \in {None, start} THEN RecalculateCurrentBucket(c, start, floor)
    ELSE RecalculateBucket(c, start, floor, {})

\* handle_batch_compaction: appends are streamed, then the buckets of back-fills are recalculated
\* newest first, then the marker is set as one-at-a-time application would have.
HandleBatchCompaction(c, samples, prevLast, order) ==
    LET replay   == Replay(c.rule, prevLast, order)
        trace    == TraceDestCache(c.rule, prevLast, order)
        present  == {b \in replay.backfilled : \E i \in DOMAIN samples : samples[i].timestamp = b[1]}
        appends  == SelectSeq(samples, LAMBDA x : \A b \in replay.backfilled : b[1] # x.timestamp)
        floors   == BucketFloors(c, present)
        newest   == Reverse(Ascending(DOMAIN floors))
        marker   == IF trace.close # None THEN trace.close
                    ELSE IF c.dest.marker # None THEN c.dest.marker
                    ELSE trace.first
        Marked(rebuilt) ==
            IF rebuilt.failed THEN rebuilt
            ELSE [rebuilt EXCEPT !.dest.marker =
                     IF marker \in DOMAIN rebuilt.dest.samples THEN marker ELSE None]
    IN  Marked(FoldLeft(LAMBDA d, start : RecalculateTouched(d, start, floors[start]),
                        FoldLeft(HandleSampleCompaction, c, appends), newest))

-----------------------------------------------------------------------------
(* Removals *)

\* remove_or_recalculate_bucket: the open bucket is left to the resync.
RemoveOrRecalculateBucket(c, bucket, start, end) ==
    LET bucketEnd == BucketEnd(c.rule, bucket)
    IN  IF c.failed \/ c.rule.bucket_start = bucket THEN c
        ELSE IF start <= bucket /\ end >= bucketEnd
          THEN RemoveDestRange(c, bucket, bucketEnd - 1)
        ELSE RecalculateBucket(c, bucket, Floor(c.parent), start .. end)

\* Mutant: the destination keeps a bucket the removal re-opened.
ResyncOpenBucketKeeping(c) ==
    LET last == LastTs(c.parent)
        open == BucketStart(c.rule, last)
        acc  == CalculateRange(c.parent, open, BucketEnd(c.rule, open) - 1, Floor(c.parent), {})
    IN  IF c.failed THEN c
        ELSE IF last = None THEN RemoveDestRange([c EXCEPT !.rule = ResetRule(@)], 0, MaxTimestamp)
        ELSE [c EXCEPT !.rule = [@ EXCEPT !.acc = acc, !.has_samples = acc # <<>>,
                                          !.bucket_start = open]]

\* resync_open_bucket_after_removal: the open bucket is the one of the source's last sample; what
\* the destination holds from there on is retracted.
ResyncOpenBucket(c) ==
    LET last == LastTs(c.parent)
        open == BucketStart(c.rule, last)
        acc  == CalculateRange(c.parent, open, BucketEnd(c.rule, open) - 1, Floor(c.parent), {})
    IN  IF c.failed THEN c
        ELSE IF last = None THEN RemoveDestRange([c EXCEPT !.rule = ResetRule(@)], 0, MaxTimestamp)
        ELSE [RemoveDestRange(c, open, MaxTimestamp) EXCEPT
                 !.rule = [@ EXCEPT !.acc = acc, !.has_samples = acc # <<>>, !.bucket_start = open]]

\* handle_compaction_range_removal: only the first and the last bucket can be partly covered.
HandleRangeRemoval(c, start, end) ==
    LET first   == BucketStart(c.rule, start)
        last    == BucketStart(c.rule, end)
        middle  == BucketEnd(c.rule, first)
        Between(head) == IF head.failed \/ middle >= last THEN head
                         ELSE RemoveDestRange(head, middle, last - 1)
        LastBucket(head)    == IF first = last THEN head
                         ELSE RemoveOrRecalculateBucket(Between(head), last, start, end)
    IN  ResyncOpenBucket(LastBucket(RemoveOrRecalculateBucket(c, first, start, end)))

\* apply_op.
ApplyOp(c, op) ==
    CASE op.type = "new"    -> HandleSampleCompaction(c, op.sample)
      [] op.type = "upsert" -> HandleCompactionUpsert(c, op.sample)
      [] op.type = "batch"  -> HandleBatchCompaction(c, op.samples, op.prev_last, op.order)
      [] op.type = "remove" -> HandleRangeRemoval(c, op.start, op.end)

-----------------------------------------------------------------------------
(* All the rules of a series, and the cascade *)

\* Mutant: any series under the destination's key will do.
LinksBackAny(db, key, rule) == db[rule.dest] # None

LinksBack(db, key, rule) == db[rule.dest] # None /\ db[rule.dest].src = key

\* resolve_destination: which rules are kept but not applied, and which are applied.
Skipped(key, rule, visited) == rule.dest \in visited \cup {key}

Opened(db, key, i, visited) ==
    LET rules == db[key].rules
    IN  /\ ~Skipped(key, rules[i], visited)
        /\ LinksBack(db, key, rules[i])
        /\ \A j \in 1 .. i - 1 : rules[j].dest # rules[i].dest

\* get_compaction_series: the rules without a destination are removed.
GetCompactionSeries(db, key, visited) ==
    LET rules == db[key].rules
        kept  == Ascending({i \in DOMAIN rules : Skipped(key, rules[i], visited)
                                                 \/ Opened(db, key, i, visited)})
    IN  [db EXCEPT ![key].rules = FoldLeft(LAMBDA some, i : Append(some, rules[i]), <<>>, kept)]

\* dedupe_written_samples: sorted, the last write to a timestamp wins.
DedupeWritten(written) ==
    LET times == Ascending({written[i].timestamp : i \in DOMAIN written})
        Final(t) == Max({i \in DOMAIN written : written[i].timestamp = t})
    IN  [n \in DOMAIN times |-> written[Final(times[n])]]

\* One rule of a pass: r holds the keyspace, whether a rule failed and the outcomes so far.
ApplyRule(r, key, i, op, faulty) ==
    LET rule == r.db[key].rules[i]
        Applied(c) ==
            [db       |-> [r.db EXCEPT ![key].rules[i] = c.rule, ![rule.dest] = c.dest],
             failed   |-> r.failed \/ c.failed,
             outcomes |-> Append(r.outcomes, [dest |-> rule.dest, written |-> c.written,
                                              prev_last |-> LastTs(r.db[rule.dest])])]
    IN  Applied(ApplyOp(Context(r.db[key], r.db[rule.dest], rule, rule.dest \in faulty), op))

\* Mutant: the first rule that fails ends the pass.
ApplyRulesStopping(db, key, op, visited, faulty) ==
    LET base == GetCompactionSeries(db, key, visited)
        open == Ascending({i \in DOMAIN base[key].rules : Opened(base, key, i, visited)})
    IN  FoldLeft(LAMBDA r, i : IF r.failed THEN r ELSE ApplyRule(r, key, i, op, faulty),
                 [db |-> base, failed |-> FALSE, outcomes |-> <<>>], open)

\* apply_rules_on_destinations: every rule is applied, whatever becomes of the others.  A rule
\* reads its source and touches its own destination only, so their order does not matter.
ApplyRules(db, key, op, visited, faulty) ==
    LET base == GetCompactionSeries(db, key, visited)
        open == Ascending({i \in DOMAIN base[key].rules : Opened(base, key, i, visited)})
    IN  FoldLeft(LAMBDA r, i : ApplyRule(r, key, i, op, faulty),
                 [db |-> base, failed |-> FALSE, outcomes |-> <<>>], open)

\* What the next level is given: a removal passes on its range, a write the samples it stored.
Queued(op, outcomes) ==
    LET live == SelectSeq(outcomes, LAMBDA o : op.type = "remove" \/ o.written # <<>>)
        Batch(o) == [type |-> "batch", samples |-> DedupeWritten(o.written),
                     prev_last |-> o.prev_last,
                     order |-> [i \in DOMAIN DedupeWritten(o.written) |->
                                   DedupeWritten(o.written)[i].timestamp]]
    IN  [i \in DOMAIN live |-> [key |-> live[i].dest,
                                op  |-> IF op.type = "remove" THEN op ELSE Batch(live[i])]]

\* The cascade loop: a stack of destinations still to be passed on from.
RECURSIVE Cascade(_, _, _, _)
Cascade(db, pending, visited, faulty) ==
    IF pending = <<>> THEN [db |-> db, failed |-> FALSE]
    ELSE LET top  == pending[Len(pending)]
             rest == SubSeq(pending, 1, Len(pending) - 1)
             seen == visited \cup {top.key}
             Onward(r) ==
                 IF r.failed THEN [db |-> r.db, failed |-> TRUE]
                 ELSE Cascade(r.db, rest \o Queued(top.op, r.outcomes), seen, faulty)
         IN  IF top.key \in visited \/ db[top.key] = None \/ db[top.key].rules = <<>>
               THEN Cascade(db, rest, visited, faulty)
             ELSE Onward(ApplyRules(db, top.key, top.op, seen, faulty))

\* process_series_with_compaction and apply_compaction: the cascade starts at the series itself.
ApplyCompaction(db, key, op, faulty) ==
    Cascade(db, <<[key |-> key, op |-> op]>>, {}, faulty)

-----------------------------------------------------------------------------
(* Links *)

\* live_source_key: whether the source a series names still has a rule for it.
HasLiveSource(db, key) ==
    LET src == db[key].src
    IN  /\ src # None /\ db[src] # None
        /\ \E i \in DOMAIN db[src].rules : db[src].rules[i].dest = key

\* get_latest_compaction_sample: the open bucket of the rule that feeds a destination.
LatestSample(db, key) ==
    LET src  == db[key].src
        mine == {i \in DOMAIN db[src].rules : db[src].rules[i].dest = key}
        rule == db[src].rules[Min(mine)]
    IN  IF src = None \/ db[src] = None \/ mine = {} \/ rule.bucket_start = None THEN None
        ELSE [timestamp |-> rule.bucket_start, value |-> AggValue(rule.kind, rule.acc)]

\* dependency_reaches, over rules whose destination links back.
RECURSIVE DependencyReaches(_, _, _, _)
DependencyReaches(db, current, target, visited) ==
    /\ db[current] # None
    /\ \/ current = target
       \/ /\ current \notin visited
          /\ \E i \in DOMAIN db[current].rules :
                /\ LinksBack(db, current, db[current].rules[i])
                /\ DependencyReaches(db, db[current].rules[i].dest, target, visited \cup {current})

\* relink_renamed_series, once the series is stored under its new key.
RelinkRenamed(db, old, new) ==
    LET s == db[new]
        Fed(k)   == s.src = k /\ k # new
        Feeds(k) == \E i \in DOMAIN s.rules : s.rules[i].dest = k /\ k # new
    IN  [k \in Keys |->
            IF db[k] = None THEN None
            ELSE [db[k] EXCEPT
                     !.rules = [i \in DOMAIN @ |-> IF Fed(k) /\ @[i].dest = old
                                                     THEN [@[i] EXCEPT !.dest = new] ELSE @[i]],
                     !.src = IF Feeds(k) /\ @ = old THEN new ELSE @]]

-----------------------------------------------------------------------------

CONSTANTS
    RuleSpecs,      \* the rules TS.CREATERULE may make: source, dest, duration, align, kind
    Policies,       \* the configured policies: a rule spec for the keys each filter matches, and
                    \* the retention of the destination it creates
    Topologies,     \* the sequences of rules a behaviour may start with, made on empty series
    Writable,       \* the keys commands write samples to
    InputTimes,     \* the timestamps commands name
    InputValues,    \* the values of single writes
    Selections,     \* the series TS.MDEL may select: sequences of keys, in the order of their ids
    Batches,        \* the batches TS.MADD is given: sequences of samples
    Retentions,     \* the retention periods of the first series, by key
    Renames,        \* the pairs of keys RENAME may be given
    MaxWrites,      \* bound: writes, batches and deletes in one behaviour
    MaxCommands,    \* bound: commands that change keys or rules in one behaviour
    MaxFaults       \* bound: writes to a destination that fail in one behaviour

ASSUME CompactionAssumption ==
    /\ InputTimes \subseteq 0 .. MaxTimestamp
    /\ \A r \in RuleSpecs : r.source \in Keys /\ r.dest \in Keys /\ r.duration \in Nat \ {0}
    /\ MaxWrites \in Nat /\ MaxCommands \in Nat /\ MaxFaults \in Nat

VARIABLES
    db,             \* the series under each key, or None
    exact,          \* destinations fed since both ends were empty, and never by a failed write
    made,           \* the rule TS.CREATERULE made for the series under each key
    cut,            \* destinations of destinations below a TS.DEL
    agree,          \* whether each batch so far ended as its items one by one would have
    mirrored,       \* whether each TS.MDEL so far over series that do not feed each other left a
                    \* replica as it left the primary
    writes,         \* writes so far
    commands,       \* key and rule commands so far
    faults          \* failed writes so far

vars == <<db, exact, made, cut, agree, mirrored, writes, commands, faults>>

Exists(k) == db[k] # None

\* A series that a live rule feeds.  Clients may write to one; the model leaves that out, since
\* then nothing relates it to its source.
IsDestination(k) == Exists(k) /\ HasLiveSource(db, k)

\* The keys reached from k through rules.
RECURSIVE Below(_, _)
Below(k, n) ==
    IF n = 0 \/ ~Exists(k) THEN {}
    ELSE UNION {{db[k].rules[i].dest} \cup Below(db[k].rules[i].dest, n - 1) :
                   i \in DOMAIN db[k].rules}
Downstream(k) == Below(k, Cardinality(Keys))

\* The keys fed by the rules of a destination of k.
SecondLevel(k) == UNION {Downstream(db[k].rules[i].dest) : i \in DOMAIN db[k].rules}

\* remove_compaction_rule: the first rule for the destination goes.
WithoutRule(s, dest) ==
    LET mine == {i \in DOMAIN s.rules : s.rules[i].dest = dest}
    IN  IF mine = {} THEN s ELSE [s EXCEPT !.rules = RemoveAt(@, Min(mine))]

\* The keyspace once a rule is made: what TS.CREATERULE stores at both ends.
WithRule(d, r) ==
    [d EXCEPT ![r.source] = [WithoutRule(@, r.dest) EXCEPT
                                !.rules = Append(@, NewRule(r.dest, r.duration, r.align, r.kind))],
              ![r.dest].src = r.source]

\* What a rule computes.
Computes(r) == [duration |-> r.duration, align |-> r.align, kind |-> r.kind]

Init ==
    /\ \E retention \in Retentions, t \in Topologies :
          /\ db = FoldLeft(WithRule, [k \in Keys |-> IF k \in DOMAIN retention
                                                     THEN NewSeries(retention[k]) ELSE None], t)
          /\ made = FoldLeft(LAMBDA m, r : [m EXCEPT ![r.dest] = Computes(r)], [k \in Keys |-> None], t)
          /\ exact = {t[i].dest : i \in DOMAIN t}
    /\ cut = {} /\ agree = TRUE /\ mirrored = TRUE
    /\ writes = 0 /\ commands = 0 /\ faults = 0

-----------------------------------------------------------------------------
(* Writes *)

\* TS.ADD on a database value: the write, its retention trim, then compaction.
AddTo(d, k, sample, faulty) ==
    LET old    == d[k]
        ts     == sample.timestamp
        series == ApplyRetention(Put(old, ts, sample.value))
        op     == IF LastTs(old) # None /\ ts <= LastTs(old)
                    THEN [type |-> "upsert", sample |-> sample]
                    ELSE [type |-> "new", sample |-> sample]
    IN  IF old.retention # 0 /\ ts < Floor(old) THEN [db |-> d, failed |-> FALSE]
        ELSE ApplyCompaction([d EXCEPT ![k] = series], k, op, faulty)

\* The items of a TS.MADD group that are stored, in input order: an item is too old against the
\* items before it only.
AcceptStep(retention, a, sample) ==
    IF retention # 0 /\ a.max # None /\ sample.timestamp < FloorAt(retention, a.max) THEN a
    ELSE [max   |-> IF a.max = None THEN sample.timestamp ELSE Max({a.max, sample.timestamp}),
          items |-> Append(a.items, sample)]

Accepted(s, batch) ==
    FoldLeft(LAMBDA a, x : AcceptStep(s.retention, a, x), [max |-> LastTs(s), items |-> <<>>],
             batch).items

\* TS.MADD for one key: merge, one batch of compaction over what the series then stores, and only
\* then the retention trim.
MAddTo(d, k, batch, faulty) ==
    LET old    == d[k]
        items  == Accepted(old, batch)
        merged == FoldLeft(LAMBDA s, x : Put(s, x.timestamp, x.value), old, items)
        times  == Ascending({items[i].timestamp : i \in DOMAIN items})
        added  == [i \in DOMAIN times |-> [timestamp |-> times[i],
                                           value |-> merged.samples[times[i]]]]
        op     == [type |-> "batch", samples |-> added, prev_last |-> LastTs(old),
                   order |-> [i \in DOMAIN items |-> items[i].timestamp]]
    IN  IF items = <<>> THEN [db |-> d, failed |-> FALSE]
        ELSE [ApplyCompaction([d EXCEPT ![k] = merged], k, op, faulty)
                 EXCEPT !.db[k] = ApplyRetention(@)]

\* reported_last_sample in strict mode: the marker while it names a stored sample inside the
\* retention window, else the last sample.
ReportedLast(s) ==
    IF s.src # None /\ s.marker \in DOMAIN s.samples /\ s.marker >= Floor(s) THEN s.marker
    ELSE LastTs(s)

\* What clients see of a keyspace.
Observable(d) ==
    [k \in Keys |-> IF d[k] = None THEN None ELSE [d[k] EXCEPT !.marker = ReportedLast(d[k])]]

\* Batches are compared on chains fed from the start whose destinations keep everything: with a
\* retention of its own, a destination may refuse an old bucket that, published earlier, it would
\* have passed on before dropping it.
Comparable(k) == \A j \in Downstream(k) : j \in exact /\ db[j].retention = 0

\* The same items one TS.ADD at a time.
AddOneByOne(d, k, batch) ==
    FoldLeft(LAMBDA e, x : AddTo(e, k, x, {}).db, d, batch)

\* A failed write leaves its destination behind, and nothing is passed on below the source.
Behind(k, r, faulty) == IF r.failed THEN faulty \cup SecondLevel(k) ELSE {}

Write == writes < MaxWrites /\ writes' = writes + 1

SameReplica == UNCHANGED mirrored

Add(k, sample, faulty) ==
    /\ Exists(k) /\ ~IsDestination(k) /\ Write
    /\ \E r \in {AddTo(db, k, sample, faulty)} :
        /\ faulty # {} => faults < MaxFaults /\ r.failed
        /\ db' = r.db
        /\ exact' = exact \ Behind(k, r, faulty)
        /\ faults' = IF r.failed THEN faults + 1 ELSE faults
    /\ SameReplica /\ UNCHANGED <<made, cut, agree, commands>>

MAdd(k, batch) ==
    /\ Exists(k) /\ ~IsDestination(k) /\ Write
    /\ \E r \in {MAddTo(db, k, batch, {})} :
        /\ db' = r.db
        /\ agree' = (agree /\ (Comparable(k) => Observable(r.db) = Observable(AddOneByOne(db, k, batch))))
    /\ SameReplica /\ UNCHANGED <<exact, made, cut, commands, faults>>

\* TS.DEL: remove_range_with_compaction runs the rules only when something was deleted.
DelTo(d, k, start, end) ==
    LET series == RemoveRange(d[k], start, end)
    IN  IF series = d[k] THEN d
        ELSE ApplyCompaction([d EXCEPT ![k] = series], k,
                             [type |-> "remove", start |-> start, end |-> end], {}).db

Delete(k, start, end) ==
    /\ Exists(k) /\ ~IsDestination(k) /\ start <= end /\ Write
    /\ db' = DelTo(db, k, start, end)
    /\ cut' = cut \cup SecondLevel(k)
    /\ SameReplica /\ UNCHANGED <<exact, made, agree, commands, faults>>

\* delete_range_batch: every series loses the range, then the rules of those that lost samples
\* run one after the other; an error ends the command.
DeleteRangeBatch(d, order, start, end, faulty) ==
    LET hit     == SelectSeq(order, LAMBDA k : RemoveRange(d[k], start, end) # d[k])
        removed == FoldLeft(LAMBDA e, k : [e EXCEPT ![k] = RemoveRange(@, start, end)], d, order)
        op      == [type |-> "remove", start |-> start, end |-> end]
    IN  FoldLeft(LAMBDA r, k : IF r.failed THEN r ELSE ApplyCompaction(r.db, k, op, faulty),
                 [db |-> removed, failed |-> FALSE], hit)

\* Mutant: only what feeds other series is replicated.
ReplicatedFeeding(d, order, start, end) ==
    LET hit == SelectSeq(order, LAMBDA k : /\ RemoveRange(d[k], start, end) # d[k]
                                           /\ d[k].rules # <<>>)
    IN  FoldLeft(LAMBDA e, k : DelTo(e, k, start, end), d, hit)

\* What TS.MDEL replicates, a TS.DEL for each series that lost samples, leaves a replica with.
Replicated(d, order, start, end) ==
    LET hit == SelectSeq(order, LAMBDA k : RemoveRange(d[k], start, end) # d[k])
    IN  FoldLeft(LAMBDA e, k : DelTo(e, k, start, end), d, hit)

\* TS.MDEL with a range, over series that fit in one batch of fetch_series_batch.
MDelete(order, start, end) ==
    LET selected == ToSet(order)
        apart    == \A k \in selected : Downstream(k) \cap selected = {}
    IN  /\ (\A k \in selected : Exists(k)) /\ start <= end /\ Write
        /\ \E after \in {DeleteRangeBatch(db, order, start, end, {}).db} :
              /\ db' = after
              /\ mirrored' = (mirrored /\ (apart => Observable(after)
                                                     = Observable(Replicated(db, order, start, end))))
        /\ exact' = exact \ selected
        /\ cut' = cut \cup UNION {SecondLevel(k) : k \in selected}
        /\ UNCHANGED <<made, agree, commands, faults>>

-----------------------------------------------------------------------------
(* Rules and keys *)

Command == commands < MaxCommands /\ commands' = commands + 1 /\ UNCHANGED <<cut, agree, mirrored, writes, faults>>

\* TS.CREATERULE: no back-fill, whatever both series hold.
CreateRule(r) ==
    /\ Command
    /\ r.source # r.dest /\ Exists(r.source) /\ Exists(r.dest)
    /\ ~HasLiveSource(db, r.dest)
    /\ ~DependencyReaches(db, r.dest, r.source, {})
    /\ db' = WithRule(db, r)
    /\ made' = [made EXCEPT ![r.dest] = Computes(r)]
    /\ exact' = IF /\ db[r.source].samples = EmptyMap /\ db[r.dest].samples = EmptyMap
                   /\ db[r.dest].marker = None
                  THEN exact \cup {r.dest} ELSE exact \ {r.dest}

\* TS.DELETERULE: the link is cleared only when it names this source.
DeleteRule(source, dest) ==
    /\ Command
    /\ source # dest /\ Exists(source) /\ Exists(dest)
    /\ \E i \in DOMAIN db[source].rules : db[source].rules[i].dest = dest
    /\ db' = [db EXCEPT ![source] = WithoutRule(@, dest),
                        ![dest].src = IF @ = source THEN None ELSE @]
    /\ exact' = exact \ {dest} /\ UNCHANGED made

\* create_compaction_rules: one policy for each destination key, whichever of those that name it
\* was inserted last.
PolicyRules(k) ==
    LET mine  == {p \in Policies : p.source = k}
        dests == {p.dest : p \in mine}
    IN  {c \in SUBSET mine : Cardinality(c) = Cardinality(dests) /\ {p.dest : p \in c} = dests}

\* add_default_compactions: a destination that exists is left alone, and gets no rule.
WithPolicies(d, k, chosen) ==
    FoldSet(LAMBDA p, e : WithRule([e EXCEPT ![p.dest] = NewSeries(p.retention)], p), d,
            {p \in chosen : d[p.dest] = None})

\* create_and_store_series.
CreateKey(k) ==
    /\ Command /\ ~Exists(k)
    /\ \E chosen \in PolicyRules(k) :
          LET fed == {p \in chosen : ~Exists(p.dest) /\ p.dest # k}
          IN  /\ db' = WithPolicies([db EXCEPT ![k] = NewSeries(0)], k, chosen)
              /\ made' = [j \in Keys |-> IF j = k THEN None
                                         ELSE IF \E p \in fed : p.dest = j
                                         THEN Computes(CHOOSE p \in fed : p.dest = j)
                                         ELSE made[j]]
              /\ exact' = (exact \ {k}) \cup {p.dest : p \in fed}

\* DEL, and TS.MDEL without a range: the other ends keep their links, which no longer hold.
DeleteKeys(S) ==
    /\ Command /\ \A k \in S : Exists(k)
    /\ db' = [k \in Keys |-> IF k \in S THEN None ELSE db[k]]
    /\ exact' = exact \ S /\ UNCHANGED made

\* RENAME: what the new key held is gone, and the partners of the series are relinked.
Rename(old, new) ==
    /\ Command /\ Exists(old) /\ old # new
    /\ db' = RelinkRenamed([db EXCEPT ![new] = db[old], ![old] = None], old, new)
    /\ made' = [made EXCEPT ![new] = made[old]]
    /\ exact' = (exact \ {old, new}) \cup (IF old \in exact THEN {new} ELSE {})

\* A restart from the RDB file: the marker is not saved.
Restart ==
    /\ Command
    /\ db' = [k \in Keys |-> IF Exists(k) THEN [db[k] EXCEPT !.marker = None] ELSE None]
    /\ UNCHANGED <<exact, made>>

Next ==
    \/ \E k \in Writable, ts \in InputTimes, v \in InputValues, faulty \in SUBSET Keys :
          Cardinality(faulty) <= 1 /\ Add(k, [timestamp |-> ts, value |-> v], faulty)
    \/ \E k \in Writable, batch \in Batches : MAdd(k, batch)
    \/ \E k \in Writable, start, end \in InputTimes : Delete(k, start, end)
    \/ \E order \in Selections, start, end \in InputTimes : MDelete(order, start, end)
    \/ \E r \in RuleSpecs : CreateRule(r)
    \/ \E source, dest \in Keys : DeleteRule(source, dest)
    \/ \E k \in Keys : CreateKey(k)
    \/ \E S \in {{k} : k \in Keys} \cup {ToSet(order) : order \in Selections} : DeleteKeys(S)
    \/ \E p \in Renames : Rename(p[1], p[2])
    \/ Restart

Spec == Init /\ [][Next]_vars

-----------------------------------------------------------------------------
(* Properties *)

\* The live rules, as pairs of a source and the position of the rule that is applied.
Live == {p \in Keys \X (1 .. Cardinality(RuleSpecs)) :
            Exists(p[1]) /\ p[2] \in DOMAIN db[p[1]].rules /\ Opened(db, p[1], p[2], {})}

\* The buckets a source has left behind, with what its samples aggregate to.
Closed(s, rule) ==
    LET open   == BucketStart(rule, LastTs(s))
        starts == {BucketStart(rule, t) : t \in DOMAIN s.samples} \ {open}
    IN  [b \in starts |-> AggValue(rule.kind, CalculateRange(s, b, BucketEnd(rule, b) - 1, 0, {}))]

\* Whether a destination and its rule's open bucket are what the source's samples say.
Describes(s, rule, dest) ==
    IF s.samples = EmptyMap THEN dest.samples = EmptyMap
    ELSE LET open == BucketStart(rule, LastTs(s))
         IN  /\ dest.samples = Closed(s, rule)
             /\ rule.bucket_start = open
             /\ rule.acc = CalculateRange(s, open, BucketEnd(rule, open) - 1, 0, {})
             /\ LatestSample(db, rule.dest) = [timestamp |-> open,
                                               value |-> AggValue(rule.kind, rule.acc)]

\* The rules whose two ends keep everything and that have fed their destination from the start.
Faithful ==
    {p \in Live : LET dest == db[p[1]].rules[p[2]].dest
                  IN  dest \in exact /\ db[p[1]].retention = 0 /\ db[dest].retention = 0}

\* The marker TS.GET reports in strict mode names a sample the destination holds, after any mix of
\* forward closes, back-fills and removals: a dead one could be revived by a later write.  (A
\* destination's own retention, and a TS.DEL on a series no rule feeds any more, may leave a dead
\* one; ReportedLast ignores it.)
MarkerLive ==
    \A k \in exact :
        IsDestination(k) /\ db[k].retention = 0 /\ db[k].marker # None => db[k].marker \in DOMAIN db[k].samples

\* A destination fed from the start holds exactly the buckets older than its source's open one,
\* each aggregated from the samples the source has now, and the open bucket's aggregator holds the
\* rest: writes in any order, batches, chains of rules, deletes of any range from the first
\* source, renames and failures of sibling rules included.  Its marker is a live one.
DestinationExact ==
    /\ \A p \in Faithful :
          LET rule == db[p[1]].rules[p[2]]
          IN  rule.dest \notin cut => Describes(db[p[1]], rule, db[rule.dest])
    /\ MarkerLive

\* A batch leaves every series, open bucket and marker as its items would have, written one at a
\* time: back-fills, repeated timestamps and items that expire others within the batch included.
BatchAgrees == agree

\* The TS.DELs a TS.MDEL replicates leave a replica with the same series as the primary, whose own
\* removals all came before the first rule ran, when no selected series feeds another.
ReplicaAgrees == mirrored

\* Rules never form a cycle, whatever was deleted, re-created or renamed in between, so a pass
\* never meets a series it is already writing.
NoCycle ==
    \A p \in Live : ~DependencyReaches(db, db[p[1]].rules[p[2]].dest, p[1], {})

\* The rule applied to a destination is the one made for that series: a key that was deleted and
\* re-created, or that another series was renamed to, never gets output meant for another.
OwnRule == \A p \in Live : Computes(db[p[1]].rules[p[2]]) = made[db[p[1]].rules[p[2]].dest]

\* After any mix of TS.CREATERULE, TS.DELETERULE, renames, deletes and re-creations, a write runs
\* through rules that form no cycle and reaches only the series its rules were made for.
RulesSound == NoCycle /\ OwnRule
=============================================================================
