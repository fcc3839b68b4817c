------------------------------ MODULE SeriesOps ------------------------------
(***************************************************************************)
(* The operations of one chunked time series (struct TimeSeries) as        *)
(* operators from a series value to a series value.  A chunk is a function *)
(* from its timestamps to their values: the encodings (uncompressed,       *)
(* Gorilla, Chimp) store exactly that, in timestamp order.  What differs   *)
(* between encodings is the encoded size, hence when a chunk counts as     *)
(* full or as due for a split: exact for the uncompressed encoding, any    *)
(* outcome the worst-case sample size allows for the compressed ones.      *)
(***************************************************************************)
EXTENDS SampleOps, Sequences, FiniteSets

CONSTANTS
    Compressed,     \* whether the series uses a compressed encoding
    ChunkCapacity,  \* max_elements: samples that fill an uncompressed chunk
    LinearScanMax   \* LINEAR_SCAN_MAX: longer chunk lists are binary-searched

Results == {"ok", "duplicate", "ignored", "too_old", "error"}

\* ChunkCapacity is at least 3: the smallest chunk is 48 bytes, a sample 16.
ASSUME ConstantsAssumption ==
    /\ MaxTimestamp \in Nat
    /\ MaxValue \in Nat
    /\ Compressed \in BOOLEAN
    /\ ChunkCapacity \in Nat /\ ChunkCapacity >= 3
    /\ LinearScanMax \in Nat
    /\ MaxTimeDelta \in Nat
    /\ MaxValueDelta \in Nat
    /\ NaN \notin 0 .. MaxValue
    /\ None \notin Values
    /\ None \notin Samples
    /\ None \notin Nat \X Nat

-----------------------------------------------------------------------------
(* Chunks *)

Chunks == {c \in UNION {[S -> Values] : S \in SUBSET Timestamps} : DOMAIN c # {}}

FirstTimestamp(c) == MinOf(DOMAIN c)
LastTimestamp(c)  == MaxOf(DOMAIN c)
LastSample(c)     == [timestamp |-> LastTimestamp(c), value |-> c[LastTimestamp(c)]]
ChunkLen(c)       == Cardinality(DOMAIN c)

\* A compressed sample takes at most 20 bytes, so three are needed to pass 48 bytes.
MinFullLen == 3

\* The possible answers of is_full: data dependent for the compressed encodings.
IsFull(c) ==
    IF Compressed
      THEN IF ChunkLen(c) < MinFullLen THEN {FALSE} ELSE BOOLEAN
      ELSE {ChunkLen(c) >= ChunkCapacity}

\* The possible answers of should_split: utilization >= SPLIT_FACTOR = 1.2.
ShouldSplit(c) ==
    IF Compressed
      THEN IF ChunkLen(c) < MinFullLen THEN {FALSE} ELSE BOOLEAN
      ELSE {10 * ChunkLen(c) >= 12 * ChunkCapacity}

\* The chunk's remove_range, both ends inclusive; may leave the chunk empty.
ChunkRemoveRange(c, start, end) ==
    [t \in {u \in DOMAIN c : u < start \/ u > end} |-> c[t]]

\* split: the lower len/2 samples stay, the others move to a new chunk.
RankIn(c, t) == Cardinality({u \in DOMAIN c : u < t})
LowerHalf(c) == [t \in {u \in DOMAIN c : RankIn(c, u) < ChunkLen(c) \div 2} |-> c[t]]
UpperHalf(c) == [t \in {u \in DOMAIN c : RankIn(c, u) >= ChunkLen(c) \div 2} |-> c[t]]

-----------------------------------------------------------------------------
(* Chunk lists *)

\* The timestamps physically stored in a list of chunks.
Stored(cs) == UNION {DOMAIN cs[i] : i \in DOMAIN cs}

\* The sum of the chunk lengths: one pair per stored sample.
SampleCount(cs) ==
    Cardinality({p \in (DOMAIN cs) \X Timestamps : p[2] \in DOMAIN cs[p[1]]})

\* The first chunk whose range reaches ts, or one past the end.
FirstReaching(cs, ts) ==
    MinOf({i \in DOMAIN cs : LastTimestamp(cs[i]) >= ts} \cup {Len(cs) + 1})

\* The first chunk that starts after ts, or one past the end.
FirstStartingAfter(cs, ts) ==
    MinOf({i \in DOMAIN cs : FirstTimestamp(cs[i]) > ts} \cup {Len(cs) + 1})

InRange(c, ts) == FirstTimestamp(c) <= ts /\ ts <= LastTimestamp(c)

\* get_chunk_index: the chunk that contains ts, or one past the end; on an ordered list the
\* binary search and the linear scan find the same chunk.
GetChunkIndex(cs, ts) ==
    MinOf({i \in DOMAIN cs : InRange(cs[i], ts)} \cup {Len(cs) + 1})

InsertChunk(cs, i, c) ==
    [k \in 1 .. Len(cs) + 1 |-> IF k < i THEN cs[k] ELSE IF k = i THEN c ELSE cs[k - 1]]

DropChunks(cs, n) == [k \in 1 .. Len(cs) - n |-> cs[k + n]]

\* Vec::retain(|chunk| !chunk.is_empty()), as the increasing enumeration of what is kept.
RetainNonEmpty(cs) ==
    LET kept == {i \in DOMAIN cs : DOMAIN cs[i] # {}}
    IN  [r \in 1 .. Cardinality(kept) |->
            cs[CHOOSE i \in kept : Cardinality({j \in kept : j <= i}) = r]]

\* find_start_chunk_index: the first chunk whose range reaches ts, whatever the search used.
FindStartChunkIndex(cs, ts) ==
    IF cs # <<>> /\ ts <= FirstTimestamp(cs[1]) THEN 1 ELSE FirstReaching(cs, ts)

\* find_last_ge_index over the chunks from index `from` on.  The linear scan finds the last
\* chunk that starts at or before ts; the binary search finds where ts would be inserted.
FindLastGeIndex(cs, from, ts) ==
    IF Len(cs) - from + 1 <= LinearScanMax
      THEN MaxOf({from} \cup {i \in from .. Len(cs) : FirstTimestamp(cs[i]) <= ts})
      ELSE MinOf({i \in from .. Len(cs) : LastTimestamp(cs[i]) >= ts} \cup {Len(cs) + 1})

\* get_chunk_index_bounds: the inclusive range of chunks that may hold samples in start .. end,
\* as a pair of indices, or None.
GetChunkIndexBounds(cs, start, end) ==
    LET first == FindStartChunkIndex(cs, start)
        last  == MinOf({FindLastGeIndex(cs, first, end), Len(cs)})
    IN  IF \/ cs = <<>> \/ start > end
           \/ first > Len(cs)
           \/ first = last /\ FirstTimestamp(cs[first]) > end
          THEN None
          ELSE <<first, last>>

-----------------------------------------------------------------------------
(* Series *)

SeriesType ==
    [chunks : Seq(Chunks), total_samples : Nat, first_timestamp : Timestamps,
     last_sample : Samples \cup {None}, retention : Nat]

EmptySeries(retention) ==
    [chunks |-> <<>>, total_samples |-> 0, first_timestamp |-> 0,
     last_sample |-> None, retention |-> retention]

UpdateFirstLastTimestamps(s) ==
    [s EXCEPT !.first_timestamp = IF s.chunks = <<>> THEN 0 ELSE FirstTimestamp(s.chunks[1]),
              !.last_sample = IF s.chunks = <<>> THEN None
                              ELSE LastSample(s.chunks[Len(s.chunks)])]

\* The retention floor: the oldest timestamp reads may return.
GetMinTimestamp(s) ==
    IF s.retention = 0 THEN s.first_timestamp
    ELSE IF s.last_sample = None \/ s.last_sample.timestamp < s.retention THEN 0
    ELSE s.last_sample.timestamp - s.retention

\* Mutant: the sample at the floor itself counts as expired.
IsOlderThanRetentionInclusive(s, ts) == s.retention # 0 /\ ts <= GetMinTimestamp(s)

IsOlderThanRetention(s, ts) == s.retention # 0 /\ ts < GetMinTimestamp(s)

\* Mutant: the write path never trims a boundary chunk, whatever the encoding.
HeadTrimNever(c, min) == FALSE

\* A partly expired compressed head chunk is trimmed on the write path only once a quarter of
\* its time span has expired; an uncompressed one always.
HeadTrimDue(c, min) ==
    Compressed => 4 * (min - FirstTimestamp(c)) >= LastTimestamp(c) - FirstTimestamp(c)

\* The chunks left by trim_expired: whole expired chunks go, the boundary chunk loses its
\* expired prefix when forced or due.
TrimmedChunks(cs, min, force) ==
    LET kept == DropChunks(cs, FirstReaching(cs, min) - 1)
    IN  IF kept # <<>> /\ FirstTimestamp(kept[1]) < min /\ (force \/ HeadTrimDue(kept[1], min))
          THEN [kept EXCEPT ![1] = ChunkRemoveRange(kept[1], 0, min - 1)]
          ELSE kept

TrimExpired(s, force) ==
    LET min     == GetMinTimestamp(s)
        cs      == TrimmedChunks(s.chunks, min, force)
        deleted == SampleCount(s.chunks) - SampleCount(cs)
        trimmed == [s EXCEPT !.chunks = cs, !.total_samples = @ - deleted]
    IN  IF s.first_timestamp >= min THEN s
        ELSE IF deleted > 0 THEN UpdateFirstLastTimestamps(trimmed)
        ELSE trimmed

Trim(s) == TrimExpired(s, TRUE)

ApplyRetention(s) == IF s.retention = 0 THEN s ELSE TrimExpired(s, FALSE)

\* Mutant: the expired prefix is left in place.
RemoveRangeUntrimmed(s, start, end) ==
    LET from == MaxOf({start, GetMinTimestamp(s)})
        cs   == RetainNonEmpty([i \in DOMAIN s.chunks |->
                                   ChunkRemoveRange(s.chunks[i], from, end)])
    IN  IF start > end THEN s
        ELSE UpdateFirstLastTimestamps(
                [s EXCEPT !.chunks = cs, !.total_samples = SampleCount(cs)])

\* remove_range: with retention the expired prefix is dropped first, whatever the range.
RemoveRange(s, start, end) ==
    LET base   == IF s.retention = 0 THEN s ELSE Trim(s)
        from   == IF s.retention = 0 THEN start ELSE MaxOf({start, GetMinTimestamp(base)})
        bounds == GetChunkIndexBounds(base.chunks, from, end)
        cut    == [i \in DOMAIN base.chunks |->
                      IF bounds[1] <= i /\ i <= bounds[2]
                        THEN ChunkRemoveRange(base.chunks[i], from, end)
                        ELSE base.chunks[i]]
        count  == SampleCount(base.chunks) - SampleCount(cut)
    IN  IF start > end THEN s
        ELSE IF from > end \/ bounds = None THEN base
        ELSE UpdateFirstLastTimestamps(
                [base EXCEPT !.chunks = RetainNonEmpty(cut), !.total_samples = MaxOf({0, @ - count})])

-----------------------------------------------------------------------------
(* Writing one sample *)

\* record_appended_sample, on a series whose chunks already hold the sample.
RecordAppendedSample(s, sample) ==
    [s EXCEPT !.first_timestamp = IF s.total_samples = 0 THEN sample.timestamp ELSE @,
              !.last_sample = sample,
              !.total_samples = @ + 1]

\* add_sample_internal: append to the last chunk, or to a new one when there is none or it is
\* full.
AddSampleInternal(s, sample, full) ==
    LET n    == Len(s.chunks)
        unit == [t \in {sample.timestamp} |-> sample.value]
        cs   == IF n = 0 \/ full
                  THEN InsertChunk(s.chunks, n + 1, unit)
                  ELSE [s.chunks EXCEPT ![n] = ChunkUpsert(@, sample, "last")]
    IN  RecordAppendedSample([s EXCEPT !.chunks = cs], sample)

\* Mutant: a timestamp in a gap between chunks goes to the last chunk.
UpsertTargetLast(s, ts) ==
    LET n == Len(s.chunks)
    IN  IF ts <= s.first_timestamp THEN 1 ELSE MinOf({GetChunkIndex(s.chunks, ts), n})

\* The chunk an out-of-order or duplicate sample goes to: the first chunk below everything
\* stored, else the containing chunk, else the chunk after the gap, else the last.
UpsertTarget(s, ts) ==
    LET n == Len(s.chunks)
    IN  IF ts <= s.first_timestamp THEN 1
        ELSE IF GetChunkIndex(s.chunks, ts) <= n THEN GetChunkIndex(s.chunks, ts)
        ELSE MinOf({FirstStartingAfter(s.chunks, ts), n})

\* Mutant: an upsert below everything stored does not lower first_timestamp.
UpsertInPlaceKeepingFirst(s, sample, policy) ==
    LET i == UpsertTarget(s, sample.timestamp)
        c == ChunkUpsert(s.chunks[i], sample, policy)
    IN  [s EXCEPT !.chunks[i] = c,
                  !.total_samples = @ + (ChunkLen(c) - ChunkLen(s.chunks[i])),
                  !.last_sample = IF i = Len(s.chunks) THEN LastSample(c) ELSE @]

\* upsert_sample without a split.
UpsertInPlace(s, sample, policy) ==
    LET i == UpsertTarget(s, sample.timestamp)
        c == ChunkUpsert(s.chunks[i], sample, policy)
    IN  [s EXCEPT !.chunks[i] = c,
                  !.total_samples = @ + (ChunkLen(c) - ChunkLen(s.chunks[i])),
                  !.last_sample = IF i = Len(s.chunks) THEN LastSample(c) ELSE @,
                  !.first_timestamp = MinOf({@, sample.timestamp})]

\* The chunk list after chunk i is replaced by its lower half and the upper half is inserted at
\* its partition point.
SplitAt(cs, i, lower, upper) ==
    LET low == [cs EXCEPT ![i] = lower]
    IN  InsertChunk(low, FirstStartingAfter(low, FirstTimestamp(upper)), upper)

\* Whether, after a split of the target chunk, the upper half owns the sample.
IntoNew(c, sample) == sample.timestamp >= FirstTimestamp(UpperHalf(c))

OwningHalf(c, sample) == IF IntoNew(c, sample) THEN UpperHalf(c) ELSE LowerHalf(c)

\* upsert_sample with a split: the halves are kept even when the upsert is refused.
UpsertWithSplit(s, sample, policy) ==
    LET i     == UpsertTarget(s, sample.timestamp)
        c     == s.chunks[i]
        half  == OwningHalf(c, sample)
        wrote == ChunkUpsert(half, sample, policy)
        upper == IF IntoNew(c, sample) THEN wrote ELSE UpperHalf(c)
        lower == IF IntoNew(c, sample) THEN LowerHalf(c) ELSE wrote
    IN  IF UpsertRefused(half, sample, policy)
          THEN [s EXCEPT !.chunks = SplitAt(@, i, LowerHalf(c), UpperHalf(c))]
          ELSE UpdateFirstLastTimestamps(
                 [s EXCEPT !.chunks = SplitAt(@, i, lower, upper),
                           !.total_samples = @ + (ChunkLen(wrote) - ChunkLen(half))])

UpsertSample(s, sample, policy, split) ==
    LET c == s.chunks[UpsertTarget(s, sample.timestamp)]
    IN  IF split
          THEN [series |-> UpsertWithSplit(s, sample, policy),
                result |-> IF UpsertRefused(OwningHalf(c, sample), sample, policy)
                             THEN "duplicate" ELSE "ok"]
        ELSE IF UpsertRefused(c, sample, policy)
          THEN [series |-> s, result |-> "duplicate"]
        ELSE [series |-> UpsertInPlace(s, sample, policy), result |-> "ok"]

\* add_deferring_retention.  full and split are the answers the touched chunk gives to is_full
\* and should_split.
AddDeferringRetention(s, sample, policy, full, split) ==
    IF IsOlderThanRetention(s, sample.timestamp)
      THEN [series |-> s, result |-> "too_old"]
    ELSE IF s.last_sample = None
      THEN [series |-> AddSampleInternal(s, sample, full), result |-> "ok"]
    ELSE IF IsDuplicate(sample, s.last_sample, policy)
      THEN [series |-> s, result |-> "ignored"]
    ELSE IF sample.timestamp <= s.last_sample.timestamp
      THEN UpsertSample(s, sample, policy, split)
    ELSE [series |-> AddSampleInternal(s, sample, full), result |-> "ok"]

\* add: retention is applied after a successful write.
AddSample(s, sample, policy, full, split) ==
    LET r == AddDeferringRetention(s, sample, policy, full, split)
    IN  IF r.result = "ok" THEN [r EXCEPT !.series = ApplyRetention(@)] ELSE r

\* The answers is_full and should_split may give for this write.
FullOutcomes(s)      == IF s.chunks = <<>> THEN {FALSE} ELSE IsFull(s.chunks[Len(s.chunks)])
SplitOutcomes(s, ts) ==
    IF s.last_sample = None \/ ts > s.last_sample.timestamp THEN {FALSE}
    ELSE ShouldSplit(s.chunks[UpsertTarget(s, ts)])

\* Bound: the fold of this write stays among the modelled values.
FoldIsBounded(s, sample, policy) ==
    \A i \in DOMAIN s.chunks :
        sample.timestamp \in DOMAIN s.chunks[i] =>
            DuplicateValue(policy, s.chunks[i][sample.timestamp], sample.value)
                \in Values \cup {None}

-----------------------------------------------------------------------------
(* Reading *)

\* The samples of c in start .. end: what a chunk's get_range and range_iter return.
SamplesIn(c, start, end) ==
    {[timestamp |-> t, value |-> c[t]] : t \in {u \in DOMAIN c : start <= u /\ u <= end}}

\* is_empty and the range test that reads do before they look for chunks.
Overlaps(s, start, end) ==
    /\ s.total_samples > 0
    /\ s.last_sample # None /\ s.last_sample.timestamp >= start
    /\ s.first_timestamp <= end

SamplesBetween(cs, start, end) ==
    LET bounds == GetChunkIndexBounds(cs, start, end)
    IN  IF bounds = None THEN {}
        ELSE UNION {SamplesIn(cs[i], start, end) : i \in bounds[1] .. bounds[2]}

\* Mutant: the range is not clamped to the retention floor.
GetRangeUnclamped(s, start, end) ==
    IF ~Overlaps(s, start, end) THEN {} ELSE SamplesBetween(s.chunks, start, end)

GetRange(s, start, end) ==
    LET from == MaxOf({start, GetMinTimestamp(s)})
    IN  IF from > end \/ ~Overlaps(s, from, end) THEN {}
        ELSE SamplesBetween(s.chunks, from, end)

HasSamplesInRange(s, start, end) ==
    LET from == MaxOf({start, GetMinTimestamp(s)})
    IN  Overlaps(s, start, end) /\ SamplesBetween(s.chunks, from, end) # {}

\* samples_by_timestamps: one chunk lookup per requested timestamp.
SamplesByTimestamps(s, wanted) ==
    UNION {IF GetChunkIndex(s.chunks, t) <= Len(s.chunks)
             THEN SamplesIn(s.chunks[GetChunkIndex(s.chunks, t)], t, t) ELSE {} : t \in wanted}

\* get_range_filtered with FILTER_BY_TS.
GetRangeFiltered(s, start, end, wanted) ==
    LET from == MaxOf({start, GetMinTimestamp(s)})
    IN  SamplesByTimestamps(s, {t \in wanted : from <= t /\ t <= end})

\* visible_first_timestamp and visible_total_samples, as TS.INFO reports them.
VisibleFirstTimestamp(s) ==
    LET min  == GetMinTimestamp(s)
        seen == SamplesBetween(s.chunks, min, s.last_sample.timestamp)
    IN  IF s.first_timestamp >= min \/ seen = {} THEN s.first_timestamp
        ELSE MinOf({x.timestamp : x \in seen})

VisibleTotalSamples(s) ==
    LET min     == GetMinTimestamp(s)
        expired == [i \in 1 .. FirstStartingAfter(s.chunks, min - 1) - 1 |->
                       ChunkRemoveRange(s.chunks[i], min, MaxTimestamp)]
    IN  IF s.first_timestamp >= min THEN s.total_samples
        ELSE s.total_samples - SampleCount(expired)

-----------------------------------------------------------------------------
(* Save and load *)

\* UncompressedChunk::load_rdb refuses a chunk longer than the capacity saved with it.
LoadAccepts(c) == Compressed \/ ChunkLen(c) <= ChunkCapacity

\* rdb_load_series: the chunks and the retention are saved, the metadata is recomputed.
RdbLoad(s) ==
    UpdateFirstLastTimestamps([s EXCEPT !.total_samples = SampleCount(s.chunks)])

-----------------------------------------------------------------------------
(* What a series holds *)

\* The timestamps reads may return: stored and not below the retention floor.
Live(s) == {t \in Stored(s.chunks) : t >= GetMinTimestamp(s)}

\* The samples reads may return, with their values.
LiveSamples(s) ==
    UNION {SamplesIn(s.chunks[i], GetMinTimestamp(s), MaxTimestamp) : i \in DOMAIN s.chunks}

\* The chosen timestamps of a chunk list with their values, as one map.
MapOf(cs, times) == [t \in times |-> cs[CHOOSE i \in DOMAIN cs : t \in DOMAIN cs[i]][t]]
==============================================================================
