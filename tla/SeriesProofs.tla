---------------------------- MODULE SeriesProofs ----------------------------
(***************************************************************************)
(* Proofs about Series for every bound, chunk capacity, encoding and scan  *)
(* threshold: the type invariant, the order of the chunks, the metadata    *)
(* kept by deltas, that expired samples stay out of view, and that every   *)
(* read answers from exactly the live samples.                             *)
(***************************************************************************)
EXTENDS Series, SeriesWriteProofs

-----------------------------------------------------------------------------
(* The inductive invariant *)

IInv == SeriesOK(series) /\ reply \in Results

-----------------------------------------------------------------------------
(* The commands *)

LEMMA AddSampleOK ==
    ASSUME NEW s, SeriesOK(s), NEW sample \in Samples, NEW policy,
           FoldIsBounded(s, sample, policy),
           NEW full \in FullOutcomes(s), NEW split \in SplitOutcomes(s, sample.timestamp)
    PROVE  LET r == AddSample(s, sample, policy, full, split)
               a == AddDeferringRetention(s, sample, policy, full, split).series
           IN  /\ SeriesOK(r.series)
               /\ r.result \in Results
               /\ r.series = a \/ r.series = ApplyRetention(a)
<1>. DEFINE r == AddDeferringRetention(s, sample, policy, full, split)
            q == AddSample(s, sample, policy, full, split)
<1>1. SeriesOK(r.series) /\ r.result \in Results /\ r = [series |-> r.series, result |-> r.result]
  BY AddDeferringRetentionOK
<1>2. q = IF r.result = "ok" THEN [r EXCEPT !.series = ApplyRetention(@)] ELSE r
  BY DEF AddSample
<1>. HIDE DEF r, q
<1>3. SeriesOK(ApplyRetention(r.series))
  BY <1>1, ApplyRetentionOK
<1>4. CASE r.result = "ok"
  <2>. DEFINE a == ApplyRetention(r.series)
  <2>1. q = [r EXCEPT !.series = ApplyRetention(@)]
    BY <1>2, <1>4
  <2>2. q = [series |-> a, result |-> r.result]
    BY <2>1, <1>1
  <2>. HIDE DEF a
  <2>3. q.series = a /\ q.result = r.result
    BY <2>2
  <2>. QED
    BY <2>3, <1>1, <1>3 DEF q, r, a
<1>5. CASE r.result # "ok"
  BY <1>1, <1>2, <1>5 DEF q, r
<1>. QED
  BY <1>4, <1>5

LEMMA InitOK ==
    ASSUME NEW r \in Nat
    PROVE  SeriesOK(EmptySeries(r))
<1>1. <<>> \in Seq(Chunks) /\ DOMAIN <<>> = {}
  OBVIOUS
<1>2. Stored(<<>>) = {} /\ Cardinality(Stored(<<>>)) = 0
  BY <1>1, FS_EmptySet DEF Stored
<1>3. 0 \in Timestamps
  BY ConstantsAssumption DEF Timestamps
<1>. QED
  BY <1>1, <1>2, <1>3 DEF SeriesOK, SeriesType, EmptySeries, Ordered, Described

LEMMA RdbLoadOK ==
    ASSUME NEW s, SeriesOK(s)
    PROVE  SeriesOK(RdbLoad(s)) /\ RdbLoad(s) = s
<1>. DEFINE v == [s EXCEPT !.total_samples = SampleCount(s.chunks)]
<1>1. s \in SeriesType /\ WellFormed(s.chunks) /\ s.total_samples = Cardinality(Stored(s.chunks))
  BY SeriesOKFacts
<1>2. SampleCount(s.chunks) = s.total_samples
  BY <1>1, CountStored
<1>3. v = s
  BY <1>1, <1>2 DEF SeriesType
<1>4. RdbLoad(s) = UpdateFirstLastTimestamps(s)
  BY <1>3 DEF RdbLoad
<1>5. UpdateFirstLastTimestamps(s) = s
  BY Zenon, <1>1 DEF UpdateFirstLastTimestamps, SeriesOK, Described, SeriesType
<1>. QED
  BY <1>4, <1>5

LEMMA AlterOK ==
    ASSUME NEW s, SeriesOK(s), NEW r \in Nat
    PROVE  SeriesOK([s EXCEPT !.retention = r])
<1>. DEFINE v == [s EXCEPT !.retention = r]
<1>1. s \in SeriesType
  BY SeriesOKFacts
<1>2. /\ v \in SeriesType /\ v.chunks = s.chunks /\ v.total_samples = s.total_samples
      /\ v.first_timestamp = s.first_timestamp /\ v.last_sample = s.last_sample
  BY <1>1 DEF SeriesType
<1>. HIDE DEF v
<1>3. SeriesOK(v)
  BY <1>2 DEF SeriesOK, Described
<1>. QED
  BY <1>3 DEF v

\* One step of Add, as the relation of the old and the new series.
LEMMA AddStep ==
    ASSUME IInv, NEW sample \in Samples, NEW policy, Add(sample, policy)
    PROVE  /\ IInv'
           /\ \E a : /\ SeriesOK(a) /\ a.retention = series.retention
                     /\ Stored(series.chunks) \subseteq Stored(a.chunks)
                     /\ series' = a \/ series' = ApplyRetention(a)
<1>1. PICK full \in FullOutcomes(series), split \in SplitOutcomes(series, sample.timestamp) :
        LET r == AddSample(series, sample, policy, full, split)
        IN  series' = r.series /\ reply' = r.result
  BY DEF Add
<1>2. SeriesOK(series) /\ FoldIsBounded(series, sample, policy)
  BY DEF Add, IInv
<1>. DEFINE a == AddDeferringRetention(series, sample, policy, full, split).series
<1>3. /\ SeriesOK(series') /\ reply' \in Results
      /\ series' = a \/ series' = ApplyRetention(a)
  BY <1>1, <1>2, AddSampleOK
<1>4. /\ SeriesOK(a) /\ a.retention = series.retention
      /\ Stored(series.chunks) \subseteq Stored(a.chunks)
  BY <1>2, AddDeferringRetentionOK
<1>. HIDE DEF a
<1>. QED
  BY <1>3, <1>4 DEF IInv

LEMMA NextOK == IInv /\ [Next]_vars => IInv'
<1>. SUFFICES ASSUME IInv, [Next]_vars PROVE IInv'
  OBVIOUS
<1>0. SeriesOK(series) /\ reply \in Results
  BY DEF IInv
<1>1. ASSUME NEW ts \in InputTimes, NEW v \in InputValues, NEW policy \in InputPolicies,
             Add([timestamp |-> ts, value |-> v], policy)
      PROVE  IInv'
  <2>1. [timestamp |-> ts, value |-> v] \in Samples
    BY InputsAssumption DEF Samples
  <2>. QED
    BY <1>1, <2>1, AddStep
<1>2. ASSUME NEW ts \in InputTimes, NEW delta \in 0 .. MaxValue, IncrementSampleValue(ts, delta)
      PROVE  IInv'
  <2>1. CASE UNCHANGED series /\ reply' = "error"
    BY <2>1, <1>0 DEF IInv, Results
  <2>2. ASSUME NEW value \in Values, Add([timestamp |-> ts, value |-> value], "last")
        PROVE  IInv'
    <3>1. [timestamp |-> ts, value |-> value] \in Samples
      BY InputsAssumption DEF Samples
    <3>. QED
      BY <2>2, <3>1, AddStep
  <2>. QED
    BY <1>2, <2>1, <2>2 DEF IncrementSampleValue
<1>3. ASSUME NEW start \in InputTimes, NEW end \in InputTimes, Delete(start, end)
      PROVE  IInv'
  <2>1. start \in Timestamps /\ end \in Timestamps
    BY InputsAssumption
  <2>2. SeriesOK(RemoveRange(series, start, end))
    BY <2>1, <1>0, RemoveRangeOK
  <2>. QED
    BY <2>2, <1>3 DEF Delete, IInv, Results
<1>4. ASSUME NEW r \in Retentions, AlterRetention(r)
      PROVE  IInv'
  <2>1. SeriesOK([series EXCEPT !.retention = r])
    BY <1>0, InputsAssumption, AlterOK
  <2>2. SeriesOK(ApplyRetention([series EXCEPT !.retention = r]))
    BY <2>1, ApplyRetentionOK
  <2>. QED
    BY <2>2, <1>4 DEF AlterRetention, IInv, Results
<1>5. CASE TrimCron
  <2>1. SeriesOK(Trim(series))
    BY Zenon, <1>0, TrimExpiredOK DEF Trim
  <2>. QED
    BY SMTT(30), <2>1, <1>0, <1>5 DEF TrimCron, IInv
<1>6. CASE SaveAndReload
  <2>1. SeriesOK(RdbLoad(series))
    BY <1>0, RdbLoadOK
  <2>. QED
    BY <2>1, <1>0, <1>6 DEF SaveAndReload, IInv, Results
<1>7. CASE UNCHANGED vars
  BY <1>0, <1>7 DEF IInv, vars
<1>. QED
  BY Zenon, <1>1, <1>2, <1>3, <1>4, <1>5, <1>6, <1>7 DEF Next

\* The chunk list stays ordered and the metadata exact under every command and task.
THEOREM Invariance == Spec => []IInv
<1>1. Init => IInv
  <2>. SUFFICES ASSUME NEW r \in Retentions, series = EmptySeries(r), reply = "ok" PROVE IInv
    BY DEF Init
  <2>1. SeriesOK(series)
    BY InputsAssumption, InitOK
  <2>. QED
    BY <2>1 DEF IInv, Results
<1>. QED
  BY <1>1, NextOK, PTL DEF Spec

\* Type correctness of the series record and the reply.
THEOREM TypeCorrect == Spec => []TypeOK
<1>1. IInv => TypeOK
  BY DEF IInv, SeriesOK, TypeOK
<1>. QED
  BY <1>1, Invariance, PTL

\* Chunks are ordered and disjoint in every reachable state: appends, upserts with and without
\* a split, prefix trims, range removals and reloads all keep it.
THEOREM OrderedAlways == Spec => []ChunksOrdered
<1>1. IInv => ChunksOrdered
  BY SMTT(30), SeriesOKFacts, OrderedEnds DEF IInv, ChunksOrdered
<1>. QED
  BY <1>1, Invariance, PTL

\* total_samples, first_timestamp and last_sample, kept by deltas on every path, always agree
\* with the chunks.
THEOREM MetadataAlways == Spec => []MetadataExact
<1>1. IInv => MetadataExact
  BY DEF IInv, SeriesOK, Described, MetadataExact
<1>. QED
  BY <1>1, Invariance, PTL
-----------------------------------------------------------------------------
(* Expired samples stay out of view *)

\* Without retention nothing is expired.
LEMMA NothingExpired ==
    ASSUME NEW s, SeriesOK(s), s.retention = 0, NEW t \in Stored(s.chunks)
    PROVE  t >= GetMinTimestamp(s)
<1>1. s.chunks # <<>>
  BY SeriesOKFacts, OrderedEnds
<1>2. s.first_timestamp <= t /\ s.first_timestamp \in Nat /\ t \in Nat
  BY SMTT(30), <1>1, SeriesOKFacts, CountStored, ConstantsAssumption DEF Timestamps
<1>. QED
  BY <1>2 DEF GetMinTimestamp

\* A step that keeps the live samples does not lower the retention floor.
LEMMA FloorMonotone ==
    ASSUME NEW s, SeriesOK(s), NEW u, SeriesOK(u), u.retention = s.retention, s.retention # 0,
           \A t \in Stored(s.chunks) : t >= GetMinTimestamp(s) => t \in Stored(u.chunks)
    PROVE  GetMinTimestamp(s) <= GetMinTimestamp(u)
<1>0. s.retention \in Nat /\ GetMinTimestamp(s) \in Nat /\ GetMinTimestamp(u) \in Nat
  BY SeriesOKFacts, FloorType, ConstantsAssumption DEF Timestamps
<1>1. CASE s.chunks = <<>>
  <2>1. s.last_sample = None
    BY <1>1, SeriesOKFacts
  <2>2. GetMinTimestamp(s) = 0
    BY <2>1 DEF GetMinTimestamp
  <2>. QED
    BY <2>2, <1>0
<1>2. CASE s.chunks # <<>>
  <2>. DEFINE x == s.last_sample.timestamp
              y == u.last_sample.timestamp
  <2>1. x \in Stored(s.chunks) /\ s.last_sample # None
    BY <1>2, SeriesOKFacts
  <2>2. x \in Nat
    BY SMTT(30), <2>1, SeriesOKFacts, CountStored, ConstantsAssumption DEF Timestamps
  <2>3. GetMinTimestamp(s) = IF x < s.retention THEN 0 ELSE x - s.retention
    BY <2>1 DEF GetMinTimestamp
  <2>4. x >= GetMinTimestamp(s)
    BY <2>2, <2>3, <1>0
  <2>5. x \in Stored(u.chunks)
    BY <2>1, <2>4
  <2>6. u.chunks # <<>>
    BY SMTT(30), <2>5, SeriesOKFacts, OrderedEnds
  <2>7. x <= y /\ u.last_sample # None /\ y \in Stored(u.chunks)
    BY SMTT(30), <2>5, <2>6, SeriesOKFacts
  <2>8. y \in Nat
    BY SMTT(30), <2>7, SeriesOKFacts, CountStored, ConstantsAssumption DEF Timestamps
  <2>9. GetMinTimestamp(u) = IF y < s.retention THEN 0 ELSE y - s.retention
    BY <2>7 DEF GetMinTimestamp
  <2>. HIDE DEF x, y
  <2>. QED
    BY SMTT(30), <2>2, <2>3, <2>7, <2>8, <2>9, <1>0
<1>. QED
  BY <1>1, <1>2

LEMMA NextHides ==
    ASSUME IInv, [Next]_vars, series'.retention = series.retention,
           NEW t \in Stored(series.chunks), ~(t >= GetMinTimestamp(series)),
           t \in Stored(series'.chunks)
    PROVE  ~(t >= GetMinTimestamp(series'))
<1>0. SeriesOK(series) /\ SeriesOK(series') /\ series.retention # 0
  BY NextOK, NothingExpired DEF IInv
<1>1. t \in Nat /\ GetMinTimestamp(series) \in Nat /\ GetMinTimestamp(series') \in Nat
  BY SMTT(30), <1>0, SeriesOKFacts, CountStored, FloorType, ConstantsAssumption DEF Timestamps
<1>2. SUFFICES GetMinTimestamp(series) <= GetMinTimestamp(series')
  BY <1>1
<1>3. ASSUME NEW sample \in Samples, NEW policy, Add(sample, policy)
      PROVE  GetMinTimestamp(series) <= GetMinTimestamp(series')
  <2>1. PICK a : /\ SeriesOK(a) /\ a.retention = series.retention
                 /\ Stored(series.chunks) \subseteq Stored(a.chunks)
                 /\ series' = a \/ series' = ApplyRetention(a)
    BY <1>3, AddStep
  <2>2. GetMinTimestamp(series) <= GetMinTimestamp(a)
    BY <2>1, <1>0, FloorMonotone
  <2>3. CASE series' = a
    BY <2>2, <2>3
  <2>4. CASE series' = ApplyRetention(a)
    <3>1. \A v \in Stored(a.chunks) : v >= GetMinTimestamp(a) => v \in Stored(series'.chunks)
      BY SMTT(30), <2>1, <2>4, ApplyRetentionOK
    <3>2. GetMinTimestamp(a) <= GetMinTimestamp(series')
      BY SMTT(30), <3>1, <2>1, <1>0, FloorMonotone
    <3>3. GetMinTimestamp(a) \in Nat
      BY <2>1, FloorType, ConstantsAssumption DEF Timestamps
    <3>. QED
      BY SMTT(30), <3>2, <3>3, <2>2, <1>1
  <2>. QED
    BY SMTT(30), <2>1, <2>3, <2>4
<1>4. CASE UNCHANGED series
  BY <1>1, <1>4
<1>5. ASSUME NEW ts \in InputTimes, NEW v \in InputValues, NEW policy \in InputPolicies,
             Add([timestamp |-> ts, value |-> v], policy)
      PROVE  GetMinTimestamp(series) <= GetMinTimestamp(series')
  <2>1. [timestamp |-> ts, value |-> v] \in Samples
    BY InputsAssumption DEF Samples
  <2>. QED
    BY SMTT(30), <1>3, <1>5, <2>1
<1>6. ASSUME NEW ts \in InputTimes, NEW delta \in 0 .. MaxValue, IncrementSampleValue(ts, delta)
      PROVE  GetMinTimestamp(series) <= GetMinTimestamp(series')
  <2>1. ASSUME NEW value \in Values, Add([timestamp |-> ts, value |-> value], "last")
        PROVE  GetMinTimestamp(series) <= GetMinTimestamp(series')
    <3>1. [timestamp |-> ts, value |-> value] \in Samples
      BY InputsAssumption DEF Samples
    <3>. QED
      BY SMTT(30), <1>3, <2>1, <3>1
  <2>. QED
    BY SMTT(30), <1>4, <1>6, <2>1 DEF IncrementSampleValue
<1>7. ASSUME NEW start \in InputTimes, NEW end \in InputTimes, Delete(start, end)
      PROVE  GetMinTimestamp(series) <= GetMinTimestamp(series')
  <2>1. start \in Timestamps /\ end \in Timestamps
    BY InputsAssumption
  <2>2. series' = series \/ \A v \in Stored(series'.chunks) : v >= GetMinTimestamp(series)
    BY SMTT(30), <2>1, <1>0, <1>7, RemoveRangeOK DEF Delete
  <2>. QED
    BY SMTT(30), <2>2, <1>4
<1>8. ASSUME NEW r \in Retentions, AlterRetention(r)
      PROVE  FALSE
  <2>. DEFINE v == [series EXCEPT !.retention = r]
  <2>1. SeriesOK(v)
    BY SMTT(30), <1>0, InputsAssumption, AlterOK
  <2>2. v.retention = r
    BY <1>0, SeriesOKFacts DEF SeriesType
  <2>. HIDE DEF v
  <2>3. series'.retention = r
    BY Zenon, <2>1, <2>2, <1>8, ApplyRetentionOK DEF AlterRetention, v
  <2>. QED
    BY <2>3, <1>8 DEF AlterRetention
<1>9. CASE TrimCron
  <2>1. \A v \in Stored(series.chunks) : v >= GetMinTimestamp(series) => v \in Stored(series'.chunks)
    BY Zenon, <1>0, <1>9, TrimExpiredOK DEF TrimCron, Trim
  <2>. QED
    BY <2>1, <1>0, FloorMonotone
<1>10. CASE SaveAndReload
  BY <1>0, <1>4, <1>10, RdbLoadOK DEF SaveAndReload
<1>. QED
  BY Zenon, <1>4, <1>5, <1>6, <1>7, <1>8, <1>9, <1>10 DEF Next, vars

\* A sample below the retention floor is never returned again while the retention period stays
\* the same: writes and trims never lower the floor, and a delete drops the expired prefix
\* before it can pull the floor back.
THEOREM NoResurrection == Spec => FloorNeverResurrects
<1>1. IInv /\ [Next]_vars =>
        [series'.retention = series.retention =>
            (Stored(series.chunks) \ Live(series)) \cap Live(series') = {}]_vars
  <2>. SUFFICES ASSUME IInv, [Next]_vars, series'.retention = series.retention,
                       NEW t \in Stored(series.chunks) \ Live(series), t \in Live(series')
                PROVE  FALSE
    BY Zenon
  <2>1. t \in Stored(series.chunks) /\ ~(t >= GetMinTimestamp(series))
    BY DEF Live
  <2>2. t \in Stored(series'.chunks) /\ t >= GetMinTimestamp(series')
    BY DEF Live
  <2>. QED
    BY SMTT(30), <2>1, <2>2, NextHides
<1>. QED
  BY <1>1, Invariance, PTL DEF Spec, FloorNeverResurrects

-----------------------------------------------------------------------------
(* Samples of a range *)

\* The stored samples of a list of chunks between two timestamps.
Within(cs, start, end) == UNION {SamplesIn(cs[i], start, end) : i \in DOMAIN cs}

\* A member of Within, chunk and timestamp named.
LEMMA WithinMember ==
    ASSUME NEW cs, NEW start, NEW end, NEW x
    PROVE  x \in Within(cs, start, end) <=>
               \E i \in DOMAIN cs : \E t \in DOMAIN cs[i] :
                   start <= t /\ t <= end /\ x = [timestamp |-> t, value |-> cs[i][t]]
  BY DEF Within, SamplesIn

\* The chunks get_chunk_index_bounds leaves out hold no sample of the range.
LEMMA BetweenFacts ==
    ASSUME NEW cs, WellFormed(cs), NEW start \in Timestamps, NEW end \in Timestamps
    PROVE  SamplesBetween(cs, start, end) = Within(cs, start, end)
<1>. DEFINE b == GetChunkIndexBounds(cs, start, end)
<1>0. DOMAIN cs = 1 .. Len(cs) /\ Len(cs) \in Nat
  BY WellFormedFacts
<1>1. /\ b = None => \A i \in DOMAIN cs : \A t \in DOMAIN cs[i] : ~(start <= t /\ t <= end)
      /\ b # None => /\ b[1] \in 1 .. Len(cs) /\ b[2] \in 0 .. Len(cs)
                     /\ \A i \in DOMAIN cs : \A t \in DOMAIN cs[i] :
                           start <= t /\ t <= end => b[1] <= i /\ i <= b[2]
  BY BoundsFacts
<1>2. SamplesBetween(cs, start, end) =
          IF b = None THEN {} ELSE UNION {SamplesIn(cs[i], start, end) : i \in b[1] .. b[2]}
  BY DEF SamplesBetween
<1>. HIDE DEF b
<1>3. CASE b = None
  <2>1. ASSUME NEW x \in Within(cs, start, end) PROVE FALSE
    BY <1>1, <1>3, <2>1, WithinMember
  <2>. QED
    BY <1>2, <1>3, <2>1
<1>4. CASE b # None
  <2>1. b[1] .. b[2] \subseteq DOMAIN cs
    BY <1>0, <1>1, <1>4
  <2>2. ASSUME NEW x \in SamplesBetween(cs, start, end) PROVE x \in Within(cs, start, end)
    BY <1>2, <1>4, <2>1, <2>2 DEF Within
  <2>3. ASSUME NEW x \in Within(cs, start, end) PROVE x \in SamplesBetween(cs, start, end)
    <3>1. PICK i \in DOMAIN cs : x \in SamplesIn(cs[i], start, end)
      BY <2>3 DEF Within
    <3>2. PICK t \in DOMAIN cs[i] : start <= t /\ t <= end
      BY <3>1 DEF SamplesIn
    <3>3. b[1] <= i /\ i <= b[2]
      BY <1>1, <1>4, <3>2
    <3>4. i \in b[1] .. b[2]
      BY <1>0, <1>1, <1>4, <3>3
    <3>. QED
      BY <1>2, <1>4, <3>1, <3>4
  <2>. QED
    BY <2>2, <2>3
<1>. QED
  BY <1>3, <1>4

\* A read clamped to the retention floor is a part of the live samples.
LEMMA ClampedWithin ==
    ASSUME NEW s, SeriesOK(s), NEW start \in Timestamps, NEW end \in Timestamps
    PROVE  /\ MaxOf({start, GetMinTimestamp(s)}) \in Timestamps
           /\ Within(s.chunks, MaxOf({start, GetMinTimestamp(s)}), end)
                  = {x \in LiveSamples(s) : start <= x.timestamp /\ x.timestamp <= end}
<1>. DEFINE floor == GetMinTimestamp(s)
            from  == MaxOf({start, floor})
            cs    == s.chunks
<1>1. WellFormed(cs) /\ DOMAIN cs = 1 .. Len(cs) /\ \A i \in DOMAIN cs : cs[i] \in Chunks
  BY SeriesOKFacts, WellFormedFacts
<1>2. floor \in Timestamps
  BY FloorType
<1>3. Timestamps \subseteq Nat /\ \A t \in Timestamps : t <= MaxTimestamp
  BY ConstantsAssumption DEF Timestamps
<1>4. from = IF start <= floor THEN floor ELSE start
  BY Zenon, <1>2, <1>3, MaxOfTwo
<1>5. \A i \in DOMAIN cs : DOMAIN cs[i] \in SUBSET Timestamps
  BY <1>1, ChunkFacts
<1>6. LiveSamples(s) = Within(cs, floor, MaxTimestamp)
  BY DEF LiveSamples, Within
<1>. HIDE DEF floor, from, cs
<1>7. from \in Timestamps
  BY <1>2, <1>4
<1>8. \A t \in Timestamps : from <= t <=> start <= t /\ floor <= t
  BY <1>2, <1>3, <1>4
<1>9. ASSUME NEW x
      PROVE  (x \in Within(cs, from, end)) <=>
             (x \in Within(cs, floor, MaxTimestamp) /\ start <= x.timestamp /\ x.timestamp <= end)
  <2>1. ASSUME x \in Within(cs, from, end)
        PROVE  x \in Within(cs, floor, MaxTimestamp) /\ start <= x.timestamp /\ x.timestamp <= end
    <3>0. PICK i \in DOMAIN cs : \E t \in DOMAIN cs[i] :
              from <= t /\ t <= end /\ x = [timestamp |-> t, value |-> cs[i][t]]
      BY <2>1, WithinMember
    <3>1. PICK t \in DOMAIN cs[i] :
              from <= t /\ t <= end /\ x = [timestamp |-> t, value |-> cs[i][t]]
      BY <3>0
    <3>2. start <= t /\ floor <= t /\ t <= MaxTimestamp /\ x.timestamp = t
      BY <1>3, <1>5, <1>8, <3>1
    <3>. QED
      BY <3>1, <3>2, WithinMember
  <2>2. ASSUME x \in Within(cs, floor, MaxTimestamp), start <= x.timestamp, x.timestamp <= end
        PROVE  x \in Within(cs, from, end)
    <3>0. PICK i \in DOMAIN cs : \E t \in DOMAIN cs[i] :
              floor <= t /\ t <= MaxTimestamp /\ x = [timestamp |-> t, value |-> cs[i][t]]
      BY <2>2, WithinMember
    <3>1. PICK t \in DOMAIN cs[i] :
              floor <= t /\ t <= MaxTimestamp /\ x = [timestamp |-> t, value |-> cs[i][t]]
      BY <3>0
    <3>2. from <= t /\ t <= end
      BY <1>5, <1>8, <2>2, <3>1
    <3>. QED
      BY <3>1, <3>2, WithinMember
  <2>. QED
    BY <2>1, <2>2
<1>. QED
  BY <1>6, <1>7, <1>9 DEF cs, from, floor

\* A range that holds a stored sample passes the tests reads do first.
LEMMA OverlapsFacts ==
    ASSUME NEW s, SeriesOK(s), NEW start \in Timestamps, NEW end \in Timestamps,
           NEW t \in Stored(s.chunks), start <= t, t <= end
    PROVE  Overlaps(s, start, end)
<1>1. s.chunks # <<>> /\ s.last_sample # None
  BY SeriesOKFacts, OrderedEnds
<1>2. /\ s.first_timestamp <= t /\ t <= s.last_sample.timestamp
      /\ s.first_timestamp \in Timestamps /\ s.last_sample.timestamp \in Timestamps
  <2>1. s.last_sample \in Samples
    BY <1>1, SeriesOKFacts
  <2>. QED
    BY <1>1, <2>1, SeriesOKFacts DEF Samples
<1>3. s.total_samples > 0
  <2>1. /\ IsFiniteSet(Stored(s.chunks)) /\ Stored(s.chunks) # {}
        /\ s.total_samples = Cardinality(Stored(s.chunks))
    BY SeriesOKFacts, CountStored
  <2>2. s.total_samples # 0 /\ s.total_samples \in Nat
    BY <2>1, FS_EmptySet, SeriesOKFacts
  <2>. QED
    BY <2>2
<1>4. /\ t \in Nat /\ start \in Nat /\ end \in Nat
      /\ s.first_timestamp \in Nat /\ s.last_sample.timestamp \in Nat
  <2>1. t \in Timestamps
    BY SeriesOKFacts, CountStored
  <2>. QED
    BY <1>2, <2>1, ConstantsAssumption DEF Timestamps
<1>5. s.last_sample.timestamp >= start /\ s.first_timestamp <= end
  BY <1>2, <1>4
<1>. QED
  BY <1>1, <1>3, <1>5 DEF Overlaps

\* get_range returns the live samples of the range.
LEMMA GetRangeOK ==
    ASSUME NEW s, SeriesOK(s), NEW start \in Timestamps, NEW end \in Timestamps
    PROVE  GetRange(s, start, end)
               = {x \in LiveSamples(s) : start <= x.timestamp /\ x.timestamp <= end}
<1>. DEFINE from == MaxOf({start, GetMinTimestamp(s)})
            want == {x \in LiveSamples(s) : start <= x.timestamp /\ x.timestamp <= end}
<1>1. from \in Timestamps /\ Within(s.chunks, from, end) = want /\ WellFormed(s.chunks)
  BY ClampedWithin, SeriesOKFacts
<1>2. GetRange(s, start, end) = IF from > end \/ ~Overlaps(s, from, end) THEN {}
                                ELSE SamplesBetween(s.chunks, from, end)
  BY DEF GetRange
<1>. SUFFICES GetRange(s, start, end) = want
  OBVIOUS
<1>. HIDE DEF from, want
<1>3. SamplesBetween(s.chunks, from, end) = want
  BY <1>1, BetweenFacts
<1>4. ASSUME NEW x \in want PROVE ~(from > end) /\ Overlaps(s, from, end)
  <2>1. PICK i \in DOMAIN s.chunks : \E t \in DOMAIN s.chunks[i] : from <= t /\ t <= end
    BY <1>1, WithinMember
  <2>2. PICK t \in DOMAIN s.chunks[i] : from <= t /\ t <= end
    BY <2>1
  <2>3. t \in Stored(s.chunks) /\ t \in Nat /\ from \in Nat /\ end \in Nat
    <3>1. t \in Stored(s.chunks)
      BY DEF Stored
    <3>. QED
      BY <1>1, <3>1, CountStored, ConstantsAssumption DEF Timestamps
  <2>4. Overlaps(s, from, end)
    BY <1>1, <2>2, <2>3, OverlapsFacts
  <2>. QED
    BY <2>2, <2>3, <2>4
<1>5. CASE want = {}
  BY <1>2, <1>3, <1>5
<1>6. CASE want # {}
  BY <1>2, <1>3, <1>4, <1>6
<1>. QED
  BY <1>5, <1>6

\* has_samples_in_range tells whether the range holds a live sample.
LEMMA HasSamplesOK ==
    ASSUME NEW s, SeriesOK(s), NEW start \in Timestamps, NEW end \in Timestamps
    PROVE  HasSamplesInRange(s, start, end) <=>
               {x \in LiveSamples(s) : start <= x.timestamp /\ x.timestamp <= end} # {}
<1>. DEFINE from == MaxOf({start, GetMinTimestamp(s)})
            want == {x \in LiveSamples(s) : start <= x.timestamp /\ x.timestamp <= end}
<1>1. from \in Timestamps /\ Within(s.chunks, from, end) = want /\ WellFormed(s.chunks)
  BY ClampedWithin, SeriesOKFacts
<1>2. HasSamplesInRange(s, start, end)
          <=> (Overlaps(s, start, end) /\ SamplesBetween(s.chunks, from, end) # {})
  BY DEF HasSamplesInRange
<1>3. want = {x \in LiveSamples(s) : start <= x.timestamp /\ x.timestamp <= end}
  OBVIOUS
<1>. HIDE DEF from
<1>4. SamplesBetween(s.chunks, from, end) = want
  BY <1>1, BetweenFacts
<1>5. ASSUME NEW x \in want PROVE Overlaps(s, start, end)
  <2>1. PICK i \in DOMAIN s.chunks :
          \E t \in DOMAIN s.chunks[i] : x = [timestamp |-> t, value |-> s.chunks[i][t]]
    BY <1>1, WithinMember
  <2>2. PICK t \in DOMAIN s.chunks[i] : x = [timestamp |-> t, value |-> s.chunks[i][t]]
    BY <2>1
  <2>3. t \in Stored(s.chunks) /\ start <= t /\ t <= end
    BY <2>2 DEF Stored
  <2>. QED
    BY <2>3, OverlapsFacts
<1>. HIDE DEF want
<1>. QED
  BY <1>2, <1>3, <1>4, <1>5

\* A timestamp is found in the chunk that holds it.
LEMMA ChunkOfStored ==
    ASSUME NEW cs, WellFormed(cs), NEW i \in DOMAIN cs, NEW t \in DOMAIN cs[i]
    PROVE  GetChunkIndex(cs, t) = i
<1>. DEFINE k == GetChunkIndex(cs, t)
<1>0. DOMAIN cs = 1 .. Len(cs) /\ Len(cs) \in Nat /\ \A j \in DOMAIN cs : cs[j] \in Chunks
  BY WellFormedFacts
<1>1. t \in Timestamps /\ t \in Nat
  BY <1>0, ChunkFacts, ConstantsAssumption DEF Timestamps
<1>2. \A j \in DOMAIN cs : /\ FirstTimestamp(cs[j]) \in Nat /\ LastTimestamp(cs[j]) \in Nat
                           /\ \A u \in DOMAIN cs[j] : FirstTimestamp(cs[j]) <= u /\ u <= LastTimestamp(cs[j])
  BY <1>0, ChunkEnds, ConstantsAssumption DEF Timestamps
<1>3. /\ k \in 1 .. Len(cs) + 1
      /\ k <= Len(cs) => InRange(cs[k], t)
      /\ k > Len(cs) => \A j \in DOMAIN cs : ~InRange(cs[j], t)
  BY <1>1, GetChunkIndexFacts
<1>. HIDE DEF k
<1>4. InRange(cs[i], t)
  BY <1>2 DEF InRange
<1>5. k \in DOMAIN cs /\ FirstTimestamp(cs[k]) <= t /\ t <= LastTimestamp(cs[k])
  BY <1>0, <1>3, <1>4 DEF InRange
<1>6. \A p, q \in DOMAIN cs : p < q => LastTimestamp(cs[p]) < FirstTimestamp(cs[q])
  BY OrderedEnds
<1>7. ~(k < i) /\ ~(i < k)
  BY <1>1, <1>2, <1>5, <1>6
<1>. QED
  BY <1>0, <1>5, <1>7 DEF k

\* FILTER_BY_TS returns the live samples of the range at the timestamps it names.
LEMMA FilteredOK ==
    ASSUME NEW s, SeriesOK(s), NEW start \in Timestamps, NEW end \in Timestamps,
           NEW wanted \in SUBSET Timestamps
    PROVE  GetRangeFiltered(s, start, end, wanted)
               = {x \in LiveSamples(s) : /\ start <= x.timestamp /\ x.timestamp <= end
                                         /\ x.timestamp \in wanted}
<1>. DEFINE from == MaxOf({start, GetMinTimestamp(s)})
            cs   == s.chunks
            W    == {t \in wanted : from <= t /\ t <= end}
            At(t) == IF GetChunkIndex(cs, t) <= Len(cs)
                       THEN SamplesIn(cs[GetChunkIndex(cs, t)], t, t) ELSE {}
            got  == GetRangeFiltered(s, start, end, wanted)
            want == {x \in LiveSamples(s) : start <= x.timestamp /\ x.timestamp <= end}
<1>1. /\ from \in Timestamps /\ Within(cs, from, end) = want
      /\ WellFormed(cs) /\ DOMAIN cs = 1 .. Len(cs) /\ Len(cs) \in Nat
      /\ \A i \in DOMAIN cs : DOMAIN cs[i] \in SUBSET Nat
  BY ClampedWithin, SeriesOKFacts, WellFormedFacts, ChunkFacts, ConstantsAssumption DEF Timestamps
<1>2. got = UNION {At(t) : t \in W}
  BY DEF GetRangeFiltered, SamplesByTimestamps
<1>. HIDE DEF from, cs, got
<1>3. ASSUME NEW x \in got PROVE x \in want /\ x.timestamp \in wanted
  <2>1. PICK t \in W : x \in At(t)
    BY <1>2, <1>3
  <2>. DEFINE k == GetChunkIndex(cs, t)
  <2>2. k <= Len(cs) /\ x \in SamplesIn(cs[k], t, t)
    BY <2>1
  <2>3. t \in Timestamps /\ t \in Nat
    BY ConstantsAssumption DEF Timestamps
  <2>4. k \in DOMAIN cs
    BY <1>1, <2>2, <2>3, GetChunkIndexFacts
  <2>. HIDE DEF k
  <2>5. PICK u \in DOMAIN cs[k] : t <= u /\ u <= t /\ x = [timestamp |-> u, value |-> cs[k][u]]
    BY <2>2 DEF SamplesIn
  <2>6. u = t
    BY <1>1, <2>3, <2>4, <2>5
  <2>7. x \in Within(cs, from, end)
    BY <2>4, <2>5, <2>6, WithinMember
  <2>. QED
    BY <1>1, <2>5, <2>6, <2>7
<1>4. ASSUME NEW x \in want, x.timestamp \in wanted PROVE x \in got
  <2>1. PICK i \in DOMAIN cs :
          \E t \in DOMAIN cs[i] : from <= t /\ t <= end /\ x = [timestamp |-> t, value |-> cs[i][t]]
    BY <1>1, WithinMember
  <2>2. PICK t \in DOMAIN cs[i] : from <= t /\ t <= end /\ x = [timestamp |-> t, value |-> cs[i][t]]
    BY <2>1
  <2>3. t \in W /\ t \in Nat
    BY <1>1, <1>4, <2>2
  <2>4. GetChunkIndex(cs, t) = i /\ i <= Len(cs)
    BY <1>1, ChunkOfStored
  <2>5. x \in SamplesIn(cs[i], t, t)
    BY <2>2, <2>3 DEF SamplesIn
  <2>6. x \in At(t)
    BY <2>4, <2>5
  <2>. QED
    BY <1>2, <2>3, <2>6
<1>. HIDE DEF want
<1>5. got = {x \in want : x.timestamp \in wanted}
  <2>1. \A x : (x \in got) <=> (x \in want /\ x.timestamp \in wanted)
    BY <1>3, <1>4
  <2>. QED
    BY <2>1
<1>. QED
  BY <1>5 DEF got, want

-----------------------------------------------------------------------------
(* TS.INFO *)

\* The chunks that start before the floor, cut at the floor, hold the expired samples.
LEMMA ExpiredPart ==
    ASSUME NEW cs, WellFormed(cs), NEW min \in Timestamps, min # 0
    PROVE  LET expired == [i \in 1 .. FirstStartingAfter(cs, min - 1) - 1 |->
                              ChunkRemoveRange(cs[i], min, MaxTimestamp)]
           IN  SampleCount(expired) = Cardinality({t \in Stored(cs) : t < min})
<1>. DEFINE F == FirstStartingAfter(cs, min - 1)
            cut(i) == ChunkRemoveRange(cs[i], min, MaxTimestamp)
            expired == [i \in 1 .. F - 1 |-> cut(i)]
<1>0. /\ DOMAIN cs = 1 .. Len(cs) /\ Len(cs) \in Nat /\ \A i \in DOMAIN cs : cs[i] \in Chunks
      /\ min \in Nat /\ min - 1 \in Timestamps
  BY WellFormedFacts, ConstantsAssumption DEF Timestamps
<1>1. /\ F \in 1 .. Len(cs) + 1
      /\ F <= Len(cs) => FirstTimestamp(cs[F]) > min - 1
  BY <1>0, FirstStartingAfterFacts
<1>2. \A i \in DOMAIN cs : /\ DOMAIN cs[i] \in SUBSET Nat
                           /\ \A t \in DOMAIN cs[i] : t <= MaxTimestamp
                           /\ FirstTimestamp(cs[i]) \in Nat
                           /\ FirstTimestamp(cs[i]) \in DOMAIN cs[i]
                           /\ \A t \in DOMAIN cs[i] : FirstTimestamp(cs[i]) <= t
  BY <1>0, ChunkFacts, ChunkEnds, ConstantsAssumption DEF Timestamps
<1>. HIDE DEF F
<1>3. 1 .. F - 1 \subseteq DOMAIN cs /\ F - 1 \in Nat
  BY <1>0, <1>1
<1>4. \A i \in DOMAIN cs : cut(i) \in Pieces /\ DOMAIN cut(i) = {t \in DOMAIN cs[i] : t < min}
  <2>1. ASSUME NEW i \in DOMAIN cs PROVE cut(i) \in Pieces
    BY <1>0, ChunkRemoveRangeFacts
  <2>2. ASSUME NEW i \in DOMAIN cs PROVE DOMAIN cut(i) = {t \in DOMAIN cs[i] : t < min}
    <3>1. DOMAIN cut(i) = {u \in DOMAIN cs[i] : u < min \/ u > MaxTimestamp}
      BY DEF ChunkRemoveRange
    <3>2. \A u \in DOMAIN cs[i] : ~(u > MaxTimestamp)
      BY <1>2, ConstantsAssumption
    <3>. QED
      BY <3>1, <3>2
  <2>. QED
    BY <2>1, <2>2
<1>. HIDE DEF cut
<1>5. expired \in Seq(Pieces) /\ DOMAIN expired = 1 .. F - 1
  <2>1. \A i \in 1 .. F - 1 : cut(i) \in Pieces
    BY Zenon, <1>3, <1>4
  <2>2. expired \in [1 .. F - 1 -> Pieces]
    BY <2>1
  <2>. HIDE DEF expired
  <2>. QED
    BY <1>3, <2>2, FunctionIsSeq
<1>6. \A i \in DOMAIN expired : i \in DOMAIN cs /\ DOMAIN expired[i] = {t \in DOMAIN cs[i] : t < min}
  BY <1>3, <1>4
<1>. HIDE DEF expired
<1>7. Ordered(expired)
  BY Zenon, <1>6 DEF WellFormed, Ordered
<1>8. ASSUME NEW i \in DOMAIN cs, NEW t \in DOMAIN cs[i], t < min PROVE i \in DOMAIN expired
  <2>1. ASSUME i >= F PROVE FALSE
    <3>1. F \in DOMAIN cs /\ FirstTimestamp(cs[F]) > min - 1
      BY <1>0, <1>1, <2>1
    <3>2. FirstTimestamp(cs[F]) <= t
      <4>1. CASE i = F
        BY <1>2, <4>1
      <4>2. CASE i > F
        BY <1>2, <3>1, <4>2 DEF WellFormed, Ordered
      <4>. QED
        BY <1>0, <1>1, <2>1, <4>1, <4>2
    <3>. QED
      BY <1>0, <1>2, <1>8, <3>1, <3>2
  <2>. QED
    BY <1>0, <1>1, <1>5, <2>1
<1>9. Stored(expired) = {t \in Stored(cs) : t < min}
  <2>1. ASSUME NEW t \in Stored(expired) PROVE t \in Stored(cs) /\ t < min
    BY Zenon, <1>6 DEF Stored
  <2>2. ASSUME NEW t \in Stored(cs), t < min PROVE t \in Stored(expired)
    <3>1. PICK i \in DOMAIN cs : t \in DOMAIN cs[i]
      BY DEF Stored
    <3>2. i \in DOMAIN expired /\ t \in DOMAIN expired[i]
      BY Zenon, <1>6, <1>8, <2>2, <3>1
    <3>. QED
      BY <3>2 DEF Stored
  <2>. QED
    BY <2>1, <2>2
<1>10. SampleCount(expired) = Cardinality(Stored(expired))
  BY <1>5, <1>7, CountPieces
<1>. QED
  BY Zenon, <1>9, <1>10 DEF expired, cut, F

\* visible_total_samples counts the live samples.
LEMMA VisibleTotalOK ==
    ASSUME NEW s, SeriesOK(s)
    PROVE  VisibleTotalSamples(s) = Cardinality(Live(s))
<1>. DEFINE min == GetMinTimestamp(s)
            old == {t \in Stored(s.chunks) : t < min}
<1>1. /\ min \in Timestamps /\ min \in Nat /\ s.first_timestamp \in Nat /\ WellFormed(s.chunks)
      /\ Stored(s.chunks) \in SUBSET Nat /\ IsFiniteSet(Stored(s.chunks))
      /\ s.total_samples = Cardinality(Stored(s.chunks)) /\ s.total_samples \in Nat
  BY FloorType, SeriesOKFacts, CountStored, ConstantsAssumption DEF Timestamps
<1>2. Live(s) = {t \in Stored(s.chunks) : t >= min}
  BY DEF Live
<1>3. \A t \in Stored(s.chunks) : s.first_timestamp <= t
  BY SeriesOKFacts, OrderedEnds
<1>4. CASE s.first_timestamp >= min
  <2>1. VisibleTotalSamples(s) = s.total_samples
    BY <1>4 DEF VisibleTotalSamples
  <2>. HIDE DEF min
  <2>2. Live(s) = Stored(s.chunks)
    BY <1>1, <1>2, <1>3, <1>4
  <2>. QED
    BY <1>1, <2>1, <2>2
<1>5. CASE ~(s.first_timestamp >= min)
  <2>1. min # 0
    BY <1>1, <1>5
  <2>2. VisibleTotalSamples(s) = s.total_samples - Cardinality(old)
    BY Zenon, <1>1, <1>5, <2>1, ExpiredPart DEF VisibleTotalSamples
  <2>. HIDE DEF min
  <2>3. Live(s) = Stored(s.chunks) \ old /\ Stored(s.chunks) \cap old = old
    BY <1>1, <1>2
  <2>. HIDE DEF old
  <2>4. Cardinality(Stored(s.chunks) \ old)
          = Cardinality(Stored(s.chunks)) - Cardinality(Stored(s.chunks) \cap old)
    BY Zenon, <1>1, FS_Difference
  <2>. QED
    BY <1>1, <2>2, <2>3, <2>4
<1>. QED
  BY <1>4, <1>5

\* visible_first_timestamp is the oldest live timestamp.
LEMMA VisibleFirstOK ==
    ASSUME NEW s, SeriesOK(s), Live(s) # {}
    PROVE  VisibleFirstTimestamp(s) = MinOf(Live(s))
<1>. DEFINE min == GetMinTimestamp(s)
            seen == SamplesBetween(s.chunks, min, s.last_sample.timestamp)
<1>1. /\ min \in Timestamps /\ min \in Nat /\ s.first_timestamp \in Nat /\ WellFormed(s.chunks)
      /\ Stored(s.chunks) \in SUBSET Nat
  BY FloorType, SeriesOKFacts, CountStored, ConstantsAssumption DEF Timestamps
<1>2. Live(s) = {t \in Stored(s.chunks) : t >= min}
  BY DEF Live
<1>3. s.chunks # <<>>
  BY <1>1, <1>2, OrderedEnds
<1>4. /\ s.first_timestamp \in Stored(s.chunks)
      /\ s.last_sample.timestamp \in Timestamps
      /\ \A t \in Stored(s.chunks) : s.first_timestamp <= t /\ t <= s.last_sample.timestamp
  BY <1>1, <1>3, SeriesOKFacts, CountStored
<1>5. VisibleFirstTimestamp(s) = IF s.first_timestamp >= min \/ seen = {} THEN s.first_timestamp
                                 ELSE MinOf({x.timestamp : x \in seen})
  BY DEF VisibleFirstTimestamp
<1>6. seen = Within(s.chunks, min, s.last_sample.timestamp)
  BY <1>1, <1>4, BetweenFacts
<1>. HIDE DEF min, seen
<1>7. CASE s.first_timestamp >= min
  <2>1. Live(s) \in SUBSET Nat /\ s.first_timestamp \in Live(s) /\ \A t \in Live(s) : s.first_timestamp <= t
    BY <1>1, <1>2, <1>4, <1>7
  <2>2. MinOf(Live(s)) \in Live(s) /\ \A t \in Live(s) : MinOf(Live(s)) <= t
    BY <2>1, MinOfNaturals
  <2>3. s.first_timestamp = MinOf(Live(s))
    BY <2>1, <2>2
  <2>. QED
    BY <1>5, <1>7, <2>3
<1>8. CASE ~(s.first_timestamp >= min)
  <2>1. {x.timestamp : x \in seen} = Live(s)
    <3>1. ASSUME NEW x \in seen PROVE x.timestamp \in Live(s)
      <4>1. PICK i \in DOMAIN s.chunks :
              \E t \in DOMAIN s.chunks[i] : min <= t /\ x = [timestamp |-> t, value |-> s.chunks[i][t]]
        BY <1>6, WithinMember
      <4>2. PICK t \in DOMAIN s.chunks[i] : min <= t /\ x = [timestamp |-> t, value |-> s.chunks[i][t]]
        BY <4>1
      <4>3. t \in Stored(s.chunks)
        BY DEF Stored
      <4>. QED
        BY <1>1, <1>2, <4>2, <4>3
    <3>2. ASSUME NEW t \in Live(s) PROVE t \in {x.timestamp : x \in seen}
      <4>1. PICK i \in DOMAIN s.chunks : t \in DOMAIN s.chunks[i]
        BY <1>2 DEF Stored
      <4>. DEFINE y == [timestamp |-> t, value |-> s.chunks[i][t]]
      <4>2. min <= t /\ t <= s.last_sample.timestamp
        BY <1>1, <1>2, <1>4
      <4>3. y \in seen
        BY <1>6, <4>1, <4>2, WithinMember
      <4>4. y.timestamp = t
        OBVIOUS
      <4>. QED
        BY <4>3, <4>4
    <3>. QED
      BY <3>1, <3>2
  <2>2. seen # {}
    BY <2>1
  <2>. QED
    BY <1>5, <1>8, <2>1, <2>2
<1>. QED
  BY <1>7, <1>8

-----------------------------------------------------------------------------

\* Whatever was written, deleted, altered, trimmed and reloaded, every read (get_range,
\* has_samples_in_range, FILTER_BY_TS, the figures of TS.INFO) shows exactly the live samples.
THEOREM ReadsAlways == Spec => []ReadsExact
<1>1. IInv => RangesExact
  <2>. SUFFICES ASSUME IInv, NEW start \in Timestamps, NEW end \in Timestamps
                PROVE  LET want == {x \in LiveSamples(series) : start <= x.timestamp /\ x.timestamp <= end}
                       IN  /\ GetRange(series, start, end) = want
                           /\ HasSamplesInRange(series, start, end) <=> want # {}
                           /\ GetRangeFiltered(series, start, end, Timestamps) = want
    BY DEF RangesExact
  <2>. DEFINE want == {x \in LiveSamples(series) : start <= x.timestamp /\ x.timestamp <= end}
  <2>1. SeriesOK(series)
    BY DEF IInv
  <2>2. GetRange(series, start, end) = want
    BY <2>1, GetRangeOK
  <2>3. HasSamplesInRange(series, start, end) <=> want # {}
    BY <2>1, HasSamplesOK
  <2>4. GetRangeFiltered(series, start, end, Timestamps) = {x \in want : x.timestamp \in Timestamps}
    BY <2>1, FilteredOK
  <2>5. ASSUME NEW x \in want PROVE x.timestamp \in Timestamps
    <3>1. x \in Within(series.chunks, GetMinTimestamp(series), MaxTimestamp)
      BY DEF LiveSamples, Within
    <3>2. PICK i \in DOMAIN series.chunks :
            \E t \in DOMAIN series.chunks[i] : x = [timestamp |-> t, value |-> series.chunks[i][t]]
      BY <3>1, WithinMember
    <3>3. x.timestamp \in Stored(series.chunks)
      BY <3>2 DEF Stored
    <3>. QED
      BY <2>1, <3>3, SeriesOKFacts, CountStored
  <2>. HIDE DEF want
  <2>6. GetRangeFiltered(series, start, end, Timestamps) = want
    BY <2>4, <2>5
  <2>. QED
    BY <2>2, <2>3, <2>6 DEF want
<1>2. IInv => InfoExact
  BY VisibleTotalOK, VisibleFirstOK DEF IInv, InfoExact
<1>3. IInv => ReadsExact
  BY <1>1, <1>2 DEF ReadsExact
<1>. QED
  BY <1>3, Invariance, PTL
=============================================================================
