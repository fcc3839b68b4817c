-------------------------- MODULE SeriesWriteProofs --------------------------
(***************************************************************************)
(* What the operations that write one sample preserve: the append, the     *)
(* upsert with and without a split, and the choice between them.           *)
(***************************************************************************)
EXTENDS ChunkProofs

-----------------------------------------------------------------------------
(* Writing one sample *)

\* The upsert target: every other chunk lies on the right side of ts.
LEMMA UpsertTargetFacts ==
    ASSUME NEW s, SeriesOK(s), s.chunks # <<>>, NEW ts \in Timestamps
    PROVE  LET i == UpsertTarget(s, ts)
           IN  /\ i \in DOMAIN s.chunks
               /\ \A j \in DOMAIN s.chunks : j < i => \A t \in DOMAIN s.chunks[j] : t < ts
               /\ \A j \in DOMAIN s.chunks : j > i => \A t \in DOMAIN s.chunks[j] : ts < t
<1>. DEFINE cs == s.chunks
            n  == Len(cs)
            g  == GetChunkIndex(cs, ts)
            a  == FirstStartingAfter(cs, ts)
            i  == UpsertTarget(s, ts)
<1>0. /\ WellFormed(cs) /\ DOMAIN cs = 1 .. n /\ n \in Nat /\ n > 0
      /\ \A j \in DOMAIN cs : cs[j] \in Chunks
      /\ s.first_timestamp = FirstTimestamp(cs[1])
  BY SeriesOKFacts, WellFormedFacts
<1>1. i = IF ts <= s.first_timestamp THEN 1 ELSE IF g <= n THEN g ELSE MinOf({a, n})
  BY DEF UpsertTarget
<1>. HIDE DEF cs
<1>2. \A j, k \in DOMAIN cs : j < k => LastTimestamp(cs[j]) < FirstTimestamp(cs[k])
  BY <1>0, OrderedEnds
<1>3. \A j \in DOMAIN cs :
         /\ FirstTimestamp(cs[j]) \in Nat /\ LastTimestamp(cs[j]) \in Nat
         /\ FirstTimestamp(cs[j]) <= LastTimestamp(cs[j])
         /\ \A t \in DOMAIN cs[j] : t \in Nat /\ FirstTimestamp(cs[j]) <= t /\ t <= LastTimestamp(cs[j])
  <2>. SUFFICES ASSUME NEW j \in DOMAIN cs
                PROVE  /\ FirstTimestamp(cs[j]) \in Nat /\ LastTimestamp(cs[j]) \in Nat
                       /\ FirstTimestamp(cs[j]) <= LastTimestamp(cs[j])
                       /\ \A t \in DOMAIN cs[j] : t \in Nat /\ FirstTimestamp(cs[j]) <= t
                                                  /\ t <= LastTimestamp(cs[j])
    OBVIOUS
  <2>1. cs[j] \in Chunks
    BY <1>0
  <2>2. Timestamps \subseteq Nat
    BY ConstantsAssumption DEF Timestamps
  <2>. QED
    BY <2>1, <2>2, ChunkEnds, ChunkFacts
<1>4. ts \in Nat
  BY ConstantsAssumption DEF Timestamps
<1>5. /\ i \in DOMAIN cs
      /\ \A j \in DOMAIN cs : j < i => LastTimestamp(cs[j]) < ts
      /\ \A j \in DOMAIN cs : j > i => ts < FirstTimestamp(cs[j])
  <2>1. CASE ts <= s.first_timestamp
    <3>1. i = 1 /\ 1 \in DOMAIN cs
      BY <2>1, <1>0, <1>1
    <3>2. ASSUME NEW j \in DOMAIN cs, j > 1 PROVE ts < FirstTimestamp(cs[j])
      <4>1. LastTimestamp(cs[1]) < FirstTimestamp(cs[j])
        BY <3>1, <3>2, <1>2
      <4>. QED
        BY <4>1, <3>1, <2>1, <1>0, <1>3, <1>4
    <3>. QED
      BY <3>1, <3>2, <1>0
  <2>2. CASE ~(ts <= s.first_timestamp) /\ g <= n
    <3>1. i = g
      BY <2>2, <1>1
    <3>2. g \in DOMAIN cs /\ FirstTimestamp(cs[g]) <= ts /\ ts <= LastTimestamp(cs[g])
      BY <2>2, <1>0, GetChunkIndexFacts DEF InRange
    <3>. HIDE DEF g, i
    <3>3. ASSUME NEW j \in DOMAIN cs, j < g PROVE LastTimestamp(cs[j]) < ts
      BY <3>2, <3>3, <1>2, <1>3, <1>4
    <3>4. ASSUME NEW j \in DOMAIN cs, j > g PROVE ts < FirstTimestamp(cs[j])
      BY <3>2, <3>4, <1>0, <1>2, <1>3, <1>4
    <3>. QED
      BY <3>1, <3>2, <3>3, <3>4
  <2>3. CASE ~(ts <= s.first_timestamp) /\ ~(g <= n)
    <3>1. /\ a \in 1 .. n + 1
          /\ \A j \in DOMAIN cs : j < a => FirstTimestamp(cs[j]) <= ts
          /\ a <= n => FirstTimestamp(cs[a]) > ts
      BY <1>0, FirstStartingAfterFacts
    <3>2. \A j \in DOMAIN cs : ~InRange(cs[j], ts)
      <4>1. g > n
        BY <2>3, <1>0, GetChunkIndexFacts
      <4>. QED
        BY <4>1, <1>0, GetChunkIndexFacts
    <3>3. i = IF a <= n THEN a ELSE n
      <4>1. a \in Nat /\ n \in Nat
        BY <3>1, <1>0
      <4>. QED
        BY <4>1, <2>3, <1>1, MinOfTwo
    <3>. HIDE DEF a, i, g, n
    <3>7. DOMAIN cs = 1 .. n /\ n \in Nat /\ n > 0 /\ a \in 1 .. n + 1
      BY <3>1, <1>0
    <3>8. i \in 1 .. n /\ i <= a /\ (i < n => i = a /\ a <= n)
      BY <3>3, <3>7
    <3>4. ASSUME NEW j \in DOMAIN cs, j < i PROVE LastTimestamp(cs[j]) < ts
      <4>1. j < a
        BY <3>4, <3>7, <3>8
      <4>2. FirstTimestamp(cs[j]) <= ts /\ ~InRange(cs[j], ts)
        BY <4>1, <3>1, <3>2
      <4>. QED
        BY <4>2, <1>3, <1>4 DEF InRange
    <3>5. ASSUME NEW j \in DOMAIN cs, j > i PROVE ts < FirstTimestamp(cs[j])
      <4>1. a <= n /\ i = a /\ a \in DOMAIN cs
        BY <3>5, <3>7, <3>8
      <4>2. ts < FirstTimestamp(cs[a]) /\ LastTimestamp(cs[a]) < FirstTimestamp(cs[j])
        BY <4>1, <3>1, <3>5, <1>2, <1>3, <1>4
      <4>. QED
        BY <4>1, <4>2, <1>3, <1>4
    <3>6. i \in DOMAIN cs
      BY <3>7, <3>8
    <3>. QED
      BY <3>4, <3>5, <3>6
  <2>. QED
    BY <2>1, <2>2, <2>3
<1>. HIDE DEF i
<1>6. ASSUME NEW j \in DOMAIN cs, j < i, NEW t \in DOMAIN cs[j] PROVE t < ts
  BY <1>3, <1>4, <1>5, <1>6
<1>7. ASSUME NEW j \in DOMAIN cs, j > i, NEW t \in DOMAIN cs[j] PROVE ts < t
  BY <1>3, <1>4, <1>5, <1>7
<1>. QED
  BY <1>5, <1>6, <1>7 DEF i, cs

\* A chunk made from the target and the new timestamp fits between its neighbours.
LEMMA TargetBelow ==
    ASSUME NEW cs, WellFormed(cs), NEW i \in DOMAIN cs, NEW ts, NEW d,
           \A j \in DOMAIN cs : j < i => \A t \in DOMAIN cs[j] : t < ts,
           \A j \in DOMAIN cs : j > i => \A t \in DOMAIN cs[j] : ts < t,
           DOMAIN d \subseteq DOMAIN cs[i] \cup {ts}
    PROVE  /\ \A j \in DOMAIN cs : j < i => Below(cs[j], d)
           /\ \A j \in DOMAIN cs : j > i => Below(d, cs[j])
<1>1. ASSUME NEW j \in DOMAIN cs, j < i, NEW t \in DOMAIN cs[j], NEW v \in DOMAIN d PROVE t < v
  <2>1. CASE v = ts
    BY <1>1, <2>1
  <2>2. CASE v \in DOMAIN cs[i]
    BY <1>1, <2>2 DEF WellFormed, Ordered
  <2>. QED
    BY <2>1, <2>2
<1>2. ASSUME NEW j \in DOMAIN cs, j > i, NEW t \in DOMAIN cs[j], NEW v \in DOMAIN d PROVE v < t
  <2>0. i < j
    BY <1>2, WellFormedFacts
  <2>1. CASE v = ts
    BY <1>2, <2>1
  <2>2. CASE v \in DOMAIN cs[i]
    BY SMTT(30), <2>0, <2>2 DEF WellFormed, Ordered
  <2>. QED
    BY <2>1, <2>2
<1>. QED
  BY <1>1, <1>2 DEF Below
\* upsert_sample without a split.
LEMMA UpsertInPlaceOK ==
    ASSUME NEW s, SeriesOK(s), s.chunks # <<>>, NEW sample \in Samples, NEW policy,
           sample.timestamp \in DOMAIN s.chunks[UpsertTarget(s, sample.timestamp)] =>
               DuplicateValue(policy,
                   s.chunks[UpsertTarget(s, sample.timestamp)][sample.timestamp], sample.value)
                       \in Values
    PROVE  LET u == UpsertInPlace(s, sample, policy)
           IN  /\ SeriesOK(u)
               /\ u.retention = s.retention
               /\ Stored(u.chunks) = Stored(s.chunks) \cup {sample.timestamp}
<1>. DEFINE old == s.chunks
            ts  == sample.timestamp
            i   == UpsertTarget(s, ts)
            c   == ChunkUpsert(old[i], sample, policy)
            cs  == [old EXCEPT ![i] = c]
            n   == Len(old)
            u   == UpsertInPlace(s, sample, policy)
<1>0. /\ WellFormed(old) /\ DOMAIN old = 1 .. n /\ n \in Nat /\ n > 0 /\ s \in SeriesType
      /\ \A j \in DOMAIN old : old[j] \in Chunks
      /\ old # <<>>
  BY SeriesOKFacts, WellFormedFacts
<1>1. ts \in Timestamps /\ ts \in Nat
  BY ConstantsAssumption DEF Samples, Timestamps
<1>2. /\ i \in DOMAIN old
      /\ \A j \in DOMAIN old : j < i => \A t \in DOMAIN old[j] : t < ts
      /\ \A j \in DOMAIN old : j > i => \A t \in DOMAIN old[j] : ts < t
  BY <1>1, UpsertTargetFacts
<1>3. u = [s EXCEPT !.chunks = cs,
                    !.total_samples = @ + (ChunkLen(c) - ChunkLen(old[i])),
                    !.last_sample = IF i = n THEN LastSample(c) ELSE @,
                    !.first_timestamp = MinOf({@, ts})]
  BY <1>0 DEF UpsertInPlace, SeriesType
<1>4. /\ c \in Chunks /\ DOMAIN c = DOMAIN old[i] \cup {ts}
      /\ ChunkLen(c) = IF ts \in DOMAIN old[i] THEN ChunkLen(old[i]) ELSE ChunkLen(old[i]) + 1
  <2>1. old[i] \in Chunks
    BY <1>0, <1>2
  <2>2. ts \in DOMAIN old[i] => DuplicateValue(policy, old[i][ts], sample.value) \in Values
    OBVIOUS
  <2>. HIDE DEF old, i
  <2>. QED
    BY ZenonT(30), <2>1, <2>2, ChunkUpsertFacts
<1>5. ts \in DOMAIN old[i] <=> ts \in Stored(old)
  <2>1. ASSUME ts \in Stored(old), ts \notin DOMAIN old[i] PROVE FALSE
    <3>1. PICK j \in DOMAIN old : ts \in DOMAIN old[j]
      BY <2>1 DEF Stored
    <3>. HIDE DEF i, ts, old
    <3>2. j < i \/ j > i
      BY <3>1, <2>1, <1>0, <1>2
    <3>3. ts < ts
      BY <3>1, <3>2, <1>2
    <3>. QED
      BY <3>3, <1>1
  <2>. QED
    BY <2>1, <1>2 DEF Stored
<1>. HIDE DEF old, i, c, u, ts
<1>6. /\ \A j \in DOMAIN old : j < i => Below(old[j], c)
      /\ \A j \in DOMAIN old : j > i => Below(c, old[j])
  BY Zenon, <1>0, <1>2, <1>4, TargetBelow
<1>7. /\ WellFormed(cs) /\ Len(cs) = n /\ cs[i] = c
      /\ \A k \in DOMAIN old : k # i => cs[k] = old[k]
      /\ Stored(cs) \cup DOMAIN old[i] = Stored(old) \cup DOMAIN c
      /\ DOMAIN c \subseteq Stored(cs)
  <2>1. WellFormed(old) /\ i \in DOMAIN old /\ c \in Chunks
    BY <1>0, <1>2, <1>4
  <2>. QED
    BY ZenonT(30), <2>1, <1>6, ReplaceChunkFacts
<1>. HIDE DEF cs
<1>8. Stored(cs) = Stored(old) \cup {ts}
  <2>1. DOMAIN old[i] \subseteq Stored(old)
    BY <1>2 DEF Stored
  <2>. QED
    BY <2>1, <1>4, <1>7
<1>9. /\ s.total_samples + (ChunkLen(c) - ChunkLen(old[i])) = Cardinality(Stored(cs))
      /\ Cardinality(Stored(cs)) \in Nat
  <2>1. Cardinality(Stored(cs)) = IF ts \in Stored(old) THEN s.total_samples ELSE s.total_samples + 1
    BY <1>1, <1>8, StoredAfterAdd DEF old
  <2>2. ChunkLen(old[i]) \in Nat
    BY <1>0, <1>2, ChunkFacts
  <2>3. s.total_samples \in Nat
    BY SeriesOKFacts
  <2>. QED
    BY <2>1, <2>2, <2>3, <1>4, <1>5
<1>10. MinOf({s.first_timestamp, ts}) = FirstTimestamp(cs[1]) /\ FirstTimestamp(cs[1]) \in Timestamps
  <2>. DEFINE f == s.first_timestamp
              m == IF f <= ts THEN f ELSE ts
  <2>1. f \in Stored(old) /\ \A t \in Stored(old) : f <= t
    BY <1>0, SeriesOKFacts DEF old
  <2>2. Stored(old) \subseteq Nat
    BY <1>0, CountStored, ConstantsAssumption DEF Timestamps
  <2>. HIDE DEF f
  <2>3. m \in Stored(cs) /\ \A t \in Stored(cs) : m <= t
    BY <2>1, <2>2, <1>1, <1>8
  <2>4. MinOf({f, ts}) = m
    BY <2>1, <2>2, <1>1, MinOfTwo
  <2>. HIDE DEF m
  <2>5. FirstTimestamp(cs[1]) = m
    BY <2>3, <1>7, EndsOfStored
  <2>. QED
    BY <2>3, <2>4, <2>5, <1>7, CountStored DEF f
<1>11. (IF i = n THEN LastSample(c) ELSE s.last_sample) = LastSample(cs[Len(cs)])
  <2>1. CASE i = n
    BY <2>1, <1>7
  <2>2. CASE i # n
    <3>1. n \in DOMAIN old
      BY <1>0
    <3>2. s.last_sample = LastSample(old[n])
      BY <1>0 DEF SeriesOK, Described, old
    <3>. QED
      BY <2>2, <3>1, <3>2, <1>7
  <2>. QED
    BY <2>1, <2>2
<1>12. cs # <<>> /\ cs \in Seq(Chunks) /\ LastSample(cs[Len(cs)]) \in Samples
  <2>1. cs # <<>> /\ Len(cs) \in DOMAIN cs
    BY <1>0, <1>7, WellFormedFacts
  <2>. QED
    BY <2>1, <1>7, WellFormedFacts, ChunkEnds
<1>13. u = [s EXCEPT !.chunks = cs, !.total_samples = Cardinality(Stored(cs)),
                     !.last_sample = LastSample(cs[Len(cs)]),
                     !.first_timestamp = FirstTimestamp(cs[1])]
  BY Zenon, <1>0, <1>3, <1>9, <1>10, <1>11 DEF SeriesType
<1>14. u \in SeriesType
  BY Zenon, <1>0, <1>9, <1>10, <1>12, <1>13 DEF SeriesType
<1>15. /\ u.chunks = cs /\ u.retention = s.retention /\ u.total_samples = Cardinality(Stored(cs))
       /\ u.last_sample = LastSample(cs[Len(cs)]) /\ u.first_timestamp = FirstTimestamp(cs[1])
  BY SMTT(30), <1>0, <1>13 DEF SeriesType
<1>. QED
  BY Zenon, <1>7, <1>8, <1>12, <1>14, <1>15 DEF SeriesOK, Described, WellFormed, u, old, ts

\* The chunks before chunk i end before ts and those after it begin after ts.
Around(cs, i, ts) ==
    /\ \A j \in DOMAIN cs : j < i => \A t \in DOMAIN cs[j] : t < ts
    /\ \A j \in DOMAIN cs : j > i => \A t \in DOMAIN cs[j] : ts < t

\* Two chunks, one below the other, with the timestamps of c and at most ts beside them.
Parts(c, ts, lower, upper) ==
    /\ lower \in Chunks /\ upper \in Chunks /\ Below(lower, upper)
    /\ DOMAIN lower \cup DOMAIN upper \subseteq DOMAIN c \cup {ts}
    /\ DOMAIN c \subseteq DOMAIN lower \cup DOMAIN upper

\* The list ds is old with chunk i replaced by the two parts.
Divided(old, i, lower, upper, ds) ==
    /\ WellFormed(ds) /\ Len(ds) = Len(old) + 1
    /\ Stored(ds) = Stored(old) \cup DOMAIN lower \cup DOMAIN upper
    /\ ds[Len(ds)] = IF i = Len(old) THEN upper ELSE old[Len(old)]
    /\ \A k \in DOMAIN ds : \/ \E j \in DOMAIN old : j # i /\ ds[k] = old[j]
                            \/ ds[k] = lower \/ ds[k] = upper

\* The series u is sound, holds the chunks of s, chunk i aside, and a and b, and stores T.
Rewritten(s, i, a, b, T, u) ==
    /\ SeriesOK(u) /\ u.retention = s.retention /\ Stored(u.chunks) = T
    /\ \A k \in DOMAIN u.chunks :
          \/ \E j \in DOMAIN s.chunks : j # i /\ u.chunks[k] = s.chunks[j]
          \/ u.chunks[k] = a \/ u.chunks[k] = b

\* The two outcomes of UpsertWithSplit: chunk i is split, or split and one part written to.
OnlySplit(s, i) ==
    [s EXCEPT !.chunks = SplitAt(@, i, LowerHalf(s.chunks[i]), UpperHalf(s.chunks[i]))]
WrittenSplit(s, i, lower, upper, d) ==
    UpdateFirstLastTimestamps([s EXCEPT !.chunks = SplitAt(@, i, lower, upper),
                                        !.total_samples = @ + d])

\* What splitting chunk i leaves in the list, when the two parts hold at least its timestamps.
LEMMA SplitContents ==
    ASSUME NEW old, WellFormed(old), NEW i \in DOMAIN old,
           NEW ts, Around(old, i, ts), NEW lower, NEW upper, Parts(old[i], ts, lower, upper)
    PROVE  Divided(old, i, lower, upper, SplitAt(old, i, lower, upper))
<1>. DEFINE n  == Len(old)
            cs == SplitAt(old, i, lower, upper)
<1>0. /\ lower \in Chunks /\ upper \in Chunks /\ Below(lower, upper)
      /\ DOMAIN lower \subseteq DOMAIN old[i] \cup {ts}
      /\ DOMAIN upper \subseteq DOMAIN old[i] \cup {ts}
      /\ DOMAIN old[i] \subseteq DOMAIN lower \cup DOMAIN upper
  BY DEF Parts
<1>1. DOMAIN old = 1 .. n /\ n \in Nat /\ i \in 1 .. n
  BY WellFormedFacts
<1>2. /\ \A j \in DOMAIN old : j < i => Below(old[j], lower)
      /\ \A j \in DOMAIN old : j > i => Below(lower, old[j])
  BY Zenon, <1>0, TargetBelow DEF Around
<1>3. /\ \A j \in DOMAIN old : j < i => Below(old[j], upper)
      /\ \A j \in DOMAIN old : j > i => Below(upper, old[j])
  BY Zenon, <1>0, TargetBelow DEF Around
<1>4. /\ WellFormed(cs) /\ Len(cs) = n + 1
      /\ Stored(cs) \cup DOMAIN old[i] = Stored(old) \cup DOMAIN lower \cup DOMAIN upper
      /\ DOMAIN lower \subseteq Stored(cs) /\ DOMAIN upper \subseteq Stored(cs)
      /\ \A k \in 1 .. n + 1 :
           cs[k] = IF k < i THEN old[k] ELSE IF k = i THEN lower
                   ELSE IF k = i + 1 THEN upper ELSE old[k - 1]
  BY <1>0, <1>2, <1>3, SplitAtFacts
<1>. HIDE DEF cs
<1>5. Stored(cs) = Stored(old) \cup DOMAIN lower \cup DOMAIN upper
  BY <1>0, <1>4
<1>6. DOMAIN cs = 1 .. n + 1
  BY <1>4, WellFormedFacts
<1>7. cs[n + 1] = IF i = n THEN upper ELSE old[n]
  <2>1. n + 1 \in 1 .. n + 1 /\ ~(n + 1 < i) /\ n + 1 # i /\ (n + 1 = i + 1 <=> i = n)
        /\ n + 1 - 1 = n
    BY <1>1
  <2>. QED
    BY <2>1, <1>4
<1>8. ASSUME NEW k \in DOMAIN cs
      PROVE  \/ \E j \in DOMAIN old : j # i /\ cs[k] = old[j]
             \/ cs[k] = lower \/ cs[k] = upper
  <2>1. cs[k] = IF k < i THEN old[k] ELSE IF k = i THEN lower
                ELSE IF k = i + 1 THEN upper ELSE old[k - 1]
    BY <1>4, <1>6, <1>8
  <2>2. k < i => k \in 1 .. n /\ k # i
    BY <1>1, <1>6
  <2>3. ~(k < i) /\ k # i /\ k # i + 1 => k - 1 \in 1 .. n /\ k - 1 # i
    BY <1>1, <1>6
  <2>. QED
    BY <2>1, <2>2, <2>3, <1>1
<1>. QED
  BY <1>4, <1>5, <1>7, <1>8 DEF cs, Divided

\* The half that owns the sample is the one that holds its timestamp, if the chunk does.
LEMMA OwningHalfFacts ==
    ASSUME NEW c \in Chunks, ChunkLen(c) >= 2, NEW sample \in Samples
    PROVE  /\ OwningHalf(c, sample) \in Chunks
           /\ DOMAIN OwningHalf(c, sample) \subseteq DOMAIN c
           /\ sample.timestamp \in DOMAIN c => sample.timestamp \in DOMAIN OwningHalf(c, sample)
<1>. DEFINE ts   == sample.timestamp
            half == OwningHalf(c, sample)
            L    == LowerHalf(c)
            U    == UpperHalf(c)
            into == IntoNew(c, sample)
<1>1. ts \in Nat /\ Timestamps \subseteq Nat
  BY ConstantsAssumption DEF Samples, Timestamps
<1>2. L \in Chunks /\ U \in Chunks /\ DOMAIN L \cup DOMAIN U = DOMAIN c /\ Below(L, U)
  BY Zenon, HalvesFacts
<1>3. half = IF into THEN U ELSE L
  BY DEF OwningHalf
<1>4. into <=> ts >= FirstTimestamp(U)
  BY DEF IntoNew
<1>. HIDE DEF L, U, into, half
<1>5. /\ FirstTimestamp(U) \in DOMAIN U /\ FirstTimestamp(U) \in Nat
      /\ \A t \in DOMAIN U : FirstTimestamp(U) <= t
  BY Zenon, <1>1, <1>2, ChunkEnds
<1>6. half \in Chunks /\ DOMAIN half \subseteq DOMAIN c
  BY <1>2, <1>3
<1>7. \A t \in DOMAIN L : t < FirstTimestamp(U)
  BY <1>2, <1>5 DEF Below
<1>8. ts \in DOMAIN c => ts \in DOMAIN half
  BY <1>1, <1>2, <1>3, <1>4, <1>5, <1>7
<1>. QED
  BY Zenon, <1>6, <1>8 DEF half

\* The halves stay in order when the sample is written into the one that owns it.
LEMMA WrittenHalf ==
    ASSUME NEW c \in Chunks, ChunkLen(c) >= 2, NEW sample \in Samples, NEW wrote \in Chunks,
           DOMAIN wrote = DOMAIN OwningHalf(c, sample) \cup {sample.timestamp}
    PROVE  Parts(c, sample.timestamp, IF IntoNew(c, sample) THEN LowerHalf(c) ELSE wrote,
                                      IF IntoNew(c, sample) THEN wrote ELSE UpperHalf(c))
<1>. DEFINE ts   == sample.timestamp
            half == OwningHalf(c, sample)
            L    == LowerHalf(c)
            U    == UpperHalf(c)
            into == IntoNew(c, sample)
<1>1. ts \in Nat /\ Timestamps \subseteq Nat
  BY ConstantsAssumption DEF Samples, Timestamps
<1>2. L \in Chunks /\ U \in Chunks /\ DOMAIN L \cup DOMAIN U = DOMAIN c /\ Below(L, U)
  BY Zenon, HalvesFacts
<1>3. half = IF into THEN U ELSE L
  BY DEF OwningHalf
<1>4. into <=> ts >= FirstTimestamp(U)
  BY DEF IntoNew
<1>. HIDE DEF L, U, into, half
<1>5. /\ FirstTimestamp(U) \in DOMAIN U /\ FirstTimestamp(U) \in Nat
      /\ \A t \in DOMAIN U : FirstTimestamp(U) <= t
      /\ \A t \in DOMAIN U \cup DOMAIN L : t \in Nat
  BY Zenon, <1>1, <1>2, ChunkEnds, ChunkFacts
<1>7. \A t \in DOMAIN L : t < FirstTimestamp(U)
  BY <1>2, <1>5 DEF Below
<1>8. DOMAIN wrote = DOMAIN half \cup {ts}
  BY DEF half
<1>9. ASSUME NEW lower, lower = IF into THEN L ELSE wrote,
             NEW upper, upper = IF into THEN wrote ELSE U
      PROVE  Parts(c, ts, lower, upper)
  <2>1. CASE into
    <3>1. lower = L /\ upper = wrote /\ DOMAIN wrote = DOMAIN U \cup {ts}
      BY <2>1, <1>3, <1>8, <1>9
    <3>2. \A a \in DOMAIN L : a < ts
      BY <2>1, <1>1, <1>4, <1>5, <1>7
    <3>3. Below(L, wrote)
      BY <3>1, <3>2, <1>2 DEF Below
    <3>. QED
      BY <3>1, <3>3, <1>2, <1>9 DEF Parts
  <2>2. CASE ~into
    <3>1. lower = wrote /\ upper = U /\ DOMAIN wrote = DOMAIN L \cup {ts}
      BY <2>2, <1>3, <1>8, <1>9
    <3>2. \A b \in DOMAIN U : ts < b
      BY <2>2, <1>1, <1>4, <1>5
    <3>3. Below(wrote, U)
      BY <3>1, <3>2, <1>2 DEF Below
    <3>. QED
      BY <3>1, <3>3, <1>2, <1>9 DEF Parts
  <2>. QED
    BY <2>1, <2>2
<1>. QED
  BY Zenon, <1>9 DEF L, U, into

\* A refused write still leaves the target chunk split, and nothing else changed.
LEMMA SplitOnlyOK ==
    ASSUME NEW s, SeriesOK(s), NEW i \in DOMAIN s.chunks, NEW c, c = s.chunks[i],
           ChunkLen(c) >= 2, NEW ts, Around(s.chunks, i, ts),
           NEW u, u = OnlySplit(s, i)
    PROVE  /\ Rewritten(s, i, LowerHalf(c), UpperHalf(c), Stored(s.chunks), u)
           /\ u.first_timestamp = s.first_timestamp /\ u.last_sample = s.last_sample
<1>. DEFINE old == s.chunks
            n   == Len(old)
            cs  == SplitAt(old, i, LowerHalf(c), UpperHalf(c))
<1>1. /\ WellFormed(old) /\ n \in Nat /\ s \in SeriesType /\ old # <<>> /\ c \in Chunks
      /\ DOMAIN old = 1 .. n /\ n > 0
  BY SeriesOKFacts, WellFormedFacts
<1>2. /\ LowerHalf(c) \in Chunks /\ UpperHalf(c) \in Chunks
      /\ DOMAIN LowerHalf(c) \cup DOMAIN UpperHalf(c) = DOMAIN c
      /\ Below(LowerHalf(c), UpperHalf(c))
      /\ \A t \in DOMAIN UpperHalf(c) : UpperHalf(c)[t] = c[t]
  BY Zenon, <1>1, HalvesFacts
<1>3. DOMAIN c \subseteq Stored(old)
  BY DEF Stored
<1>4. /\ WellFormed(cs) /\ Len(cs) = n + 1
      /\ Stored(cs) = Stored(old) \cup DOMAIN LowerHalf(c) \cup DOMAIN UpperHalf(c)
      /\ cs[Len(cs)] = IF i = n THEN UpperHalf(c) ELSE old[n]
      /\ \A k \in DOMAIN cs : \/ \E j \in DOMAIN old : j # i /\ cs[k] = old[j]
                              \/ cs[k] = LowerHalf(c) \/ cs[k] = UpperHalf(c)
  <2>1. Parts(old[i], ts, LowerHalf(c), UpperHalf(c))
    BY <1>2 DEF Parts
  <2>2. Divided(old, i, LowerHalf(c), UpperHalf(c), cs)
    BY Zenon, <2>1, <1>1, SplitContents
  <2>. HIDE DEF cs
  <2>. QED
    BY Zenon, <2>2 DEF Divided
<1>. HIDE DEF cs
<1>5. Stored(cs) = Stored(old)
  BY <1>2, <1>3, <1>4
<1>6. cs # <<>> /\ cs \in Seq(Chunks)
  BY <1>1, <1>4, WellFormedFacts
<1>7. s.first_timestamp = FirstTimestamp(cs[1])
  <2>1. s.first_timestamp \in Stored(cs) /\ \A t \in Stored(cs) : s.first_timestamp <= t
    BY <1>1, <1>5, SeriesOKFacts
  <2>. QED
    BY <2>1, <1>4, EndsOfStored
<1>8. s.last_sample = LastSample(cs[Len(cs)])
  <2>. DEFINE x == s.last_sample.timestamp
  <2>1. x \in Stored(cs) /\ \A t \in Stored(cs) : t <= x
    BY <1>1, <1>5, SeriesOKFacts
  <2>2. LastTimestamp(cs[Len(cs)]) = x
    BY <2>1, <1>4, EndsOfStored
  <2>3. s.last_sample = LastSample(old[n]) /\ x = LastTimestamp(old[n])
    BY <1>1, SeriesOKFacts DEF SeriesOK, Described
  <2>4. CASE i = n
    <3>1. cs[Len(cs)] = UpperHalf(c) /\ old[n] = c
      BY <2>4, <1>4
    <3>2. LastTimestamp(UpperHalf(c)) \in DOMAIN UpperHalf(c)
      BY <1>2, ChunkEnds
    <3>3. LastSample(UpperHalf(c)) = LastSample(c)
      BY <3>1, <3>2, <2>2, <2>3, <1>2 DEF LastSample
    <3>. QED
      BY <3>1, <3>3, <2>3
  <2>5. CASE i # n
    BY <2>3, <2>5, <1>4
  <2>. QED
    BY <2>4, <2>5
<1>9. /\ u \in SeriesType /\ u.chunks = cs /\ u.retention = s.retention
      /\ u.total_samples = s.total_samples /\ u.first_timestamp = s.first_timestamp
      /\ u.last_sample = s.last_sample
  <2>1. u = [s EXCEPT !.chunks = cs]
    BY DEF cs, OnlySplit
  <2>. QED
    BY <2>1, <1>1, <1>6 DEF SeriesType
<1>10. s.total_samples = Cardinality(Stored(cs))
  BY <1>5, SeriesOKFacts
<1>11. SeriesOK(u)
  BY <1>4, <1>6, <1>7, <1>8, <1>9, <1>10 DEF SeriesOK, Described, WellFormed
<1>. QED
  BY Zenon, <1>4, <1>5, <1>9, <1>11 DEF Rewritten

\* The parts of chunk i hold ts, and d is the number of samples that adds to the series.
Adds(s, i, ts, lower, upper, d) ==
    /\ i \in DOMAIN s.chunks /\ ts \in Timestamps
    /\ Around(s.chunks, i, ts) /\ Parts(s.chunks[i], ts, lower, upper)
    /\ ts \in DOMAIN lower \cup DOMAIN upper
    /\ d = IF ts \in Stored(s.chunks) THEN 0 ELSE 1

\* A write into one half of the split target chunk adds its timestamp and nothing else.
LEMMA SplitAndWriteOK ==
    ASSUME NEW s, SeriesOK(s), NEW i, NEW ts, NEW lower, NEW upper, NEW d,
           Adds(s, i, ts, lower, upper, d), NEW u, u = WrittenSplit(s, i, lower, upper, d)
    PROVE  Rewritten(s, i, lower, upper, Stored(s.chunks) \cup {ts}, u)
<1>. DEFINE old == s.chunks
            cs  == SplitAt(old, i, lower, upper)
            v   == [s EXCEPT !.chunks = cs, !.total_samples = @ + d]
<1>0. /\ i \in DOMAIN old /\ ts \in Timestamps /\ Around(old, i, ts)
      /\ Parts(old[i], ts, lower, upper) /\ ts \in DOMAIN lower \cup DOMAIN upper
      /\ d = IF ts \in Stored(old) THEN 0 ELSE 1
  BY DEF Adds
<1>1. WellFormed(old) /\ s \in SeriesType /\ s.total_samples \in Nat
  BY SeriesOKFacts
<1>2. DOMAIN old[i] \subseteq Stored(old)
  BY <1>0 DEF Stored
<1>3. /\ WellFormed(cs) /\ Stored(cs) = Stored(old) \cup DOMAIN lower \cup DOMAIN upper
      /\ \A k \in DOMAIN cs : \/ \E j \in DOMAIN old : j # i /\ cs[k] = old[j]
                              \/ cs[k] = lower \/ cs[k] = upper
  <2>1. Divided(old, i, lower, upper, cs)
    BY Zenon, <1>0, <1>1, SplitContents
  <2>. HIDE DEF cs
  <2>. QED
    BY Zenon, <2>1 DEF Divided
<1>. HIDE DEF cs
<1>4. Stored(cs) = Stored(old) \cup {ts}
  BY <1>0, <1>2, <1>3 DEF Parts
<1>5. s.total_samples + d = Cardinality(Stored(cs)) /\ Cardinality(Stored(cs)) \in Nat
  <2>1. Cardinality(Stored(cs)) = IF ts \in Stored(old) THEN s.total_samples
                                  ELSE s.total_samples + 1
    BY <1>0, <1>4, StoredAfterAdd
  <2>. QED
    BY <2>1, <1>0, <1>1
<1>6. /\ v \in SeriesType /\ v.chunks = cs /\ v.retention = s.retention
      /\ v.total_samples = Cardinality(Stored(cs))
  <2>1. v = [s EXCEPT !.chunks = cs, !.total_samples = Cardinality(Stored(cs))]
    BY Zenon, <1>1, <1>5 DEF SeriesType
  <2>2. cs \in Seq(Chunks)
    BY <1>3 DEF WellFormed
  <2>. HIDE DEF v
  <2>. QED
    BY Zenon, <2>1, <2>2, <1>1, <1>5 DEF SeriesType
<1>7. u = UpdateFirstLastTimestamps(v)
  BY DEF cs, WrittenSplit
<1>. HIDE DEF v
<1>8. SeriesOK(u) /\ u.chunks = cs /\ u.retention = s.retention
  BY Zenon, <1>3, <1>6, <1>7, UpdateOK DEF WellFormed
<1>. QED
  BY Zenon, <1>3, <1>4, <1>8 DEF Rewritten

\* What upsert_sample with a split leaves, refused or not: the other chunks, the half that does
\* not own the sample, and the one that does, written or not.
SplitOutcome(s, sample, policy, u) ==
    LET i       == UpsertTarget(s, sample.timestamp)
        c       == s.chunks[i]
        half    == OwningHalf(c, sample)
        other   == IF IntoNew(c, sample) THEN LowerHalf(c) ELSE UpperHalf(c)
        wrote   == ChunkUpsert(half, sample, policy)
        refused == UpsertRefused(half, sample, policy)
    IN  /\ SeriesOK(u)
        /\ u.retention = s.retention
        /\ sample.timestamp \in DOMAIN half <=> sample.timestamp \in Stored(s.chunks)
        /\ refused => /\ Stored(u.chunks) = Stored(s.chunks)
                      /\ u.first_timestamp = s.first_timestamp
                      /\ u.last_sample = s.last_sample
        /\ ~refused => Stored(u.chunks) = Stored(s.chunks) \cup {sample.timestamp}
        /\ \A k \in DOMAIN u.chunks :
              \/ \E j \in DOMAIN s.chunks : j # i /\ u.chunks[k] = s.chunks[j]
              \/ u.chunks[k] = other
              \/ u.chunks[k] = IF refused THEN half ELSE wrote

\* upsert_sample with a split, refused or not.
LEMMA UpsertWithSplitSound ==
    ASSUME NEW s, SeriesOK(s), s.chunks # <<>>, NEW sample \in Samples, NEW policy,
           ChunkLen(s.chunks[UpsertTarget(s, sample.timestamp)]) >= 2,
           LET half == OwningHalf(s.chunks[UpsertTarget(s, sample.timestamp)], sample)
           IN  sample.timestamp \in DOMAIN half /\ ~UpsertRefused(half, sample, policy) =>
                   DuplicateValue(policy, half[sample.timestamp], sample.value) \in Values
    PROVE  SplitOutcome(s, sample, policy, UpsertWithSplit(s, sample, policy))
<1>. DEFINE old   == s.chunks
            ts    == sample.timestamp
            i     == UpsertTarget(s, ts)
            c     == old[i]
            L     == LowerHalf(c)
            U     == UpperHalf(c)
            half  == OwningHalf(c, sample)
            wrote == ChunkUpsert(half, sample, policy)
            lower == IF IntoNew(c, sample) THEN L ELSE wrote
            upper == IF IntoNew(c, sample) THEN wrote ELSE U
            other == IF IntoNew(c, sample) THEN L ELSE U
            u     == UpsertWithSplit(s, sample, policy)
<1>1. ts \in Timestamps
  BY DEF Samples
<1>2. i \in DOMAIN old /\ Around(old, i, ts)
  BY <1>1, ConstantsAssumption, UpsertTargetFacts DEF Timestamps, Around
<1>3. c \in Chunks /\ s \in SeriesType /\ ChunkLen(c) >= 2
  BY <1>2, SeriesOKFacts, WellFormedFacts
<1>4. u = IF UpsertRefused(half, sample, policy)
          THEN [s EXCEPT !.chunks = SplitAt(old, i, L, U)]
          ELSE UpdateFirstLastTimestamps(
                 [s EXCEPT !.chunks = SplitAt(old, i, lower, upper),
                           !.total_samples = @ + (ChunkLen(wrote) - ChunkLen(half))])
  BY <1>3 DEF UpsertWithSplit, SeriesType
<1>. HIDE DEF i, u, half
<1>5. /\ half \in Chunks /\ DOMAIN half \subseteq DOMAIN c
      /\ ts \in DOMAIN c => ts \in DOMAIN half
      /\ wrote \in Chunks /\ DOMAIN wrote = DOMAIN half \cup {ts} =>
           Parts(c, ts, lower, upper)
  <2>. HIDE DEF wrote, c
  <2>1. half \in Chunks /\ DOMAIN half \subseteq DOMAIN c /\ (ts \in DOMAIN c => ts \in DOMAIN half)
    BY Zenon, <1>3, OwningHalfFacts DEF half
  <2>2. wrote \in Chunks /\ DOMAIN wrote = DOMAIN half \cup {ts} => Parts(c, ts, lower, upper)
    BY Zenon, <1>3, WrittenHalf DEF half
  <2>. QED
    BY Zenon, <2>1, <2>2
<1>6. ts \in DOMAIN half <=> ts \in Stored(old)
  <2>1. ASSUME ts \in DOMAIN half PROVE ts \in Stored(old)
    BY <2>1, <1>2, <1>5 DEF Stored
  <2>2. ASSUME ts \in Stored(old) PROVE ts \in DOMAIN half
    <3>1. PICK j \in DOMAIN old : ts \in DOMAIN old[j]
      BY <2>2 DEF Stored
    <3>2. ~(ts < ts) /\ DOMAIN old \subseteq Nat
      BY <1>1, ConstantsAssumption, SeriesOKFacts, WellFormedFacts DEF Timestamps
    <3>3. j = i
      BY <3>1, <3>2, <1>2 DEF Around
    <3>. QED
      BY <3>1, <3>3, <1>5
  <2>. QED
    BY <2>1, <2>2
<1>7. half = (IF IntoNew(c, sample) THEN U ELSE L)
  BY DEF half, OwningHalf
<1>8. CASE UpsertRefused(half, sample, policy)
  <2>1. u = OnlySplit(s, i)
    BY Zenon, <1>4, <1>8 DEF OnlySplit
  <2>2. /\ Rewritten(s, i, L, U, Stored(old), u)
        /\ u.first_timestamp = s.first_timestamp /\ u.last_sample = s.last_sample
    BY Zenon, <2>1, <1>2, <1>3, SplitOnlyOK
  <2>3. (L = other /\ U = half) \/ (L = half /\ U = other)
    BY Zenon, <1>7
  <2>. HIDE DEF L, U, other
  <2>4. \A k \in DOMAIN u.chunks : \/ \E j \in DOMAIN old : j # i /\ u.chunks[k] = old[j]
                                   \/ u.chunks[k] = other \/ u.chunks[k] = half
    BY Zenon, <2>2, <2>3 DEF Rewritten
  <2>5. SeriesOK(u) /\ u.retention = s.retention /\ Stored(u.chunks) = Stored(old)
    BY Zenon, <2>2 DEF Rewritten
  <2>. QED
    BY Zenon, <2>2, <2>4, <2>5, <1>6, <1>8 DEF SplitOutcome, u, half, other, i, L, U
<1>9. CASE ~UpsertRefused(half, sample, policy)
  <2>1. /\ wrote \in Chunks /\ DOMAIN wrote = DOMAIN half \cup {ts}
        /\ ChunkLen(wrote) = IF ts \in DOMAIN half THEN ChunkLen(half) ELSE ChunkLen(half) + 1
    <3>1. ts \in DOMAIN half => DuplicateValue(policy, half[ts], sample.value) \in Values
      BY Zenon, <1>9 DEF half, i
    <3>. QED
      BY Zenon, <3>1, <1>5, <1>9, ChunkUpsertFacts
  <2>. DEFINE d == ChunkLen(wrote) - ChunkLen(half)
  <2>2. d = IF ts \in Stored(old) THEN 0 ELSE 1
    <3>1. ChunkLen(half) \in Nat
      BY <1>5, ChunkFacts
    <3>. HIDE DEF wrote
    <3>. QED
      BY <3>1, <2>1, <1>6
  <2>3. u = WrittenSplit(s, i, lower, upper, d)
    BY Zenon, <1>4, <1>9 DEF WrittenSplit
  <2>4. Adds(s, i, ts, lower, upper, d)
    <3>1. Parts(c, ts, lower, upper)
      BY Zenon, <2>1, <1>5
    <3>2. ts \in DOMAIN lower \cup DOMAIN upper
      <4>. HIDE DEF wrote
      <4>. QED
        BY <2>1
    <3>. QED
      BY Zenon, <3>1, <3>2, <2>2, <1>1, <1>2 DEF Adds
  <2>5. (lower = other /\ upper = wrote) \/ (lower = wrote /\ upper = other)
    BY Zenon
  <2>. HIDE DEF d, lower, upper, other, wrote
  <2>6. Rewritten(s, i, lower, upper, Stored(old) \cup {ts}, u)
    BY Zenon, <2>3, <2>4, SplitAndWriteOK
  <2>7. \A k \in DOMAIN u.chunks : \/ \E j \in DOMAIN old : j # i /\ u.chunks[k] = old[j]
                                   \/ u.chunks[k] = other \/ u.chunks[k] = wrote
    BY Zenon, <2>5, <2>6 DEF Rewritten
  <2>8. SeriesOK(u) /\ u.retention = s.retention /\ Stored(u.chunks) = Stored(old) \cup {ts}
    BY Zenon, <2>6 DEF Rewritten
  <2>. QED
    BY Zenon, <2>6, <2>7, <2>8, <1>6, <1>9 DEF SplitOutcome, u, half, other, wrote, i
<1>. QED
  BY Zenon, <1>8, <1>9

\* The same, spelled out.
LEMMA UpsertWithSplitOK ==
    ASSUME NEW s, SeriesOK(s), s.chunks # <<>>, NEW sample \in Samples, NEW policy,
           ChunkLen(s.chunks[UpsertTarget(s, sample.timestamp)]) >= 2,
           LET half == OwningHalf(s.chunks[UpsertTarget(s, sample.timestamp)], sample)
           IN  sample.timestamp \in DOMAIN half /\ ~UpsertRefused(half, sample, policy) =>
                   DuplicateValue(policy, half[sample.timestamp], sample.value) \in Values
    PROVE  LET i       == UpsertTarget(s, sample.timestamp)
               c       == s.chunks[i]
               half    == OwningHalf(c, sample)
               other   == IF IntoNew(c, sample) THEN LowerHalf(c) ELSE UpperHalf(c)
               wrote   == ChunkUpsert(half, sample, policy)
               refused == UpsertRefused(half, sample, policy)
               u       == UpsertWithSplit(s, sample, policy)
           IN  /\ SeriesOK(u)
               /\ u.retention = s.retention
               /\ sample.timestamp \in DOMAIN half <=> sample.timestamp \in Stored(s.chunks)
               /\ refused => /\ Stored(u.chunks) = Stored(s.chunks)
                             /\ u.first_timestamp = s.first_timestamp
                             /\ u.last_sample = s.last_sample
               /\ ~refused => Stored(u.chunks) = Stored(s.chunks) \cup {sample.timestamp}
               /\ \A k \in DOMAIN u.chunks :
                     \/ \E j \in DOMAIN s.chunks : j # i /\ u.chunks[k] = s.chunks[j]
                     \/ u.chunks[k] = other
                     \/ u.chunks[k] = IF refused THEN half ELSE wrote
<1>1. SplitOutcome(s, sample, policy, UpsertWithSplit(s, sample, policy))
  BY Zenon, UpsertWithSplitSound
<1>. QED
  BY Zenon, <1>1 DEF SplitOutcome

\* What a split write stores, whether or not the sample is refused.
LEMMA SplitWriteKeeps ==
    ASSUME NEW s, SeriesOK(s), s.chunks # <<>>, NEW sample \in Samples, NEW policy,
           ChunkLen(s.chunks[UpsertTarget(s, sample.timestamp)]) >= 2,
           LET half == OwningHalf(s.chunks[UpsertTarget(s, sample.timestamp)], sample)
           IN  sample.timestamp \in DOMAIN half /\ ~UpsertRefused(half, sample, policy) =>
                   DuplicateValue(policy, half[sample.timestamp], sample.value) \in Values,
           NEW u, u = UpsertWithSplit(s, sample, policy)
    PROVE  /\ SeriesOK(u) /\ u.retention = s.retention
           /\ Stored(s.chunks) \subseteq Stored(u.chunks)
           /\ Stored(u.chunks) \subseteq Stored(s.chunks) \cup {sample.timestamp}
<1>. DEFINE refused == UpsertRefused(OwningHalf(s.chunks[UpsertTarget(s, sample.timestamp)], sample),
                                     sample, policy)
<1>0. SplitOutcome(s, sample, policy, u)
  BY Zenon, UpsertWithSplitSound
<1>1. /\ SeriesOK(u) /\ u.retention = s.retention
      /\ refused => Stored(u.chunks) = Stored(s.chunks)
      /\ ~refused => Stored(u.chunks) = Stored(s.chunks) \cup {sample.timestamp}
  BY Zenon, <1>0 DEF SplitOutcome
<1>. HIDE DEF refused
<1>. QED
  BY <1>1

\* is_full answers yes or no, whatever the encoding.
LEMMA FullIsBoolean ==
    ASSUME NEW s, NEW full \in FullOutcomes(s)
    PROVE  full \in BOOLEAN
<1>. DEFINE l == ChunkLen(s.chunks[Len(s.chunks)])
<1>1. full \in {FALSE} \/ full \in BOOLEAN \/ full \in {l >= ChunkCapacity}
  BY Zenon DEF FullOutcomes, IsFull
<1>2. (l >= ChunkCapacity) \in BOOLEAN
  BY SMT
<1>. QED
  BY <1>1, <1>2, Zenon

\* What the preconditions of an upsert give: the fold stays among the values, and a split is
\* only asked for of a chunk with at least two samples.
LEMMA UpsertReady ==
    ASSUME NEW s, SeriesOK(s), NEW sample \in Samples, NEW policy,
           FoldIsBounded(s, sample, policy), NEW split \in SplitOutcomes(s, sample.timestamp),
           s.last_sample # None, sample.timestamp <= s.last_sample.timestamp
    PROVE  LET c == s.chunks[UpsertTarget(s, sample.timestamp)]
           IN  /\ split \in BOOLEAN /\ (split => ChunkLen(c) >= 2)
               /\ \A d \in {c, LowerHalf(c), UpperHalf(c)} :
                     sample.timestamp \in DOMAIN d /\ ~UpsertRefused(d, sample, policy) =>
                         DuplicateValue(policy, d[sample.timestamp], sample.value) \in Values
<1>. DEFINE ts == sample.timestamp
            i  == UpsertTarget(s, ts)
            c  == s.chunks[i]
<1>0. ts \in Timestamps /\ ts \in Nat
  BY ConstantsAssumption DEF Samples, Timestamps
<1>2. s.chunks # <<>>
  BY SeriesOKFacts
<1>3. i \in DOMAIN s.chunks /\ c \in Chunks
  BY SMTT(30), <1>2, <1>0, UpsertTargetFacts, SeriesOKFacts, WellFormedFacts
<1>4. split \in ShouldSplit(c)
  <2>1. ~(ts > s.last_sample.timestamp)
    <3>1. s.last_sample.timestamp \in Nat
      BY <1>2, SeriesOKFacts, ConstantsAssumption DEF Samples, Timestamps
    <3>. QED
      BY <3>1, <1>0
  <2>. QED
    BY Zenon, <2>1 DEF SplitOutcomes
<1>5. split \in BOOLEAN /\ (split => ChunkLen(c) >= 2)
  <2>1. ChunkLen(c) \in Nat
    BY <1>3, ChunkFacts
  <2>2. CASE Compressed
    <3>1. CASE ChunkLen(c) < MinFullLen
      <4>1. split \in {FALSE}
        BY <3>1, <2>2, <1>4, Zenon DEF ShouldSplit
      <4>. QED
        BY <4>1, Zenon
    <3>2. CASE ~(ChunkLen(c) < MinFullLen)
      <4>1. split \in BOOLEAN
        BY <3>2, <2>2, <1>4, Zenon DEF ShouldSplit
      <4>2. ChunkLen(c) >= 2
        BY <3>2, <2>1 DEF MinFullLen
      <4>. QED
        BY <4>1, <4>2, Zenon
    <3>. QED
      BY <3>1, <3>2
  <2>3. CASE ~Compressed
    <3>1. split = (10 * ChunkLen(c) >= 12 * ChunkCapacity)
      BY <2>3, <1>4, Zenon DEF ShouldSplit
    <3>2. (10 * ChunkLen(c) >= 12 * ChunkCapacity) => ChunkLen(c) >= 2
      BY <2>1, ConstantsAssumption
    <3>3. (10 * ChunkLen(c) >= 12 * ChunkCapacity) \in BOOLEAN
      BY SMTT(30)
    <3>. QED
      BY <3>1, <3>2, <3>3, Zenon
  <2>. QED
    BY <2>2, <2>3
<1>6. ASSUME NEW d \in {c, LowerHalf(c), UpperHalf(c)},
             ts \in DOMAIN d, ~UpsertRefused(d, sample, policy)
      PROVE  DuplicateValue(policy, d[ts], sample.value) \in Values
  <2>1. ts \in DOMAIN c /\ d[ts] = c[ts]
    <3>. HIDE DEF ts, c
    <3>1. CASE d = c
      BY <3>1, <1>6
    <3>2. CASE d = LowerHalf(c)
      BY <3>2, <1>6 DEF LowerHalf
    <3>3. CASE d = UpperHalf(c)
      BY SMTT(30), <3>3, <1>6 DEF UpperHalf
    <3>. QED
      BY <3>1, <3>2, <3>3
  <2>2. DuplicateValue(policy, c[ts], sample.value) \in Values \cup {None}
    BY SMTT(30), <2>1, <1>3 DEF FoldIsBounded
  <2>. QED
    BY <2>1, <2>2, <1>6 DEF UpsertRefused
<1>. QED
  BY <1>5, <1>6

\* The series u is sound and holds what s holds, and at most ts besides.
Keeps(s, ts, u) ==
    /\ SeriesOK(u) /\ u.retention = s.retention
    /\ Stored(s.chunks) \subseteq Stored(u.chunks)
    /\ Stored(u.chunks) \subseteq Stored(s.chunks) \cup {ts}

\* A series so kept, with one of the results, is an answer of add_deferring_retention.
LEMMA Reported ==
    ASSUME NEW s, NEW ts, NEW u, Keeps(s, ts, u), NEW result, result \in Results,
           NEW r, r = [series |-> u, result |-> result]
    PROVE  /\ Keeps(s, ts, r.series) /\ r.result \in Results
           /\ r = [series |-> r.series, result |-> r.result]
<1>1. r.series = u /\ r.result = result
  OBVIOUS
<1>. QED
  BY Zenon, <1>1

\* An upsert of a sample that is not newer than the last one keeps the series, whichever way the
\* chunk is written.
LEMMA UpsertSampleOK ==
    ASSUME NEW s, SeriesOK(s), NEW sample \in Samples, NEW policy,
           FoldIsBounded(s, sample, policy), NEW split \in SplitOutcomes(s, sample.timestamp),
           s.last_sample # None, sample.timestamp <= s.last_sample.timestamp,
           NEW r, r = UpsertSample(s, sample, policy, split)
    PROVE  /\ Keeps(s, sample.timestamp, r.series) /\ r.result \in Results
           /\ r = [series |-> r.series, result |-> r.result]
<1>. DEFINE ts   == sample.timestamp
            c    == s.chunks[UpsertTarget(s, ts)]
            half == OwningHalf(c, sample)
            res  == IF UpsertRefused(half, sample, policy) THEN "duplicate" ELSE "ok"
<1>1. s.chunks # <<>>
  BY SeriesOKFacts
<1>2. /\ split \in BOOLEAN /\ (split => ChunkLen(c) >= 2)
      /\ \A d \in {c, LowerHalf(c), UpperHalf(c)} :
            ts \in DOMAIN d /\ ~UpsertRefused(d, sample, policy) =>
                DuplicateValue(policy, d[ts], sample.value) \in Values
  BY UpsertReady
<1>3. "ok" \in Results /\ "duplicate" \in Results
  BY DEF Results
<1>4. CASE split
  <2>1. r = [series |-> UpsertWithSplit(s, sample, policy), result |-> res]
    BY Zenon, <1>4 DEF UpsertSample
  <2>2. half \in {c, LowerHalf(c), UpperHalf(c)}
    BY DEF OwningHalf
  <2>3. ts \in DOMAIN half /\ ~UpsertRefused(half, sample, policy) =>
            DuplicateValue(policy, half[ts], sample.value) \in Values
    BY Zenon, <2>2, <1>2
  <2>4. ChunkLen(c) >= 2
    BY Zenon, <1>2, <1>4
  <2>5. Keeps(s, ts, UpsertWithSplit(s, sample, policy))
    BY Zenon, <2>3, <2>4, <1>1, SplitWriteKeeps DEF Keeps
  <2>6. res \in Results
    BY Zenon, <1>3
  <2>. HIDE DEF res, ts
  <2>. QED
    BY Zenon, <2>1, <2>5, <2>6, Reported DEF ts
<1>5. CASE ~split /\ UpsertRefused(c, sample, policy)
  <2>1. r = [series |-> s, result |-> "duplicate"]
    BY Zenon, <1>5 DEF UpsertSample
  <2>2. Keeps(s, ts, s)
    BY Zenon DEF Keeps
  <2>. QED
    BY Zenon, <2>1, <2>2, <1>3, Reported
<1>6. CASE ~split /\ ~UpsertRefused(c, sample, policy)
  <2>1. r = [series |-> UpsertInPlace(s, sample, policy), result |-> "ok"]
    BY Zenon, <1>6 DEF UpsertSample
  <2>2. ts \in DOMAIN c => DuplicateValue(policy, c[ts], sample.value) \in Values
    BY Zenon, <1>2, <1>6
  <2>3. Keeps(s, ts, UpsertInPlace(s, sample, policy))
    <3>. DEFINE u == UpsertInPlace(s, sample, policy)
    <3>1. /\ SeriesOK(u) /\ u.retention = s.retention
          /\ Stored(u.chunks) = Stored(s.chunks) \cup {ts}
      BY Zenon, <2>2, <1>1, UpsertInPlaceOK
    <3>. HIDE DEF u
    <3>2. Keeps(s, ts, u)
      BY Zenon, <3>1 DEF Keeps
    <3>. QED
      BY Zenon, <3>2 DEF u
  <2>. QED
    BY Zenon, <2>1, <2>3, <1>3, Reported
<1>. QED
  BY Zenon, <1>2, <1>4, <1>5, <1>6

\* add_deferring_retention keeps the series well formed and described, stores at most the new
\* timestamp, and loses none.
LEMMA AddDeferringRetentionOK ==
    ASSUME NEW s, SeriesOK(s), NEW sample \in Samples, NEW policy,
           FoldIsBounded(s, sample, policy),
           NEW full \in FullOutcomes(s), NEW split \in SplitOutcomes(s, sample.timestamp)
    PROVE  LET r == AddDeferringRetention(s, sample, policy, full, split)
           IN  /\ SeriesOK(r.series)
               /\ r.series.retention = s.retention
               /\ r.result \in Results
               /\ Stored(s.chunks) \subseteq Stored(r.series.chunks)
               /\ Stored(r.series.chunks) \subseteq Stored(s.chunks) \cup {sample.timestamp}
               /\ r = [series |-> r.series, result |-> r.result]
<1>. DEFINE ts == sample.timestamp
            r  == AddDeferringRetention(s, sample, policy, full, split)
<1>0. ts \in Timestamps /\ ts \in Nat
  BY ConstantsAssumption DEF Samples, Timestamps
<1>1. full \in BOOLEAN
  BY FullIsBoolean
<1>2. \A result \in {"ok", "too_old", "ignored"} : result \in Results
  BY DEF Results
<1>3. Keeps(s, ts, s)
  BY Zenon DEF Keeps
<1>. SUFFICES /\ Keeps(s, ts, r.series) /\ r.result \in Results
              /\ r = [series |-> r.series, result |-> r.result]
  BY Zenon DEF Keeps
<1>4. CASE IsOlderThanRetention(s, ts)
  <2>1. r = [series |-> s, result |-> "too_old"]
    BY <1>4 DEF AddDeferringRetention
  <2>. HIDE DEF r
  <2>. QED
    BY Zenon, <2>1, <1>2, <1>3, Reported
<1>5. CASE /\ ~IsOlderThanRetention(s, ts)
           /\ \/ s.last_sample = None
              \/ /\ s.last_sample # None
                 /\ ~IsDuplicate(sample, s.last_sample, policy)
                 /\ ~(ts <= s.last_sample.timestamp)
  <2>. DEFINE u == AddSampleInternal(s, sample, full)
  <2>1. r = [series |-> u, result |-> "ok"]
    BY <1>5 DEF AddDeferringRetention
  <2>2. s.last_sample # None => s.last_sample.timestamp < ts
    <3>1. s.last_sample # None => s.last_sample.timestamp \in Nat
      BY SeriesOKFacts, ConstantsAssumption DEF Samples, Timestamps
    <3>. QED
      BY <3>1, <1>0, <1>5
  <2>3. Keeps(s, ts, u)
    <3>1. /\ SeriesOK(u) /\ u.retention = s.retention
          /\ Stored(u.chunks) = Stored(s.chunks) \cup {ts}
      BY Zenon, <2>2, <1>1, AddSampleInternalOK
    <3>. HIDE DEF u
    <3>. QED
      BY Zenon, <3>1 DEF Keeps
  <2>. HIDE DEF u, r
  <2>. QED
    BY Zenon, <2>1, <2>3, <1>2, Reported
<1>6. CASE /\ ~IsOlderThanRetention(s, ts) /\ s.last_sample # None
           /\ IsDuplicate(sample, s.last_sample, policy)
  <2>1. r = [series |-> s, result |-> "ignored"]
    BY <1>6 DEF AddDeferringRetention
  <2>. HIDE DEF r
  <2>. QED
    BY Zenon, <2>1, <1>2, <1>3, Reported
<1>7. CASE /\ ~IsOlderThanRetention(s, ts) /\ s.last_sample # None
           /\ ~IsDuplicate(sample, s.last_sample, policy)
           /\ ts <= s.last_sample.timestamp
  <2>1. r = UpsertSample(s, sample, policy, split)
    BY <1>7 DEF AddDeferringRetention
  <2>. HIDE DEF r
  <2>. QED
    BY Zenon, <2>1, <1>7, UpsertSampleOK
<1>. QED
  BY <1>4, <1>5, <1>6, <1>7
=============================================================================
