--------------------------- MODULE SeriesContents ---------------------------
(***************************************************************************)
(* What the operations of a series do to the samples it holds, values and  *)
(* all.  The chunk lemmas say which timestamps an operation stores; this   *)
(* module adds which values they have, as agreement of a chunk list with   *)
(* one map.                                                                *)
(***************************************************************************)
EXTENDS SeriesWriteProofs

\* Every sample of the chunk list cs is in the map m, with the same value.
Agrees(cs, m) ==
    \A i \in DOMAIN cs : \A t \in DOMAIN cs[i] : t \in DOMAIN m /\ cs[i][t] = m[t]

\* Everything a chunk list holds, as one map.
Content(cs) == MapOf(cs, Stored(cs))

\* MapOf reads the only chunk that holds a timestamp.
LEMMA ValueAt ==
    ASSUME NEW cs, WellFormed(cs), NEW i \in DOMAIN cs, NEW t \in DOMAIN cs[i], NEW T, t \in T
    PROVE  MapOf(cs, T)[t] = cs[i][t]
<1>. DEFINE k == CHOOSE j \in DOMAIN cs : t \in DOMAIN cs[j]
<1>1. k \in DOMAIN cs /\ t \in DOMAIN cs[k]
  OBVIOUS
<1>2. MapOf(cs, T)[t] = cs[k][t]
  BY DEF MapOf
<1>. HIDE DEF k
<1>3. DOMAIN cs = 1 .. Len(cs) /\ Len(cs) \in Nat /\ t \in Nat
  BY WellFormedFacts, ChunkFacts, ConstantsAssumption DEF Timestamps
<1>4. ~(k < i) /\ ~(i < k)
  BY <1>1, <1>3 DEF WellFormed, Ordered
<1>. QED
  BY <1>1, <1>2, <1>3, <1>4

\* A chunk list agrees with its own content.
LEMMA AgreesWithContent ==
    ASSUME NEW cs, WellFormed(cs)
    PROVE  DOMAIN Content(cs) = Stored(cs) /\ Agrees(cs, Content(cs))
<1>1. DOMAIN Content(cs) = Stored(cs)
  BY DEF Content, MapOf
<1>2. ASSUME NEW i \in DOMAIN cs, NEW t \in DOMAIN cs[i]
      PROVE  t \in Stored(cs) /\ cs[i][t] = Content(cs)[t]
  <2>1. t \in Stored(cs)
    BY DEF Stored
  <2>. QED
    BY <2>1, ValueAt DEF Content
<1>. QED
  BY <1>1, <1>2 DEF Agrees

\* What MapOf selects from a chunk list is the restriction of any map it agrees with.
LEMMA MapOfAgreeing ==
    ASSUME NEW cs, WellFormed(cs), NEW m, Agrees(cs, m), NEW T \in SUBSET Stored(cs)
    PROVE  MapOf(cs, T) = [t \in T |-> m[t]]
<1>1. ASSUME NEW t \in T PROVE MapOf(cs, T)[t] = m[t]
  <2>1. PICK i \in DOMAIN cs : t \in DOMAIN cs[i]
    BY DEF Stored
  <2>. QED
    BY <2>1, ValueAt DEF Agrees
<1>2. MapOf(cs, T) = [t \in T |-> MapOf(cs, T)[t]]
  BY DEF MapOf
<1>. HIDE DEF MapOf
<1>. QED
  BY <1>1, <1>2

-----------------------------------------------------------------------------
(* Trims *)

\* trim_expired changes no value, and takes the oldest samples first.
LEMMA TrimmedAgrees ==
    ASSUME NEW cs, WellFormed(cs), NEW min \in Timestamps, NEW force \in BOOLEAN,
           NEW m, Agrees(cs, m)
    PROVE  LET ds == TrimmedChunks(cs, min, force)
           IN  /\ Agrees(ds, m)
               /\ \A t \in Stored(cs) \ Stored(ds), u \in Stored(ds) : t < u
<1>. DEFINE n    == FirstReaching(cs, min) - 1
            kept == DropChunks(cs, n)
            ds   == TrimmedChunks(cs, min, force)
            cut  == ChunkRemoveRange(kept[1], 0, min - 1)
            trim == kept # <<>> /\ FirstTimestamp(kept[1]) < min
                      /\ (force \/ HeadTrimDue(kept[1], min))
<1>0. /\ DOMAIN cs = 1 .. Len(cs) /\ Len(cs) \in Nat
      /\ \A i \in DOMAIN cs : cs[i] \in Chunks /\ DOMAIN cs[i] \in SUBSET Nat
      /\ min \in Nat
  BY WellFormedFacts, ChunkFacts, ConstantsAssumption DEF Timestamps
<1>1. n \in 0 .. Len(cs)
  BY <1>0, FirstReachingFacts
<1>. HIDE DEF n
<1>2. /\ WellFormed(kept) /\ Len(kept) = Len(cs) - n
      /\ \A k \in 1 .. Len(cs) - n : kept[k] = cs[k + n]
  BY <1>1, DropChunksFacts
<1>3. DOMAIN kept = 1 .. Len(cs) - n /\ kept \in Seq(Chunks)
  BY <1>0, <1>1, <1>2, WellFormedFacts
<1>4. ds = IF trim THEN [kept EXCEPT ![1] = cut] ELSE kept
  BY DEF TrimmedChunks, n
<1>. HIDE DEF kept
<1>5. ASSUME trim PROVE /\ 1 \in DOMAIN kept
                        /\ DOMAIN cut = {t \in DOMAIN kept[1] : t >= min}
                        /\ \A t \in DOMAIN cut : cut[t] = kept[1][t]
  <2>1. 1 \in DOMAIN kept
    BY <1>2, <1>3, <1>5, WellFormedFacts
  <2>2. DOMAIN kept[1] \in SUBSET Nat
    BY <2>1, <1>0, <1>1, <1>2, <1>3
  <2>. QED
    BY Zenon, <2>1, <2>2, <1>0, HeadCut
<1>. HIDE DEF cut
<1>6. /\ DOMAIN ds = DOMAIN kept
      /\ \A k \in DOMAIN kept :
            \/ ds[k] = kept[k]
            \/ k = 1 /\ DOMAIN ds[k] = {t \in DOMAIN kept[k] : t >= min}
                     /\ \A t \in DOMAIN ds[k] : ds[k][t] = kept[k][t]
  BY <1>3, <1>4, <1>5
<1>. HIDE DEF ds, trim
<1>7. Agrees(ds, m)
  <2>. SUFFICES ASSUME NEW k \in DOMAIN ds, NEW t \in DOMAIN ds[k]
                PROVE  t \in DOMAIN m /\ ds[k][t] = m[t]
    BY DEF Agrees
  <2>1. t \in DOMAIN kept[k] /\ ds[k][t] = kept[k][t]
    BY <1>6
  <2>2. k + n \in DOMAIN cs /\ kept[k] = cs[k + n]
    BY <1>0, <1>1, <1>2, <1>3, <1>6
  <2>. QED
    BY <2>1, <2>2 DEF Agrees
<1>8. ASSUME NEW t \in Stored(cs) \ Stored(ds), NEW u \in Stored(ds) PROVE t < u
  <2>1. PICK i \in DOMAIN cs : t \in DOMAIN cs[i]
    BY DEF Stored
  <2>2. PICK k \in DOMAIN ds : u \in DOMAIN ds[k]
    BY DEF Stored
  <2>3. k + n \in DOMAIN cs /\ kept[k] = cs[k + n] /\ u \in DOMAIN cs[k + n] /\ k \in Nat /\ k >= 1
    <3>1. k + n \in DOMAIN cs /\ kept[k] = cs[k + n] /\ k \in Nat /\ k >= 1
      BY <1>0, <1>1, <1>2, <1>3, <1>6
    <3>2. u \in DOMAIN kept[k]
      BY <2>2, <1>6
    <3>. QED
      BY <3>1, <3>2
  <2>4. t \in Nat /\ u \in Nat
    BY <2>1, <2>3, <1>0
  <2>5. CASE i < k + n
    BY <2>1, <2>3, <2>5 DEF WellFormed, Ordered
  <2>6. CASE ~(i < k + n)
    <3>1. i - n \in DOMAIN kept /\ kept[i - n] = cs[i] /\ i - n >= k
      BY <2>1, <2>3, <2>6, <1>0, <1>1, <1>2, <1>3
    <3>2. t \notin DOMAIN ds[i - n]
      BY <3>1, <1>6, <1>8 DEF Stored
    <3>3. i - n = 1 /\ ~(t >= min) /\ DOMAIN ds[1] = {v \in DOMAIN kept[1] : v >= min}
      BY <3>1, <3>2, <2>1, <1>6
    <3>4. k = 1 /\ u >= min
      BY <3>1, <3>3, <2>2, <2>3, <1>1
    <3>. QED
      BY <3>3, <3>4, <2>4, <1>0
  <2>. QED
    BY <2>5, <2>6
<1>. QED
  BY <1>7, <1>8 DEF ds

\* The same for a whole series.
LEMMA TrimExpiredAgrees ==
    ASSUME NEW s, SeriesOK(s), NEW force \in BOOLEAN, NEW m, Agrees(s.chunks, m)
    PROVE  LET u == TrimExpired(s, force)
           IN  /\ Agrees(u.chunks, m)
               /\ \A t \in Stored(s.chunks) \ Stored(u.chunks), v \in Stored(u.chunks) : t < v
<1>. DEFINE min == GetMinTimestamp(s)
            cs  == TrimmedChunks(s.chunks, min, force)
            u   == TrimExpired(s, force)
<1>1. min \in Timestamps /\ WellFormed(s.chunks) /\ s \in SeriesType
  BY FloorType, SeriesOKFacts
<1>2. u = s \/ u.chunks = cs
  BY <1>1 DEF TrimExpired, UpdateFirstLastTimestamps, SeriesType
<1>. HIDE DEF min, cs, u
<1>3. CASE u = s
  BY <1>3 DEF u
<1>4. CASE u.chunks = cs
  <2>1. /\ Agrees(cs, m)
        /\ \A t \in Stored(s.chunks) \ Stored(cs), v \in Stored(cs) : t < v
    BY <1>1, TrimmedAgrees DEF cs
  <2>. QED
    BY <2>1, <1>4 DEF u
<1>. QED
  BY <1>2, <1>3, <1>4

-----------------------------------------------------------------------------
(* The window *)

\* The newest stored sample is last_sample, and it is live.
LEMMA NewestStored ==
    ASSUME NEW s, SeriesOK(s), s.chunks # <<>>
    PROVE  /\ s.last_sample.timestamp \in Live(s)
           /\ MaxOf(Stored(s.chunks)) = s.last_sample.timestamp
           /\ MaxOf(Live(s)) = s.last_sample.timestamp
<1>. DEFINE x == s.last_sample.timestamp
<1>1. /\ x \in Stored(s.chunks) /\ \A t \in Stored(s.chunks) : t <= x
      /\ s.retention \in Nat /\ s.first_timestamp <= x
  BY SeriesOKFacts
<1>2. Stored(s.chunks) \in SUBSET Timestamps /\ MaxTimestamp \in Nat
  BY SeriesOKFacts, CountStored, ConstantsAssumption
<1>3. x \in Nat
  BY <1>1, <1>2 DEF Timestamps
<1>4. x >= GetMinTimestamp(s)
  <2>1. s.last_sample # None /\ s.first_timestamp \in Nat
    BY SeriesOKFacts, ConstantsAssumption DEF Timestamps
  <2>2. \/ GetMinTimestamp(s) = s.first_timestamp
        \/ GetMinTimestamp(s) = 0
        \/ GetMinTimestamp(s) = x - s.retention
    BY <2>1 DEF GetMinTimestamp
  <2>. HIDE DEF x
  <2>. QED
    BY <2>1, <2>2, <1>1, <1>3
<1>5. x \in Live(s) /\ Live(s) \subseteq Stored(s.chunks)
  BY <1>1, <1>4 DEF Live
<1>. HIDE DEF x
<1>6. ASSUME NEW S \in SUBSET Stored(s.chunks), x \in S PROVE MaxOf(S) = x
  <2>1. S \in SUBSET (0 .. MaxTimestamp) /\ S # {}
    BY <1>2, <1>6 DEF Timestamps
  <2>2. MaxOf(S) \in S /\ x <= MaxOf(S)
    BY Zenon, <2>1, <1>2, <1>6, MaxOfBounded
  <2>3. MaxOf(S) <= x
    BY <2>2, <1>1
  <2>4. MaxOf(S) \in Nat
    BY <2>1, <2>2
  <2>. QED
    BY <2>2, <2>3, <2>4, <1>3
<1>. QED
  BY <1>1, <1>5, <1>6 DEF x

\* With the same window, fewer samples mean a floor that is no higher.
LEMMA FloorAntitone ==
    ASSUME NEW s, SeriesOK(s), NEW u, SeriesOK(u), u.retention = s.retention, s.retention # 0,
           Stored(u.chunks) \subseteq Stored(s.chunks)
    PROVE  GetMinTimestamp(u) <= GetMinTimestamp(s)
<1>1. s.retention \in Nat /\ GetMinTimestamp(s) \in Nat /\ WellFormed(u.chunks) /\ WellFormed(s.chunks)
  BY SeriesOKFacts, FloorType, ConstantsAssumption DEF Timestamps
<1>2. CASE u.chunks = <<>>
  <2>1. GetMinTimestamp(u) = 0
    BY <1>2, SeriesOKFacts DEF GetMinTimestamp
  <2>. QED
    BY <2>1, <1>1
<1>3. CASE u.chunks # <<>>
  <2>1. u.last_sample.timestamp \in Stored(u.chunks) /\ u.last_sample # None
    BY <1>3, SeriesOKFacts
  <2>2. s.chunks # <<>>
    BY <2>1, <1>1, OrderedEnds
  <2>3. u.last_sample.timestamp <= s.last_sample.timestamp /\ s.last_sample # None
    BY <2>1, <2>2, SeriesOKFacts
  <2>4. u.last_sample.timestamp \in Nat /\ s.last_sample.timestamp \in Nat
    <3>1. u.last_sample \in Samples /\ s.last_sample \in Samples
      BY <2>2, <1>3, SeriesOKFacts
    <3>. QED
      BY <3>1, ConstantsAssumption DEF Samples, Timestamps
  <2>. QED
    BY <2>1, <2>3, <2>4, <1>1 DEF GetMinTimestamp
<1>. QED
  BY <1>2, <1>3

\* The samples between a cut and a floor.
LEMMA WindowSets ==
    ASSUME NEW A \in SUBSET Nat, NEW U \in SUBSET A, NEW floor \in Nat
    PROVE  /\ {t \in A : t >= 0} = A
           /\ {t \in A : floor <= t /\ t < floor} = {}
           /\ \A cut \in Nat :
                 (\A t \in A : t \in U <=> cut <= t) =>
                     U \ {t \in U : t >= floor} = {t \in A : cut <= t /\ t < floor}
<1>1. {t \in A : t >= 0} = A
  <2>1. \A t \in A : t >= 0
    OBVIOUS
  <2>. QED
    BY <2>1, Zenon
<1>2. {t \in A : floor <= t /\ t < floor} = {}
  <2>1. \A t \in A : ~(floor <= t /\ t < floor)
    OBVIOUS
  <2>. QED
    BY <2>1, Zenon
<1>3. ASSUME NEW cut \in Nat, \A t \in A : t \in U <=> cut <= t
      PROVE  U \ {t \in U : t >= floor} = {t \in A : cut <= t /\ t < floor}
  <2>1. \A t \in A : ~(t >= floor) <=> t < floor
    OBVIOUS
  <2>. QED
    BY Zenon, <2>1, <1>3
<1>. QED
  BY <1>1, <1>2, <1>3

-----------------------------------------------------------------------------
(* Writes *)

\* m is the content of the chunk list cs with the sample written over it.
Upserts(m, cs, sample, policy) ==
    /\ DOMAIN m = Stored(cs) \cup {sample.timestamp}
    /\ \A i \in DOMAIN cs : \A t \in DOMAIN cs[i] :
          t # sample.timestamp => t \in DOMAIN m /\ m[t] = cs[i][t]
    /\ \A i \in DOMAIN cs : sample.timestamp \in DOMAIN cs[i] =>
          m[sample.timestamp] = DuplicateValue(policy, cs[i][sample.timestamp], sample.value)
    /\ sample.timestamp \notin Stored(cs) => m[sample.timestamp] = sample.value

\* The samples of d are samples of m.
PartOf(d, m) == \A t \in DOMAIN d : t \in DOMAIN m /\ d[t] = m[t]

\* What an upsert into the content of a chunk list gives.
LEMMA UpsertedContent ==
    ASSUME NEW cs, WellFormed(cs), NEW sample \in Samples, NEW policy
    PROVE  Upserts(ChunkUpsert(Content(cs), sample, policy), cs, sample, policy)
<1>. DEFINE C  == Content(cs)
            ts == sample.timestamp
            m  == ChunkUpsert(C, sample, policy)
<1>1. DOMAIN C = Stored(cs) /\ \A i \in DOMAIN cs : \A t \in DOMAIN cs[i] : C[t] = cs[i][t]
  BY AgreesWithContent DEF Agrees
<1>2. \A i \in DOMAIN cs : \A t \in DOMAIN cs[i] : t \in Stored(cs)
  BY DEF Stored
<1>. HIDE DEF C
<1>3. /\ DOMAIN m = DOMAIN C \cup {ts}
      /\ \A t \in DOMAIN m : m[t] = IF t # ts THEN C[t]
                                   ELSE IF t \in DOMAIN C
                                          THEN DuplicateValue(policy, C[t], sample.value)
                                   ELSE sample.value
  BY DEF ChunkUpsert
<1>. HIDE DEF m, ts
<1>4. ASSUME NEW i \in DOMAIN cs, NEW t \in DOMAIN cs[i], t # ts
      PROVE  t \in DOMAIN m /\ m[t] = cs[i][t]
  BY <1>1, <1>2, <1>3, <1>4
<1>5. ASSUME NEW i \in DOMAIN cs, ts \in DOMAIN cs[i]
      PROVE  m[ts] = DuplicateValue(policy, cs[i][ts], sample.value)
  <2>1. ts \in Stored(cs) /\ C[ts] = cs[i][ts]
    BY <1>1, <1>2, <1>5
  <2>. QED
    BY <2>1, <1>1, <1>3
<1>6. ts \notin Stored(cs) => m[ts] = sample.value
  BY <1>1, <1>3
<1>7. DOMAIN m = Stored(cs) \cup {ts}
  BY <1>1, <1>3
<1>8. Upserts(m, cs, sample, policy)
  BY <1>4, <1>5, <1>6, <1>7 DEF Upserts, ts
<1>. QED
  BY <1>8 DEF m, C

\* An upsert into a part of one chunk writes what the upsert into the whole content writes, when
\* the part is the one that may hold the timestamp.
LEMMA UpsertedPart ==
    ASSUME NEW cs, WellFormed(cs), NEW sample \in Samples, NEW policy,
           NEW i \in DOMAIN cs, NEW half, DOMAIN half \subseteq DOMAIN cs[i],
           \A t \in DOMAIN half : half[t] = cs[i][t],
           sample.timestamp \in Stored(cs) => sample.timestamp \in DOMAIN half
    PROVE  PartOf(ChunkUpsert(half, sample, policy), ChunkUpsert(Content(cs), sample, policy))
<1>. DEFINE ts == sample.timestamp
            d  == ChunkUpsert(half, sample, policy)
            m  == ChunkUpsert(Content(cs), sample, policy)
<1>1. /\ DOMAIN d = DOMAIN half \cup {ts}
      /\ \A t \in DOMAIN d : d[t] = IF t # ts THEN half[t]
                                   ELSE IF t \in DOMAIN half
                                          THEN DuplicateValue(policy, half[t], sample.value)
                                   ELSE sample.value
  BY DEF ChunkUpsert
<1>2. /\ DOMAIN m = Stored(cs) \cup {ts}
      /\ \A t \in DOMAIN cs[i] : t # ts => t \in DOMAIN m /\ m[t] = cs[i][t]
      /\ ts \in DOMAIN cs[i] => m[ts] = DuplicateValue(policy, cs[i][ts], sample.value)
      /\ ts \notin Stored(cs) => m[ts] = sample.value
  <2>1. Upserts(m, cs, sample, policy)
    BY UpsertedContent
  <2>. HIDE DEF m
  <2>. QED
    BY <2>1 DEF Upserts
<1>. HIDE DEF d, m, ts
<1>3. ASSUME NEW t \in DOMAIN d PROVE t \in DOMAIN m /\ d[t] = m[t]
  <2>1. CASE t # ts
    BY <2>1, <1>1, <1>2
  <2>2. CASE t = ts /\ ts \in DOMAIN half
    BY <2>2, <1>1, <1>2
  <2>3. CASE t = ts /\ ts \notin DOMAIN half
    BY <2>3, <1>1, <1>2 DEF ts
  <2>. QED
    BY <2>1, <2>2, <2>3
<1>4. PartOf(d, m)
  BY <1>3 DEF PartOf
<1>. QED
  BY <1>4 DEF d, m

\* The append path writes what an upsert into the content writes, whatever the policy.
LEMMA AddSampleInternalAgrees ==
    ASSUME NEW s, SeriesOK(s), NEW sample \in Samples, NEW full \in BOOLEAN, NEW policy,
           s.last_sample # None => s.last_sample.timestamp < sample.timestamp
    PROVE  /\ Agrees(AddSampleInternal(s, sample, full).chunks,
                     ChunkUpsert(Content(s.chunks), sample, policy))
           /\ sample.timestamp \notin Stored(s.chunks)
<1>. DEFINE old  == s.chunks
            n    == Len(old)
            ts   == sample.timestamp
            unit == [t \in {ts} |-> sample.value]
            last == ChunkUpsert(old[n], sample, "last")
            cs   == IF n = 0 \/ full THEN InsertChunk(old, n + 1, unit)
                    ELSE [old EXCEPT ![n] = ChunkUpsert(@, sample, "last")]
            m    == ChunkUpsert(Content(old), sample, policy)
<1>0. /\ WellFormed(old) /\ DOMAIN old = 1 .. n /\ n \in Nat /\ s \in SeriesType
      /\ \A i \in DOMAIN old : old[i] \in Chunks
  BY SeriesOKFacts, WellFormedFacts
<1>1. AddSampleInternal(s, sample, full).chunks = cs
  BY <1>0 DEF AddSampleInternal, RecordAppendedSample, SeriesType
<1>. HIDE DEF n, old
<1>2. \A t \in Stored(old) : t < ts
  <2>. SUFFICES ASSUME NEW t \in Stored(old) PROVE t < ts
    OBVIOUS
  <2>1. old # <<>>
    BY <1>0, OrderedEnds
  <2>2. t <= s.last_sample.timestamp /\ s.last_sample.timestamp < ts
    BY <2>1, SeriesOKFacts DEF old
  <2>3. t \in Nat /\ s.last_sample.timestamp \in Nat /\ ts \in Nat
    BY <2>1, <1>0, SeriesOKFacts, CountStored, ConstantsAssumption DEF Timestamps, Samples, old
  <2>. QED
    BY <2>2, <2>3
<1>3. ts \notin Stored(old)
  <2>1. ts \in Nat
    BY ConstantsAssumption DEF Timestamps, Samples
  <2>. QED
    BY <2>1, <1>2
<1>4. /\ DOMAIN m = Stored(old) \cup {ts} /\ m[ts] = sample.value
      /\ \A i \in DOMAIN old : \A t \in DOMAIN old[i] :
            t \in Stored(old) /\ t \in DOMAIN m /\ m[t] = old[i][t]
  <2>1. \A i \in DOMAIN old : \A t \in DOMAIN old[i] : t \in Stored(old) /\ t # ts
    BY <1>3 DEF Stored
  <2>2. Upserts(m, old, sample, policy)
    BY <1>0, UpsertedContent
  <2>. HIDE DEF m
  <2>3. /\ DOMAIN m = Stored(old) \cup {ts} /\ m[ts] = sample.value
        /\ \A i \in DOMAIN old : \A t \in DOMAIN old[i] :
              t # ts => t \in DOMAIN m /\ m[t] = old[i][t]
    BY <2>2, <1>3 DEF Upserts
  <2>. HIDE DEF ts
  <2>. QED
    BY <2>1, <2>3
<1>. HIDE DEF m
<1>5. CASE n = 0 \/ full
  <2>1. cs = [k \in 1 .. n + 1 |-> IF k < n + 1 THEN old[k] ELSE IF k = n + 1 THEN unit
                                  ELSE old[k - 1]]
    BY <1>5 DEF InsertChunk, n
  <2>2. \A k \in DOMAIN cs : (k \in DOMAIN old /\ cs[k] = old[k]) \/ cs[k] = unit
    BY <2>1, <1>0
  <2>3. DOMAIN unit = {ts} /\ unit[ts] = sample.value
    OBVIOUS
  <2>. HIDE DEF cs, unit
  <2>4. Agrees(cs, m)
    BY <2>2, <2>3, <1>4 DEF Agrees
  <2>. QED
    BY <2>4, <1>1, <1>3 DEF m, old, ts
<1>6. CASE ~(n = 0 \/ full)
  <2>1. n \in DOMAIN old /\ cs = [old EXCEPT ![n] = last]
    BY <1>0, <1>6
  <2>2. DOMAIN cs = DOMAIN old /\ cs[n] = last /\ \A k \in DOMAIN old : k # n => cs[k] = old[k]
    BY <2>1
  <2>3. ts \notin DOMAIN old[n]
    BY <2>1, <1>3 DEF Stored
  <2>4. /\ DOMAIN last = DOMAIN old[n] \cup {ts} /\ last[ts] = sample.value
        /\ \A t \in DOMAIN old[n] : last[t] = old[n][t]
    BY <2>3 DEF ChunkUpsert
  <2>. HIDE DEF cs, last
  <2>5. Agrees(cs, m)
    BY <2>1, <2>2, <2>4, <1>4 DEF Agrees
  <2>. QED
    BY <2>5, <1>1, <1>3 DEF m, old, ts
<1>. QED
  BY <1>5, <1>6

\* upsert_sample without a split writes what an upsert into the content writes.
LEMMA UpsertInPlaceAgrees ==
    ASSUME NEW s, SeriesOK(s), s.chunks # <<>>, NEW sample \in Samples, NEW policy
    PROVE  LET c == s.chunks[UpsertTarget(s, sample.timestamp)]
           IN  /\ Agrees(UpsertInPlace(s, sample, policy).chunks,
                         ChunkUpsert(Content(s.chunks), sample, policy))
               /\ sample.timestamp \in DOMAIN c <=> sample.timestamp \in Stored(s.chunks)
<1>. DEFINE old == s.chunks
            ts  == sample.timestamp
            i   == UpsertTarget(s, ts)
            d   == ChunkUpsert(old[i], sample, policy)
            m   == ChunkUpsert(Content(old), sample, policy)
            cs  == UpsertInPlace(s, sample, policy).chunks
<1>0. WellFormed(old) /\ s \in SeriesType /\ ts \in Timestamps /\ ts \in Nat
      /\ DOMAIN old = 1 .. Len(old) /\ Len(old) \in Nat
  BY SeriesOKFacts, WellFormedFacts, ConstantsAssumption DEF Samples, Timestamps
<1>1. /\ i \in DOMAIN old
      /\ \A j \in DOMAIN old : j < i => \A t \in DOMAIN old[j] : t < ts
      /\ \A j \in DOMAIN old : j > i => \A t \in DOMAIN old[j] : ts < t
  BY <1>0, UpsertTargetFacts
<1>2. cs = [old EXCEPT ![i] = d]
  BY <1>0 DEF UpsertInPlace, SeriesType
<1>. HIDE DEF old, i
<1>3. \A j \in DOMAIN old : j # i => ts \notin DOMAIN old[j]
  <2>. SUFFICES ASSUME NEW j \in DOMAIN old, j # i, ts \in DOMAIN old[j] PROVE FALSE
    OBVIOUS
  <2>1. j < i \/ j > i
    BY <1>0, <1>1
  <2>2. ts < ts
    BY <2>1, <1>1
  <2>. QED
    BY <2>2, <1>0
<1>4. ts \in DOMAIN old[i] <=> ts \in Stored(old)
  BY <1>1, <1>3 DEF Stored
<1>5. PartOf(d, m)
  <2>1. DOMAIN old[i] \subseteq DOMAIN old[i] /\ \A t \in DOMAIN old[i] : old[i][t] = old[i][t]
    OBVIOUS
  <2>. QED
    BY <2>1, <1>0, <1>1, <1>4, UpsertedPart
<1>6. Upserts(m, old, sample, policy)
  BY <1>0, UpsertedContent
<1>. HIDE DEF cs, d, m
<1>7. DOMAIN cs = DOMAIN old /\ cs[i] = d /\ \A k \in DOMAIN old : k # i => cs[k] = old[k]
  BY <1>1, <1>2
<1>8. Agrees(cs, m)
  <2>. SUFFICES ASSUME NEW k \in DOMAIN cs, NEW t \in DOMAIN cs[k]
                PROVE  t \in DOMAIN m /\ cs[k][t] = m[t]
    BY DEF Agrees
  <2>1. CASE k = i
    BY <2>1, <1>5, <1>7 DEF PartOf
  <2>2. CASE k # i
    <3>1. k \in DOMAIN old /\ cs[k] = old[k]
      BY <2>2, <1>7
    <3>2. t # ts
      BY <3>1, <2>2, <1>3
    <3>. QED
      BY <3>1, <3>2, <1>6 DEF Upserts
  <2>. QED
    BY <2>1, <2>2
<1>. QED
  BY <1>4, <1>8 DEF cs, m, old, i, ts

\* upsert_sample with a split writes what an upsert into the content writes, or nothing.
LEMMA UpsertWithSplitAgrees ==
    ASSUME NEW s, SeriesOK(s), s.chunks # <<>>, NEW sample \in Samples, NEW policy,
           ChunkLen(s.chunks[UpsertTarget(s, sample.timestamp)]) >= 2,
           LET half == OwningHalf(s.chunks[UpsertTarget(s, sample.timestamp)], sample)
           IN  sample.timestamp \in DOMAIN half /\ ~UpsertRefused(half, sample, policy) =>
                   DuplicateValue(policy, half[sample.timestamp], sample.value) \in Values
    PROVE  LET c    == s.chunks[UpsertTarget(s, sample.timestamp)]
               half == OwningHalf(c, sample)
               u    == UpsertWithSplit(s, sample, policy)
           IN  /\ IF UpsertRefused(half, sample, policy)
                    THEN Agrees(u.chunks, Content(s.chunks))
                    ELSE Agrees(u.chunks, ChunkUpsert(Content(s.chunks), sample, policy))
               /\ sample.timestamp \in DOMAIN half <=> sample.timestamp \in Stored(s.chunks)
               /\ \A t \in DOMAIN half : t \in DOMAIN c /\ half[t] = c[t]
<1>. DEFINE old     == s.chunks
            ts      == sample.timestamp
            i       == UpsertTarget(s, ts)
            c       == old[i]
            half    == OwningHalf(c, sample)
            other   == IF IntoNew(c, sample) THEN LowerHalf(c) ELSE UpperHalf(c)
            wrote   == ChunkUpsert(half, sample, policy)
            refused == UpsertRefused(half, sample, policy)
            u       == UpsertWithSplit(s, sample, policy)
            C       == Content(old)
            m       == ChunkUpsert(C, sample, policy)
<1>0. WellFormed(old) /\ s \in SeriesType /\ ts \in Timestamps /\ ts \in Nat
      /\ DOMAIN old = 1 .. Len(old) /\ Len(old) \in Nat /\ \A j \in DOMAIN old : old[j] \in Chunks
  BY SeriesOKFacts, WellFormedFacts, ConstantsAssumption DEF Samples, Timestamps
<1>1. /\ i \in DOMAIN old
      /\ \A j \in DOMAIN old : j < i => \A t \in DOMAIN old[j] : t < ts
      /\ \A j \in DOMAIN old : j > i => \A t \in DOMAIN old[j] : ts < t
  BY <1>0, UpsertTargetFacts
<1>2. /\ ts \in DOMAIN half <=> ts \in Stored(old)
      /\ \A k \in DOMAIN u.chunks :
            \/ \E j \in DOMAIN old : j # i /\ u.chunks[k] = old[j]
            \/ u.chunks[k] = other
            \/ u.chunks[k] = IF refused THEN half ELSE wrote
  BY UpsertWithSplitOK
<1>3. /\ DOMAIN half \subseteq DOMAIN c /\ \A t \in DOMAIN half : half[t] = c[t]
      /\ DOMAIN other \subseteq DOMAIN c /\ \A t \in DOMAIN other : other[t] = c[t]
      /\ \A t \in DOMAIN half : t \notin DOMAIN other
  <2>1. c \in Chunks /\ ChunkLen(c) >= 2
    BY <1>0, <1>1
  <2>. HIDE DEF c
  <2>2. /\ DOMAIN LowerHalf(c) \cup DOMAIN UpperHalf(c) = DOMAIN c
        /\ Below(LowerHalf(c), UpperHalf(c))
        /\ \A t \in DOMAIN LowerHalf(c) : LowerHalf(c)[t] = c[t]
        /\ \A t \in DOMAIN UpperHalf(c) : UpperHalf(c)[t] = c[t]
    BY Zenon, <2>1, HalvesFacts
  <2>3. (half = LowerHalf(c) /\ other = UpperHalf(c)) \/ (half = UpperHalf(c) /\ other = LowerHalf(c))
    BY DEF OwningHalf
  <2>4. \A t \in DOMAIN c : t \in Nat /\ ~(t < t)
    BY <2>1, ChunkFacts, ConstantsAssumption DEF Timestamps
  <2>. HIDE DEF half, other
  <2>5. \A t \in DOMAIN LowerHalf(c) : t \notin DOMAIN UpperHalf(c)
    BY <2>2, <2>4 DEF Below
  <2>. QED
    BY <2>2, <2>3, <2>5
<1>4. \A j \in DOMAIN old : j # i => ts \notin DOMAIN old[j]
  <2>. HIDE DEF old, i, ts
  <2>. SUFFICES ASSUME NEW j \in DOMAIN old, j # i, ts \in DOMAIN old[j] PROVE FALSE
    OBVIOUS
  <2>1. j < i \/ j > i
    BY <1>0, <1>1
  <2>2. ts < ts
    BY <2>1, <1>1
  <2>. QED
    BY <2>2, <1>0
<1>5. \A j \in DOMAIN old : \A t \in DOMAIN old[j] : t # ts => t \in DOMAIN m /\ m[t] = old[j][t]
  <2>1. Upserts(m, old, sample, policy)
    BY <1>0, UpsertedContent
  <2>. HIDE DEF m, old
  <2>. QED
    BY <2>1 DEF Upserts
<1>6. \A t \in DOMAIN wrote : t \in DOMAIN m /\ wrote[t] = m[t]
  <2>. HIDE DEF old, i, half
  <2>1. PartOf(wrote, m)
    BY Zenon, <1>0, <1>1, <1>2, <1>3, UpsertedPart
  <2>. HIDE DEF wrote, m
  <2>. QED
    BY <2>1 DEF PartOf
<1>7. \A j \in DOMAIN old : \A t \in DOMAIN old[j] : t \in DOMAIN C /\ old[j][t] = C[t]
  BY <1>0, AgreesWithContent DEF Agrees
<1>8. c = old[i]
  OBVIOUS
<1>9. ts \notin DOMAIN other
  <2>1. ts \in DOMAIN other => ts \in Stored(old)
    BY Zenon, <1>1, <1>3, <1>8 DEF Stored
  <2>. QED
    BY Zenon, <2>1, <1>2, <1>3
<1>. HIDE DEF old, i, c, half, other, wrote, u, C, m, ts, refused
<1>10. CASE refused
  <2>1. Agrees(u.chunks, C)
    <3>. SUFFICES ASSUME NEW k \in DOMAIN u.chunks, NEW t \in DOMAIN u.chunks[k]
                  PROVE  t \in DOMAIN C /\ u.chunks[k][t] = C[t]
      BY DEF Agrees
    <3>1. CASE \E j \in DOMAIN old : j # i /\ u.chunks[k] = old[j]
      BY <3>1, <1>7
    <3>2. CASE u.chunks[k] = other \/ u.chunks[k] = half
      <4>1. t \in DOMAIN old[i] /\ u.chunks[k][t] = old[i][t]
        BY <3>2, <1>3, <1>8
      <4>. QED
        BY <4>1, <1>1, <1>7
    <3>. QED
      BY <3>1, <3>2, <1>2, <1>10
  <2>. QED
    BY Zenon, <2>1, <1>2, <1>3, <1>10 DEF old, i, c, half, u, C, ts, refused
<1>11. CASE ~refused
  <2>1. Agrees(u.chunks, m)
    <3>. SUFFICES ASSUME NEW k \in DOMAIN u.chunks, NEW t \in DOMAIN u.chunks[k]
                  PROVE  t \in DOMAIN m /\ u.chunks[k][t] = m[t]
      BY DEF Agrees
    <3>1. CASE \E j \in DOMAIN old : j # i /\ u.chunks[k] = old[j]
      <4>1. PICK j \in DOMAIN old : j # i /\ u.chunks[k] = old[j]
        BY <3>1
      <4>2. t # ts /\ t \in DOMAIN old[j]
        BY <4>1, <1>4
      <4>. QED
        BY <4>1, <4>2, <1>5
    <3>2. CASE u.chunks[k] = other
      <4>1. t # ts /\ t \in DOMAIN old[i] /\ u.chunks[k][t] = old[i][t]
        BY <3>2, <1>3, <1>8, <1>9
      <4>. QED
        BY <4>1, <1>1, <1>5
    <3>3. CASE u.chunks[k] = wrote
      BY <3>3, <1>6
    <3>. QED
      BY <3>1, <3>2, <3>3, <1>2, <1>11
  <2>. QED
    BY Zenon, <2>1, <1>2, <1>3, <1>11 DEF old, i, c, half, u, C, m, ts, refused
<1>. QED
  BY <1>10, <1>11

\* A write is refused by the part that may hold its timestamp exactly when the content refuses it.
LEMMA RefusedByPart ==
    ASSUME NEW cs, WellFormed(cs), NEW sample, NEW policy, NEW i \in DOMAIN cs, NEW half,
           \A t \in DOMAIN half : t \in DOMAIN cs[i] /\ half[t] = cs[i][t],
           (sample.timestamp \in DOMAIN half) <=> (sample.timestamp \in Stored(cs))
    PROVE  UpsertRefused(half, sample, policy) <=> UpsertRefused(Content(cs), sample, policy)
<1>. DEFINE C  == Content(cs)
            ts == sample.timestamp
<1>1. DOMAIN C = Stored(cs) /\ \A t \in DOMAIN cs[i] : C[t] = cs[i][t]
  BY AgreesWithContent DEF Agrees
<1>. HIDE DEF C
<1>2. CASE ts \in DOMAIN half
  <2>1. half[ts] = C[ts] /\ ts \in DOMAIN C
    BY <1>1, <1>2
  <2>. QED
    BY <2>1, <1>2 DEF UpsertRefused, C
<1>3. CASE ts \notin DOMAIN half
  BY <1>1, <1>3 DEF UpsertRefused, C
<1>. QED
  BY <1>2, <1>3

\* What add_deferring_retention answers, and what it stores, in terms of the content.
Answer(s, sample, policy) ==
    IF IsOlderThanRetention(s, sample.timestamp) THEN "too_old"
    ELSE IF s.chunks # <<>> /\ IsDuplicate(sample, s.last_sample, policy) THEN "ignored"
    ELSE IF UpsertRefused(Content(s.chunks), sample, policy) THEN "duplicate"
    ELSE "ok"

\* u is s up to how its samples are cut into chunks.
SameSamples(s, u) ==
    /\ Stored(u.chunks) = Stored(s.chunks)
    /\ Agrees(u.chunks, Content(s.chunks))
    /\ u.first_timestamp = s.first_timestamp
    /\ u.last_sample = s.last_sample
    /\ u.retention = s.retention

\* u is s with the sample written.
WithSample(s, u, sample, policy) ==
    /\ Stored(u.chunks) = Stored(s.chunks) \cup {sample.timestamp}
    /\ Agrees(u.chunks, ChunkUpsert(Content(s.chunks), sample, policy))
    /\ u.retention = s.retention

LEMMA UpsertSampleWrites ==
    ASSUME NEW s, SeriesOK(s), NEW sample \in Samples, NEW policy,
           FoldIsBounded(s, sample, policy), NEW split \in SplitOutcomes(s, sample.timestamp),
           s.last_sample # None, sample.timestamp <= s.last_sample.timestamp
    PROVE  LET r == UpsertSample(s, sample, policy, split)
           IN  IF UpsertRefused(Content(s.chunks), sample, policy)
                 THEN r.result = "duplicate" /\ SameSamples(s, r.series)
                 ELSE r.result = "ok" /\ WithSample(s, r.series, sample, policy)
<1>. DEFINE i    == UpsertTarget(s, sample.timestamp)
            c    == s.chunks[i]
            half == OwningHalf(c, sample)
            u    == UpsertWithSplit(s, sample, policy)
            v    == UpsertInPlace(s, sample, policy)
            r    == UpsertSample(s, sample, policy, split)
            no   == UpsertRefused(Content(s.chunks), sample, policy)
<1>1. s.chunks # <<>> /\ WellFormed(s.chunks)
  BY SeriesOKFacts
<1>2. i \in DOMAIN s.chunks
  BY <1>1, UpsertTargetFacts DEF Samples
<1>3. /\ split \in BOOLEAN /\ (split => ChunkLen(c) >= 2)
      /\ \A d \in {c, LowerHalf(c), UpperHalf(c)} :
            sample.timestamp \in DOMAIN d /\ ~UpsertRefused(d, sample, policy) =>
                DuplicateValue(policy, d[sample.timestamp], sample.value) \in Values
  BY UpsertReady
<1>4. CASE split
  <2>1. ChunkLen(c) >= 2
    BY <1>3, <1>4
  <2>2. sample.timestamp \in DOMAIN half /\ ~UpsertRefused(half, sample, policy) =>
            DuplicateValue(policy, half[sample.timestamp], sample.value) \in Values
    <3>1. half \in {c, LowerHalf(c), UpperHalf(c)}
      BY DEF OwningHalf
    <3>. HIDE DEF half, c
    <3>. QED
      BY <3>1, <1>3
  <2>3. /\ u.retention = s.retention
        /\ UpsertRefused(half, sample, policy) => /\ Stored(u.chunks) = Stored(s.chunks)
                                                  /\ u.first_timestamp = s.first_timestamp
                                                  /\ u.last_sample = s.last_sample
        /\ ~UpsertRefused(half, sample, policy) =>
              Stored(u.chunks) = Stored(s.chunks) \cup {sample.timestamp}
    BY Zenon, <1>1, <2>1, <2>2, UpsertWithSplitOK
  <2>4. /\ IF UpsertRefused(half, sample, policy)
             THEN Agrees(u.chunks, Content(s.chunks))
             ELSE Agrees(u.chunks, ChunkUpsert(Content(s.chunks), sample, policy))
        /\ (sample.timestamp \in DOMAIN half) <=> (sample.timestamp \in Stored(s.chunks))
        /\ \A t \in DOMAIN half : t \in DOMAIN c /\ half[t] = c[t]
    BY Zenon, <1>1, <2>1, <2>2, UpsertWithSplitAgrees
  <2>5. r = [series |-> u, result |-> IF UpsertRefused(half, sample, policy)
                                        THEN "duplicate" ELSE "ok"]
    BY <1>4 DEF UpsertSample
  <2>. HIDE DEF half, u, r
  <2>6. UpsertRefused(half, sample, policy) <=> no
    BY <1>1, <1>2, <2>4, RefusedByPart
  <2>7. CASE no
    <3>1. SameSamples(s, u)
      BY <2>3, <2>4, <2>6, <2>7 DEF SameSamples
    <3>2. r = [series |-> u, result |-> "duplicate"]
      BY <2>5, <2>6, <2>7
    <3>. QED
      BY <2>7, <3>1, <3>2 DEF r
  <2>8. CASE ~no
    <3>1. WithSample(s, u, sample, policy)
      BY <2>3, <2>4, <2>6, <2>8 DEF WithSample
    <3>2. r = [series |-> u, result |-> "ok"]
      BY <2>5, <2>6, <2>8
    <3>. QED
      BY <2>8, <3>1, <3>2 DEF r
  <2>. QED
    BY <2>7, <2>8
<1>5. CASE ~split
  <2>1. /\ Agrees(v.chunks, ChunkUpsert(Content(s.chunks), sample, policy))
        /\ (sample.timestamp \in DOMAIN c) <=> (sample.timestamp \in Stored(s.chunks))
    BY <1>1, UpsertInPlaceAgrees
  <2>2. UpsertRefused(c, sample, policy) <=> no
    <3>1. \A t \in DOMAIN c : t \in DOMAIN s.chunks[i] /\ c[t] = s.chunks[i][t]
      OBVIOUS
    <3>. HIDE DEF c
    <3>. QED
      BY <1>1, <1>2, <2>1, <3>1, RefusedByPart
  <2>3. CASE no
    <3>1. r = [series |-> s, result |-> "duplicate"]
      BY <1>5, <2>2, <2>3 DEF UpsertSample
    <3>2. SameSamples(s, s)
      BY <1>1, AgreesWithContent DEF SameSamples
    <3>. HIDE DEF r
    <3>. QED
      BY <2>3, <3>1, <3>2 DEF r
  <2>4. CASE ~no
    <3>1. r = [series |-> v, result |-> "ok"]
      BY <1>5, <2>2, <2>4 DEF UpsertSample
    <3>2. sample.timestamp \in DOMAIN c =>
             DuplicateValue(policy, c[sample.timestamp], sample.value) \in Values
      BY <1>3, <2>2, <2>4
    <3>3. /\ v.retention = s.retention
          /\ Stored(v.chunks) = Stored(s.chunks) \cup {sample.timestamp}
      BY Zenon, <1>1, <3>2, UpsertInPlaceOK
    <3>. HIDE DEF r, v
    <3>4. WithSample(s, v, sample, policy)
      BY <2>1, <3>3 DEF WithSample
    <3>. QED
      BY <2>4, <3>1, <3>4 DEF r
  <2>. QED
    BY <2>3, <2>4
<1>. QED
  BY Zenon, <1>3, <1>4, <1>5

\* add_deferring_retention answers as the content says, and writes the sample or no sample.
LEMMA AddWrites ==
    ASSUME NEW s, SeriesOK(s), NEW sample \in Samples, NEW policy,
           FoldIsBounded(s, sample, policy),
           NEW full \in FullOutcomes(s), NEW split \in SplitOutcomes(s, sample.timestamp)
    PROVE  LET r == AddDeferringRetention(s, sample, policy, full, split)
           IN  /\ r.result = Answer(s, sample, policy)
               /\ IF r.result = "ok" THEN WithSample(s, r.series, sample, policy)
                  ELSE SameSamples(s, r.series)
<1>. DEFINE r == AddDeferringRetention(s, sample, policy, full, split)
            u == AddSampleInternal(s, sample, full)
<1>1. WellFormed(s.chunks) /\ ((s.last_sample = None) <=> (s.chunks = <<>>))
  BY Zenon, SeriesOKFacts
<1>2. SameSamples(s, s)
  BY Zenon, <1>1, AgreesWithContent DEF SameSamples
<1>3. full \in BOOLEAN
  BY FullIsBoolean
<1>4. ASSUME ~IsOlderThanRetention(s, sample.timestamp),
             s.last_sample # None => /\ ~IsDuplicate(sample, s.last_sample, policy)
                                     /\ s.last_sample.timestamp < sample.timestamp,
             r = [series |-> u, result |-> "ok"]
      PROVE  r.result = Answer(s, sample, policy) /\ r.result = "ok"
             /\ WithSample(s, r.series, sample, policy)
  <2>. HIDE DEF r
  <2>1. /\ Agrees(u.chunks, ChunkUpsert(Content(s.chunks), sample, policy))
        /\ sample.timestamp \notin Stored(s.chunks)
    BY <1>3, <1>4, AddSampleInternalAgrees
  <2>2. /\ u.retention = s.retention
        /\ Stored(u.chunks) = Stored(s.chunks) \cup {sample.timestamp}
    BY <1>3, <1>4, AddSampleInternalOK
  <2>3. ~UpsertRefused(Content(s.chunks), sample, policy)
    BY <1>1, <2>1, AgreesWithContent DEF UpsertRefused
  <2>4. Answer(s, sample, policy) = "ok"
    BY <1>1, <1>4, <2>3 DEF Answer
  <2>. HIDE DEF u
  <2>5. WithSample(s, u, sample, policy)
    BY <2>1, <2>2 DEF WithSample
  <2>. QED
    BY Zenon, <1>4, <2>4, <2>5
<1>5. CASE IsOlderThanRetention(s, sample.timestamp)
  <2>1. r = [series |-> s, result |-> "too_old"] /\ Answer(s, sample, policy) = "too_old"
    BY <1>5 DEF AddDeferringRetention, Answer
  <2>. HIDE DEF r
  <2>. QED
    BY <1>2, <2>1 DEF r
<1>6. CASE ~IsOlderThanRetention(s, sample.timestamp) /\ s.last_sample = None
  <2>1. r = [series |-> u, result |-> "ok"]
    BY <1>6 DEF AddDeferringRetention
  <2>. QED
    BY Zenon, <1>4, <1>6, <2>1
<1>7. CASE /\ ~IsOlderThanRetention(s, sample.timestamp) /\ s.last_sample # None
           /\ IsDuplicate(sample, s.last_sample, policy)
  <2>1. r = [series |-> s, result |-> "ignored"] /\ Answer(s, sample, policy) = "ignored"
    BY <1>1, <1>7 DEF AddDeferringRetention, Answer
  <2>. HIDE DEF r
  <2>. QED
    BY <1>2, <2>1 DEF r
<1>8. CASE /\ ~IsOlderThanRetention(s, sample.timestamp) /\ s.last_sample # None
           /\ ~IsDuplicate(sample, s.last_sample, policy)
           /\ sample.timestamp <= s.last_sample.timestamp
  <2>1. r = UpsertSample(s, sample, policy, split)
    BY <1>8 DEF AddDeferringRetention
  <2>. HIDE DEF r
  <2>2. IF UpsertRefused(Content(s.chunks), sample, policy)
          THEN r.result = "duplicate" /\ SameSamples(s, r.series)
          ELSE r.result = "ok" /\ WithSample(s, r.series, sample, policy)
    BY <1>8, <2>1, UpsertSampleWrites
  <2>3. Answer(s, sample, policy) = IF UpsertRefused(Content(s.chunks), sample, policy)
                                      THEN "duplicate" ELSE "ok"
    BY <1>1, <1>8 DEF Answer
  <2>. QED
    BY <2>2, <2>3 DEF r
<1>9. CASE /\ ~IsOlderThanRetention(s, sample.timestamp) /\ s.last_sample # None
           /\ ~IsDuplicate(sample, s.last_sample, policy)
           /\ ~(sample.timestamp <= s.last_sample.timestamp)
  <2>1. r = [series |-> u, result |-> "ok"]
    BY <1>9 DEF AddDeferringRetention
  <2>2. sample.timestamp \in Nat /\ s.last_sample.timestamp \in Nat
    BY <1>1, <1>9, SeriesOKFacts, ConstantsAssumption DEF Samples, Timestamps
  <2>3. s.last_sample.timestamp < sample.timestamp
    BY <1>9, <2>2
  <2>. HIDE DEF r, u
  <2>. QED
    BY Zenon, <1>4, <1>9, <2>1, <2>3 DEF r
<1>. QED
  BY Zenon, <1>5, <1>6, <1>7, <1>8, <1>9

-----------------------------------------------------------------------------
(* The map a state stands for *)

LiveMap(s)  == MapOf(s.chunks, Live(s))
GhostMap(s) == MapOf(s.chunks, Stored(s.chunks) \ Live(s))

LEMMA MapFacts ==
    ASSUME NEW s, SeriesOK(s)
    PROVE  /\ DOMAIN LiveMap(s) = Live(s) /\ Live(s) \subseteq Stored(s.chunks)
           /\ DOMAIN GhostMap(s) = Stored(s.chunks) \ Live(s)
           /\ \A t \in Live(s) : LiveMap(s)[t] = Content(s.chunks)[t]
           /\ \A t \in Stored(s.chunks) \ Live(s) : GhostMap(s)[t] = Content(s.chunks)[t]
<1>1. WellFormed(s.chunks)
  BY SeriesOKFacts
<1>2. /\ DOMAIN LiveMap(s) = Live(s) /\ Live(s) \subseteq Stored(s.chunks)
      /\ DOMAIN GhostMap(s) = Stored(s.chunks) \ Live(s)
  BY DEF LiveMap, GhostMap, MapOf, Live
<1>3. \A t \in Stored(s.chunks) : \E i \in DOMAIN s.chunks : t \in DOMAIN s.chunks[i]
  BY DEF Stored
<1>4. ASSUME NEW t \in Live(s) PROVE LiveMap(s)[t] = Content(s.chunks)[t]
  <2>1. PICK i \in DOMAIN s.chunks : t \in DOMAIN s.chunks[i]
    BY <1>2, <1>3
  <2>2. LiveMap(s)[t] = s.chunks[i][t]
    BY <1>1, <2>1, ValueAt DEF LiveMap
  <2>3. Content(s.chunks)[t] = s.chunks[i][t]
    BY <1>1, <2>1, AgreesWithContent DEF Agrees
  <2>. QED
    BY <2>2, <2>3
<1>5. ASSUME NEW t \in Stored(s.chunks) \ Live(s) PROVE GhostMap(s)[t] = Content(s.chunks)[t]
  <2>1. PICK i \in DOMAIN s.chunks : t \in DOMAIN s.chunks[i]
    BY <1>3
  <2>2. GhostMap(s)[t] = s.chunks[i][t]
    BY <1>1, <2>1, ValueAt DEF GhostMap
  <2>3. Content(s.chunks)[t] = s.chunks[i][t]
    BY <1>1, <2>1, AgreesWithContent DEF Agrees
  <2>. QED
    BY <2>2, <2>3
<1>. QED
  BY <1>2, <1>4, <1>5

\* Recutting the chunks changes no sample of the map.
LEMMA SameMaps ==
    ASSUME NEW s, SeriesOK(s), NEW u, SeriesOK(u), SameSamples(s, u)
    PROVE  LiveMap(u) = LiveMap(s) /\ GhostMap(u) = GhostMap(s)
<1>1. WellFormed(s.chunks) /\ WellFormed(u.chunks)
  BY SeriesOKFacts
<1>2. GetMinTimestamp(u) = GetMinTimestamp(s)
  BY DEF GetMinTimestamp, SameSamples
<1>3. Live(u) = Live(s) /\ Stored(u.chunks) = Stored(s.chunks)
  BY <1>2 DEF Live, SameSamples
<1>4. Live(s) \in SUBSET Stored(s.chunks) /\ Stored(s.chunks) \ Live(s) \in SUBSET Stored(s.chunks)
  BY DEF Live
<1>5. Agrees(u.chunks, Content(s.chunks)) /\ Agrees(s.chunks, Content(s.chunks))
  BY <1>1, AgreesWithContent DEF SameSamples
<1>6. LiveMap(u) = [t \in Live(s) |-> Content(s.chunks)[t]]
  BY <1>1, <1>3, <1>4, <1>5, MapOfAgreeing DEF LiveMap
<1>7. LiveMap(s) = [t \in Live(s) |-> Content(s.chunks)[t]]
  BY <1>1, <1>4, <1>5, MapOfAgreeing DEF LiveMap
<1>8. GhostMap(u) = [t \in Stored(s.chunks) \ Live(s) |-> Content(s.chunks)[t]]
  BY <1>1, <1>3, <1>4, <1>5, MapOfAgreeing DEF GhostMap
<1>9. GhostMap(s) = [t \in Stored(s.chunks) \ Live(s) |-> Content(s.chunks)[t]]
  BY <1>1, <1>4, <1>5, MapOfAgreeing DEF GhostMap
<1>. QED
  BY <1>6, <1>7, <1>8, <1>9

-----------------------------------------------------------------------------
(* Deletes *)

\* The chunks a delete leaves hold everything outside its range, with their values.
LEMMA CutContents ==
    ASSUME NEW cs, WellFormed(cs), NEW from \in Timestamps, NEW end \in Timestamps,
           GetChunkIndexBounds(cs, from, end) # None, NEW m, Agrees(cs, m)
    PROVE  LET b   == GetChunkIndexBounds(cs, from, end)
               cut == [i \in DOMAIN cs |-> IF b[1] <= i /\ i <= b[2]
                                             THEN ChunkRemoveRange(cs[i], from, end) ELSE cs[i]]
           IN  /\ Stored(RetainNonEmpty(cut)) = {t \in Stored(cs) : ~(from <= t /\ t <= end)}
               /\ Agrees(RetainNonEmpty(cut), m)
<1>. DEFINE b   == GetChunkIndexBounds(cs, from, end)
            cut == [i \in DOMAIN cs |-> IF b[1] <= i /\ i <= b[2]
                                          THEN ChunkRemoveRange(cs[i], from, end) ELSE cs[i]]
            ds  == RetainNonEmpty(cut)
<1>1. \A i \in DOMAIN cs : \A t \in DOMAIN cs[i] : from <= t /\ t <= end => b[1] <= i /\ i <= b[2]
  BY BoundsFacts
<1>. HIDE DEF b
<1>2. DOMAIN cs = 1 .. Len(cs) /\ Len(cs) \in Nat /\ \A i \in DOMAIN cs : cs[i] \in Chunks
  BY WellFormedFacts
<1>3. \A i \in DOMAIN cs : \A t \in DOMAIN cs[i] : t \in Nat
  BY <1>2, ChunkFacts, ConstantsAssumption DEF Timestamps
<1>4. ASSUME NEW i \in DOMAIN cs
      PROVE  /\ DOMAIN cut[i] = {t \in DOMAIN cs[i] : ~(from <= t /\ t <= end)}
             /\ \A t \in DOMAIN cut[i] : cut[i][t] = cs[i][t]
             /\ cut[i] \in {ChunkRemoveRange(cs[i], from, end), cs[i]}
  <2>0. from \in Nat /\ end \in Nat
    BY ConstantsAssumption DEF Timestamps
  <2>1. CASE b[1] <= i /\ i <= b[2]
    <3>1. cut[i] = ChunkRemoveRange(cs[i], from, end)
      BY <2>1
    <3>2. \A t \in DOMAIN cs[i] : (t < from \/ t > end) <=> ~(from <= t /\ t <= end)
      BY <1>3, <2>0
    <3>. HIDE DEF cut
    <3>3. DOMAIN cut[i] = {t \in DOMAIN cs[i] : t < from \/ t > end}
          /\ \A t \in DOMAIN cut[i] : cut[i][t] = cs[i][t]
      BY <3>1 DEF ChunkRemoveRange
    <3>. QED
      BY <3>1, <3>2, <3>3
  <2>2. CASE ~(b[1] <= i /\ i <= b[2])
    <3>1. cut[i] = cs[i]
      BY <2>2
    <3>2. \A t \in DOMAIN cs[i] : ~(from <= t /\ t <= end)
      BY <2>2, <1>1
    <3>. HIDE DEF cut
    <3>. QED
      BY <3>1, <3>2
  <2>. QED
    BY Zenon, <2>1, <2>2
<1>5. DOMAIN cut = DOMAIN cs /\ cut = [i \in 1 .. Len(cs) |-> cut[i]]
  BY <1>2
<1>. HIDE DEF cut
<1>6. cut \in Seq(Pieces) /\ Ordered(cut)
  <2>1. \A i \in DOMAIN cs : cut[i] \in Pieces /\ DOMAIN cut[i] \subseteq DOMAIN cs[i]
    BY <1>2, <1>4, ChunkRemoveRangeFacts
  <2>2. cut \in Seq(Pieces)
    BY <1>2, <1>5, <2>1
  <2>. QED
    BY Zenon, <1>5, <2>1, <2>2, CutFacts
<1>7. Stored(ds) = Stored(cut) /\ \A r \in DOMAIN ds : \E i \in DOMAIN cut : ds[r] = cut[i]
  BY <1>6, RetainNonEmptyFacts
<1>. HIDE DEF ds
<1>8. Stored(cut) = {t \in Stored(cs) : ~(from <= t /\ t <= end)}
  <2>1. \A t : (t \in Stored(cut)) <=> (\E i \in DOMAIN cs : t \in DOMAIN cut[i])
    BY <1>5 DEF Stored
  <2>2. \A t : (t \in Stored(cs)) <=> (\E i \in DOMAIN cs : t \in DOMAIN cs[i])
    BY DEF Stored
  <2>3. \A i \in DOMAIN cs : DOMAIN cut[i] = {t \in DOMAIN cs[i] : ~(from <= t /\ t <= end)}
    BY <1>4
  <2>4. \A t : (t \in Stored(cut)) <=> (t \in Stored(cs) /\ ~(from <= t /\ t <= end))
    BY <2>1, <2>2, <2>3
  <2>. QED
    BY <2>4, Zenon
<1>9. Agrees(ds, m)
  <2>. SUFFICES ASSUME NEW r \in DOMAIN ds, NEW t \in DOMAIN ds[r]
                PROVE  t \in DOMAIN m /\ ds[r][t] = m[t]
    BY DEF Agrees
  <2>1. PICK i \in DOMAIN cs : ds[r] = cut[i]
    BY <1>5, <1>7
  <2>2. t \in DOMAIN cs[i] /\ ds[r][t] = cs[i][t]
    BY <2>1, <1>4
  <2>. QED
    BY <2>2 DEF Agrees
<1>. QED
  BY <1>7, <1>8, <1>9 DEF ds, cut, b
=============================================================================
