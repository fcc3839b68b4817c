-------------------------- MODULE SeriesRefinement --------------------------
(***************************************************************************)
(* The chunked series implements the plain map of SeriesAbs, for every     *)
(* value of the constants: each write, delete, trim, retention change and  *)
(* reload of Series is a step of the map, or leaves it alone.  From the    *)
(* same lemmas: the uncompressed encoding never keeps an expired sample.   *)
(***************************************************************************)
EXTENDS SeriesProofs, SeriesContents

-----------------------------------------------------------------------------
(* The refinement mapping: the map holds the samples inside the retention window, its ghosts *)
(* are the expired samples no trim has dropped yet. *)

Abs == INSTANCE SeriesAbs WITH
    live      <- MapOf(series.chunks, Live(series)),
    ghosts    <- MapOf(series.chunks, Stored(series.chunks) \ Live(series)),
    retention <- series.retention

\* Chunking is invisible: every command answers and changes the live samples exactly as on a
\* plain map with a retention window, through splits, lazy trims and gaps between chunks.
ImplementsMap == Abs!Spec

-----------------------------------------------------------------------------
(* The window *)

\* The operators of SeriesAbs are those of SeriesOps.
LEMMA SameOperators ==
    /\ \A S : Abs!MaxOf(S) = MaxOf(S)
    /\ \A c, x, p : Abs!ChunkUpsert(c, x, p) = ChunkUpsert(c, x, p)
    /\ \A c, x, p : Abs!UpsertRefused(c, x, p) <=> UpsertRefused(c, x, p)
    /\ \A x, y, p : Abs!IsDuplicate(x, y, p) <=> IsDuplicate(x, y, p)
<1>1. \A S : Abs!MaxOf(S) = MaxOf(S)
  BY DEF Abs!MaxOf, MaxOf
<1>2. \A c, x, p : Abs!ChunkUpsert(c, x, p) = ChunkUpsert(c, x, p)
  BY DEF Abs!ChunkUpsert, ChunkUpsert, Abs!DuplicateValue, DuplicateValue, Abs!MinOf, MinOf,
         Abs!MaxOf, MaxOf
<1>3. \A c, x, p : Abs!UpsertRefused(c, x, p) <=> UpsertRefused(c, x, p)
  BY DEF Abs!UpsertRefused, UpsertRefused, Abs!DuplicateValue, DuplicateValue, Abs!MinOf, MinOf,
         Abs!MaxOf, MaxOf
<1>4. \A x, y, p : Abs!IsDuplicate(x, y, p) <=> IsDuplicate(x, y, p)
  BY DEF Abs!IsDuplicate, IsDuplicate
<1>. QED
  BY <1>1, <1>2, <1>3, <1>4

\* The window of the map starts at the floor of the series, over the stored and over the live
\* samples alike; the live samples are those inside it.
LEMMA WindowOf ==
    ASSUME NEW s, SeriesOK(s)
    PROVE  /\ s.retention # 0 => GetMinTimestamp(s) = Abs!Floor(Stored(s.chunks), s.retention)
           /\ s.retention = 0 => Abs!Floor(Stored(s.chunks), s.retention) = 0
           /\ Abs!Floor(Live(s), s.retention) = Abs!Floor(Stored(s.chunks), s.retention)
           /\ s.retention = 0 => Live(s) = Stored(s.chunks)
           /\ Live(s) = {} <=> s.chunks = <<>>
<1>1. s.retention = 0 => Live(s) = Stored(s.chunks)
  BY NothingExpired DEF Live
<1>2. WellFormed(s.chunks) /\ s.retention \in Nat
  BY SeriesOKFacts
<1>3. CASE s.chunks = <<>>
  <2>1. Stored(s.chunks) = {} /\ Live(s) = {} /\ s.last_sample = None
    BY <1>2, <1>3, OrderedEnds, SeriesOKFacts DEF Live
  <2>. QED
    BY <2>1, <1>1, <1>3 DEF GetMinTimestamp, Abs!Floor
<1>4. CASE s.chunks # <<>>
  <2>1. /\ Live(s) # {} /\ Stored(s.chunks) # {} /\ s.last_sample # None
        /\ Abs!MaxOf(Stored(s.chunks)) = s.last_sample.timestamp
        /\ Abs!MaxOf(Live(s)) = s.last_sample.timestamp
    BY <1>2, <1>4, NewestStored, OrderedEnds, SeriesOKFacts, SameOperators
  <2>. QED
    BY <2>1, <1>1, <1>4 DEF GetMinTimestamp, Abs!Floor
<1>. QED
  BY <1>3, <1>4

\* A series that kept the live samples of a, and of the others the newest, is what the map
\* settles to.
LEMMA Settled ==
    ASSUME NEW a, SeriesOK(a), NEW u, SeriesOK(u), u.retention = a.retention,
           Stored(u.chunks) \subseteq Stored(a.chunks),
           \A t \in Stored(a.chunks) : t >= GetMinTimestamp(a) => t \in Stored(u.chunks),
           \A t \in Stored(a.chunks) \ Stored(u.chunks), v \in Stored(u.chunks) : t < v,
           NEW m, DOMAIN m = Stored(a.chunks), Agrees(u.chunks, m)
    PROVE  LET floor == Abs!Floor(DOMAIN m, a.retention)
           IN  /\ MapOf(u.chunks, Live(u)) = Abs!Only(m, {t \in DOMAIN m : t >= floor})
               /\ \E cut \in Timestamps :
                     MapOf(u.chunks, Stored(u.chunks) \ Live(u))
                         = Abs!Only(m, {t \in DOMAIN m : cut <= t /\ t < floor})
<1>. DEFINE floor == Abs!Floor(DOMAIN m, a.retention)
            U     == Stored(u.chunks)
            A     == Stored(a.chunks)
<1>0. WellFormed(u.chunks) /\ U \subseteq Nat /\ A \subseteq Nat /\ A \subseteq Timestamps
  BY SeriesOKFacts, CountStored, ConstantsAssumption DEF Timestamps
<1>1. SUFFICES /\ Live(u) = {t \in A : t >= floor}
               /\ \E cut \in Timestamps : U \ Live(u) = {t \in A : cut <= t /\ t < floor}
  <2>1. MapOf(u.chunks, Live(u)) = [t \in Live(u) |-> m[t]]
    BY <1>0, MapOfAgreeing DEF Live
  <2>2. MapOf(u.chunks, U \ Live(u)) = [t \in U \ Live(u) |-> m[t]]
    BY <1>0, MapOfAgreeing
  <2>3. MapOf(u.chunks, Live(u)) = Abs!Only(m, {t \in DOMAIN m : t >= floor})
    BY <2>1, <1>1 DEF Abs!Only
  <2>4. PICK cut \in Timestamps : U \ Live(u) = {t \in DOMAIN m : cut <= t /\ t < floor}
    BY <1>1
  <2>5. MapOf(u.chunks, U \ Live(u)) = Abs!Only(m, {t \in DOMAIN m : cut <= t /\ t < floor})
    BY <2>2, <2>4 DEF Abs!Only
  <2>. QED
    BY Zenon, <2>3, <2>5
<1>2. CASE a.retention = 0
  <2>1. floor = 0 /\ Live(u) = U
    BY <1>2, WindowOf
  <2>2. U = A
    BY <1>2, NothingExpired
  <2>3. 0 \in Timestamps
    BY ConstantsAssumption DEF Timestamps
  <2>. HIDE DEF floor, U, A
  <2>4. {t \in A : 0 <= t /\ t < 0} = {} /\ {t \in A : t >= 0} = A
    BY <1>0, WindowSets
  <2>. QED
    BY <2>1, <2>2, <2>3, <2>4
<1>3. CASE a.retention # 0
  <2>1. floor = GetMinTimestamp(a) /\ GetMinTimestamp(a) \in Timestamps /\ GetMinTimestamp(a) \in Nat
    BY <1>3, WindowOf, FloorType, ConstantsAssumption DEF Timestamps
  <2>2. GetMinTimestamp(u) = GetMinTimestamp(a)
    <3>1. GetMinTimestamp(a) <= GetMinTimestamp(u)
      BY <1>3, FloorMonotone
    <3>2. GetMinTimestamp(u) <= GetMinTimestamp(a)
      BY <1>3, FloorAntitone
    <3>3. GetMinTimestamp(u) \in Nat
      BY FloorType, ConstantsAssumption DEF Timestamps
    <3>. QED
      BY <3>1, <3>2, <3>3, <2>1
  <2>3. Live(u) = {t \in U : t >= floor}
    BY <2>1, <2>2 DEF Live
  <2>4. \A t \in A : t >= floor => t \in U
    BY <2>1
  <2>5. floor \in Nat /\ floor \in Timestamps
    BY <2>1
  <2>. HIDE DEF floor, U, A
  <2>6. Live(u) = {t \in A : t >= floor}
    BY <2>3, <2>4 DEF U, A
  <2>7. CASE U = {}
    <3>1. {t \in A : floor <= t /\ t < floor} = {}
      BY <2>5, <1>0, WindowSets
    <3>. QED
      BY <3>1, <2>5, <2>6, <2>7
  <2>8. CASE U # {}
    <3>. DEFINE cut == MinOf(U)
    <3>1. cut \in U /\ \A t \in U : cut <= t
      BY <2>8, <1>0, MinOfNaturals
    <3>. HIDE DEF cut
    <3>2. cut \in Timestamps /\ cut \in Nat
      BY <3>1, <1>0 DEF U, A
    <3>3. \A t \in A : cut <= t => t \in U
      <4>. SUFFICES ASSUME NEW t \in A, cut <= t, t \notin U PROVE FALSE
        OBVIOUS
      <4>1. t < cut
        BY <3>1 DEF U, A
      <4>. QED
        BY <4>1, <3>2, <1>0
    <3>4. U \ Live(u) = {t \in A : cut <= t /\ t < floor}
      <4>1. U \in SUBSET A /\ A \in SUBSET Nat
        BY <1>0 DEF U, A
      <4>2. \A t \in A : t \in U <=> cut <= t
        BY <3>1, <3>3
      <4>3. U \ {t \in U : t >= floor} = {t \in A : cut <= t /\ t < floor}
        <5>1. \A x \in Nat : (\A t \in A : t \in U <=> x <= t) =>
                  U \ {t \in U : t >= floor} = {t \in A : x <= t /\ t < floor}
          BY <4>1, <2>5, WindowSets
        <5>. QED
          BY <5>1, <4>2, <3>2
      <4>. QED
        BY <4>3, <2>3
    <3>. QED
      BY <3>2, <3>4, <2>6
  <2>. QED
    BY <2>7, <2>8
<1>. QED
  BY <1>2, <1>3

\* Applying retention to a series settles the map of what it holds.
LEMMA ApplyRetentionSettles ==
    ASSUME NEW a, SeriesOK(a), NEW m, DOMAIN m = Stored(a.chunks), Agrees(a.chunks, m)
    PROVE  LET floor == Abs!Floor(DOMAIN m, a.retention)
               u     == ApplyRetention(a)
           IN  /\ MapOf(u.chunks, Live(u)) = Abs!Only(m, {t \in DOMAIN m : t >= floor})
               /\ \E cut \in Timestamps :
                     MapOf(u.chunks, Stored(u.chunks) \ Live(u))
                         = Abs!Only(m, {t \in DOMAIN m : cut <= t /\ t < floor})
<1>. DEFINE u == ApplyRetention(a)
<1>1. /\ SeriesOK(u) /\ u.retention = a.retention
      /\ Stored(u.chunks) \subseteq Stored(a.chunks)
      /\ \A t \in Stored(a.chunks) : t >= GetMinTimestamp(a) => t \in Stored(u.chunks)
  BY ApplyRetentionOK
<1>2. /\ Agrees(u.chunks, m)
      /\ \A t \in Stored(a.chunks) \ Stored(u.chunks), v \in Stored(u.chunks) : t < v
  <2>1. CASE a.retention = 0
    BY <2>1 DEF ApplyRetention
  <2>2. CASE a.retention # 0
    <3>1. u = TrimExpired(a, FALSE)
      BY <2>2 DEF ApplyRetention
    <3>. QED
      BY Zenon, <3>1, TrimExpiredAgrees
  <2>. QED
    BY <2>1, <2>2
<1>. HIDE DEF u
<1>3. LET floor == Abs!Floor(DOMAIN m, a.retention)
      IN  /\ MapOf(u.chunks, Live(u)) = Abs!Only(m, {t \in DOMAIN m : t >= floor})
          /\ \E cut \in Timestamps :
                MapOf(u.chunks, Stored(u.chunks) \ Live(u))
                    = Abs!Only(m, {t \in DOMAIN m : cut <= t /\ t < floor})
  BY <1>1, <1>2, Settled
<1>. QED
  BY Zenon, <1>3 DEF u

-----------------------------------------------------------------------------
(* The map a state stands for *)

\* Live and ghost samples together are everything the chunks hold.
LEMMA BothIsContent ==
    ASSUME SeriesOK(series)
    PROVE  Abs!Both = Content(series.chunks)
<1>. DEFINE L == LiveMap(series)
            G == GhostMap(series)
            C == Content(series.chunks)
            S == Stored(series.chunks)
<1>1. Abs!Both = [t \in DOMAIN L \cup DOMAIN G |-> IF t \in DOMAIN L THEN L[t] ELSE G[t]]
  BY DEF Abs!Both, LiveMap, GhostMap
<1>2. /\ DOMAIN L \cup DOMAIN G = S
      /\ \A t \in S : (IF t \in DOMAIN L THEN L[t] ELSE G[t]) = C[t]
  BY Zenon, MapFacts
<1>3. C = [t \in S |-> C[t]]
  BY DEF Content, MapOf
<1>. HIDE DEF L, G, C, S
<1>4. [t \in DOMAIN L \cup DOMAIN G |-> IF t \in DOMAIN L THEN L[t] ELSE G[t]] = [t \in S |-> C[t]]
  BY <1>2
<1>. QED
  BY <1>1, <1>3, <1>4 DEF C

\* The newest live sample is the one the metadata names.
LEMMA NewestIsLast ==
    ASSUME SeriesOK(series), series.chunks # <<>>
    PROVE  Abs!NewestSample = series.last_sample
<1>. DEFINE cs   == series.chunks
            n    == Len(cs)
            last == series.last_sample
            L    == LiveMap(series)
<1>1. /\ WellFormed(cs) /\ n \in DOMAIN cs
      /\ last = [timestamp |-> LastTimestamp(cs[n]), value |-> cs[n][LastTimestamp(cs[n])]]
      /\ LastTimestamp(cs[n]) \in DOMAIN cs[n]
  <2>1. WellFormed(cs)
    BY SeriesOKFacts
  <2>2. n \in DOMAIN cs /\ cs[n] \in Chunks
    <3>1. /\ DOMAIN cs = 1 .. n /\ n \in Nat /\ n > 0
          /\ \A i \in DOMAIN cs : cs[i] \in Chunks
      BY <2>1, WellFormedFacts
    <3>. HIDE DEF n, cs
    <3>. QED
      BY <3>1
  <2>3. LastTimestamp(cs[n]) \in DOMAIN cs[n]
    BY <2>2, ChunkEnds
  <2>. QED
    BY <2>1, <2>2, <2>3 DEF SeriesOK, Described, LastSample
<1>2. MaxOf(Live(series)) = last.timestamp /\ last.timestamp \in Live(series)
  BY NewestStored
<1>3. DOMAIN L = Live(series)
  BY Zenon, MapFacts
<1>4. last.timestamp = LastTimestamp(cs[n]) /\ last.value = cs[n][LastTimestamp(cs[n])]
  BY <1>1
<1>5. L[last.timestamp] = last.value
  <2>1. last.timestamp \in DOMAIN cs[n]
    BY <1>1, <1>4
  <2>2. L[last.timestamp] = cs[n][last.timestamp]
    BY <1>1, <1>2, <2>1, ValueAt DEF LiveMap
  <2>. QED
    BY <2>2, <1>4
<1>6. Abs!NewestSample = [timestamp |-> MaxOf(DOMAIN L), value |-> L[MaxOf(DOMAIN L)]]
  BY SameOperators DEF Abs!NewestSample, LiveMap
<1>7. Abs!NewestSample = [timestamp |-> last.timestamp, value |-> last.value]
  BY <1>2, <1>3, <1>5, <1>6
<1>. QED
  BY <1>1, <1>4, <1>7

\* A timestamp inside the window is live as soon as it is stored.
LEMMA LiveInWindow ==
    ASSUME NEW s, SeriesOK(s), NEW ts \in Timestamps, ~IsOlderThanRetention(s, ts)
    PROVE  (ts \in Live(s)) <=> (ts \in Stored(s.chunks))
<1>1. GetMinTimestamp(s) \in Nat /\ ts \in Nat
  BY FloorType, ConstantsAssumption DEF Timestamps
<1>2. CASE s.retention = 0
  BY <1>2, WindowOf
<1>3. CASE s.retention # 0
  BY <1>1, <1>3 DEF IsOlderThanRetention, Live
<1>. QED
  BY <1>2, <1>3

\* The map answers a write as the series does.
LEMMA OutcomeIsAnswer ==
    ASSUME SeriesOK(series), NEW sample \in Samples, NEW policy
    PROVE  Abs!Outcome(sample, policy) = Answer(series, sample, policy)
<1>. DEFINE L   == LiveMap(series)
            C   == Content(series.chunks)
            ts  == sample.timestamp
            old == IsOlderThanRetention(series, ts)
            dup == series.chunks # <<>> /\ IsDuplicate(sample, series.last_sample, policy)
<1>1. ts \in Timestamps /\ ts \in Nat
  BY ConstantsAssumption DEF Samples, Timestamps
<1>2. DOMAIN L = Live(series) /\ \A t \in Live(series) : L[t] = C[t]
  BY Zenon, MapFacts
<1>3. DOMAIN C = Stored(series.chunks)
  BY SeriesOKFacts, AgreesWithContent
<1>4. (ts < Abs!Floor(DOMAIN L, series.retention)) <=> old
  <2>1. CASE series.retention = 0
    <3>1. Abs!Floor(DOMAIN L, series.retention) = 0
      BY <1>2, <2>1, WindowOf
    <3>. QED
      BY <3>1, <2>1, <1>1 DEF IsOlderThanRetention
  <2>2. CASE series.retention # 0
    <3>1. Abs!Floor(DOMAIN L, series.retention) = GetMinTimestamp(series)
      BY <1>2, <2>2, WindowOf
    <3>. QED
      BY <3>1, <2>2 DEF IsOlderThanRetention
  <2>. QED
    BY <2>1, <2>2
<1>5. (DOMAIN L # {} /\ Abs!IsDuplicate(sample, Abs!NewestSample, policy)) <=> dup
  <2>1. (DOMAIN L # {}) <=> (series.chunks # <<>>)
    BY <1>2, WindowOf
  <2>2. Abs!IsDuplicate(sample, Abs!NewestSample, policy)
            <=> IsDuplicate(sample, Abs!NewestSample, policy)
    BY SameOperators
  <2>3. series.chunks # <<>> => Abs!NewestSample = series.last_sample
    BY NewestIsLast
  <2>. QED
    BY <2>1, <2>2, <2>3
<1>6. ~old => (Abs!UpsertRefused(L, sample, policy) <=> UpsertRefused(C, sample, policy))
  <2>. SUFFICES ASSUME ~old
                PROVE  UpsertRefused(L, sample, policy) <=> UpsertRefused(C, sample, policy)
    BY SameOperators
  <2>1. (ts \in DOMAIN L) <=> (ts \in DOMAIN C)
    BY <1>1, <1>2, <1>3, LiveInWindow
  <2>2. ts \in DOMAIN L => L[ts] = C[ts]
    BY <1>2
  <2>. HIDE DEF L, C
  <2>. QED
    BY <2>1, <2>2 DEF UpsertRefused
<1>7. Abs!Outcome(sample, policy) =
          IF ts < Abs!Floor(DOMAIN L, series.retention) THEN "too_old"
          ELSE IF DOMAIN L # {} /\ Abs!IsDuplicate(sample, Abs!NewestSample, policy) THEN "ignored"
          ELSE IF Abs!UpsertRefused(L, sample, policy) THEN "duplicate"
          ELSE "ok"
  BY DEF Abs!Outcome, LiveMap
<1>8. Answer(series, sample, policy) =
          IF old THEN "too_old" ELSE IF dup THEN "ignored"
          ELSE IF UpsertRefused(C, sample, policy) THEN "duplicate" ELSE "ok"
  BY DEF Answer
<1>. HIDE DEF L, C, old, dup
<1>. QED
  BY <1>4, <1>5, <1>6, <1>7, <1>8

-----------------------------------------------------------------------------
(* Each step of the series is a step of the map *)

\* What TS.ADD does: the answer of the content, and the sample written and the window applied, or
\* no sample changed.
LEMMA AddEffect ==
    ASSUME IInv, NEW sample \in Samples, NEW policy, Add(sample, policy)
    PROVE  /\ reply' = Answer(series, sample, policy)
           /\ \E a : /\ SeriesOK(a) /\ a.retention = series.retention
                     /\ IF reply' = "ok"
                          THEN WithSample(series, a, sample, policy) /\ series' = ApplyRetention(a)
                          ELSE SameSamples(series, a) /\ series' = a
<1>1. SeriesOK(series) /\ FoldIsBounded(series, sample, policy)
  BY DEF IInv, Add
<1>2. PICK full \in FullOutcomes(series), split \in SplitOutcomes(series, sample.timestamp) :
         /\ series' = AddSample(series, sample, policy, full, split).series
         /\ reply' = AddSample(series, sample, policy, full, split).result
  BY DEF Add
<1>. DEFINE r == AddDeferringRetention(series, sample, policy, full, split)
            a == r.series
<1>3. /\ SeriesOK(a) /\ a.retention = series.retention
      /\ r = [series |-> r.series, result |-> r.result]
  BY <1>1, AddDeferringRetentionOK
<1>4. /\ r.result = Answer(series, sample, policy)
      /\ IF r.result = "ok" THEN WithSample(series, a, sample, policy)
         ELSE SameSamples(series, a)
  BY <1>1, AddWrites
<1>5. /\ series' = IF r.result = "ok" THEN ApplyRetention(a) ELSE a
      /\ reply' = r.result
  <2>1. AddSample(series, sample, policy, full, split) =
            IF r.result = "ok" THEN [r EXCEPT !.series = ApplyRetention(@)] ELSE r
    BY DEF AddSample
  <2>. HIDE DEF r
  <2>. QED
    BY <1>2, <1>3, <2>1
<1>. HIDE DEF r
<1>. QED
  BY <1>3, <1>4, <1>5

LEMMA AddIsMapAdd ==
    ASSUME IInv, NEW sample \in Samples, NEW policy, Add(sample, policy)
    PROVE  Abs!Add(sample, policy)
<1>. DEFINE cs == series.chunks
            m  == ChunkUpsert(Content(cs), sample, policy)
<1>1. SeriesOK(series)
  BY DEF IInv
<1>2. PICK a : /\ SeriesOK(a) /\ a.retention = series.retention
               /\ IF reply' = "ok"
                    THEN WithSample(series, a, sample, policy) /\ series' = ApplyRetention(a)
                    ELSE SameSamples(series, a) /\ series' = a
  BY AddEffect
<1>3. reply' = Abs!Outcome(sample, policy)
  BY <1>1, AddEffect, OutcomeIsAnswer
<1>4. series'.retention = series.retention
  <2>1. ApplyRetention(a).retention = a.retention
    BY <1>2, ApplyRetentionOK
  <2>. QED
    BY <1>2, <2>1
<1>5. CASE reply' = "ok"
  <2>1. DOMAIN m = Stored(a.chunks) /\ Agrees(a.chunks, m)
    <3>1. Upserts(m, cs, sample, policy)
      BY <1>1, SeriesOKFacts, UpsertedContent
    <3>2. DOMAIN m = Stored(cs) \cup {sample.timestamp}
      BY <3>1, Zenon DEF Upserts
    <3>. QED
      BY <3>2, <1>2, <1>5 DEF WithSample
  <2>2. Abs!ChunkUpsert(Abs!Both, sample, policy) = m
    BY <1>1, BothIsContent, SameOperators
  <2>. HIDE DEF m
  <2>3. series' = ApplyRetention(a)
    BY <1>2, <1>5
  <2>4. LET floor == Abs!Floor(DOMAIN m, a.retention)
            u     == ApplyRetention(a)
        IN  /\ MapOf(u.chunks, Live(u)) = Abs!Only(m, {t \in DOMAIN m : t >= floor})
            /\ \E cut \in Timestamps :
                  MapOf(u.chunks, Stored(u.chunks) \ Live(u))
                      = Abs!Only(m, {t \in DOMAIN m : cut <= t /\ t < floor})
    BY <1>2, <2>1, ApplyRetentionSettles
  <2>5. LET floor == Abs!Floor(DOMAIN m, series.retention)
        IN  /\ MapOf(series'.chunks, Live(series')) = Abs!Only(m, {t \in DOMAIN m : t >= floor})
            /\ \E cut \in Timestamps :
                  MapOf(series'.chunks, Stored(series'.chunks) \ Live(series'))
                      = Abs!Only(m, {t \in DOMAIN m : cut <= t /\ t < floor})
    BY Zenon, <2>3, <2>4, <1>2
  <2>6. Abs!Settle(m, series.retention)
    BY Zenon, <2>5 DEF Abs!Settle, Abs!Timestamps, Timestamps
  <2>. QED
    BY <1>3, <1>4, <1>5, <2>2, <2>6 DEF Abs!Add
<1>6. CASE reply' # "ok"
  <2>1. LiveMap(series') = LiveMap(series) /\ GhostMap(series') = GhostMap(series)
    BY <1>1, <1>2, <1>6, SameMaps
  <2>2. /\ MapOf(series'.chunks, Live(series')) = MapOf(series.chunks, Live(series))
        /\ MapOf(series'.chunks, Stored(series'.chunks) \ Live(series'))
               = MapOf(series.chunks, Stored(series.chunks) \ Live(series))
    BY <2>1 DEF LiveMap, GhostMap
  <2>. QED
    BY <1>3, <1>4, <1>6, <2>2 DEF Abs!Add
<1>. QED
  BY <1>5, <1>6

LEMMA IncrementIsMapIncrement ==
    ASSUME IInv, NEW ts \in Timestamps, NEW delta \in 0 .. MaxValue,
           IncrementSampleValue(ts, delta)
    PROVE  Abs!IncrementSampleValue(ts, delta)
<1>. DEFINE last  == series.last_sample
            value == IF last = None THEN delta ELSE last.value + delta
            L     == LiveMap(series)
            new   == [timestamp |-> ts, value |-> value]
<1>1. SeriesOK(series) /\ ((last = None) <=> (series.chunks = <<>>))
  BY SeriesOKFacts DEF IInv
<1>2. (DOMAIN L # {}) <=> (last # None)
  BY Zenon, <1>1, MapFacts, WindowOf
<1>3. last # None => Abs!NewestSample = last
  BY <1>1, NewestIsLast
<1>4. CASE /\ last # None
           /\ last.value = NaN \/ ts < last.timestamp
           /\ reply' = "error"
           /\ UNCHANGED series
  BY <1>2, <1>3, <1>4 DEF Abs!IncrementSampleValue, LiveMap
<1>5. CASE /\ last # None => last.value # NaN /\ ts >= last.timestamp
           /\ value \in Values
           /\ Add(new, "last")
  <2>1. new \in Samples
    BY <1>5 DEF Samples
  <2>2. Abs!Add(new, "last")
    BY <1>5, <2>1, AddIsMapAdd
  <2>3. new = [timestamp |-> ts,
               value |-> IF DOMAIN L = {} THEN delta ELSE Abs!NewestSample.value + delta]
    BY Zenon, <1>2, <1>3
  <2>4. DOMAIN L # {} => Abs!NewestSample.value # NaN /\ ts >= Abs!NewestSample.timestamp
    BY <1>2, <1>3, <1>5
  <2>. HIDE DEF new
  <2>. QED
    BY <2>2, <2>3, <2>4 DEF Abs!IncrementSampleValue, LiveMap
<1>. QED
  BY <1>4, <1>5 DEF IncrementSampleValue

LEMMA AlterIsMapAlter ==
    ASSUME IInv, NEW r \in Nat, AlterRetention(r)
    PROVE  Abs!AlterRetention(r)
<1>. DEFINE a == [series EXCEPT !.retention = r]
            m == Content(series.chunks)
<1>1. SeriesOK(series) /\ series \in SeriesType
  BY SeriesOKFacts DEF IInv
<1>2. SeriesOK(a) /\ a.chunks = series.chunks /\ a.retention = r
  BY <1>1, AlterOK DEF SeriesType
<1>3. DOMAIN m = Stored(a.chunks) /\ Agrees(a.chunks, m)
  BY <1>1, <1>2, SeriesOKFacts, AgreesWithContent
<1>4. r # series.retention /\ series' = ApplyRetention(a) /\ reply' = "ok"
  BY DEF AlterRetention
<1>5. Abs!Both = m
  BY <1>1, BothIsContent
<1>. HIDE DEF a, m
<1>6. LET floor == Abs!Floor(DOMAIN m, a.retention)
          u     == ApplyRetention(a)
      IN  /\ MapOf(u.chunks, Live(u)) = Abs!Only(m, {t \in DOMAIN m : t >= floor})
          /\ \E cut \in Timestamps :
                MapOf(u.chunks, Stored(u.chunks) \ Live(u))
                    = Abs!Only(m, {t \in DOMAIN m : cut <= t /\ t < floor})
  BY <1>2, <1>3, ApplyRetentionSettles
<1>7. LET floor == Abs!Floor(DOMAIN m, r)
      IN  /\ MapOf(series'.chunks, Live(series')) = Abs!Only(m, {t \in DOMAIN m : t >= floor})
          /\ \E cut \in Timestamps :
                MapOf(series'.chunks, Stored(series'.chunks) \ Live(series'))
                    = Abs!Only(m, {t \in DOMAIN m : cut <= t /\ t < floor})
  BY Zenon, <1>2, <1>4, <1>6
<1>8. Abs!Settle(m, r)
  BY <1>7 DEF Abs!Settle, Abs!Timestamps, Timestamps
<1>9. series'.retention = r
  BY <1>2, <1>4, ApplyRetentionOK
<1>. QED
  BY <1>4, <1>5, <1>8, <1>9 DEF Abs!AlterRetention

\* A forced trim leaves exactly the live samples.
LEMMA TrimLeavesLive ==
    ASSUME NEW s, SeriesOK(s)
    PROVE  LET u == Trim(s)
           IN  /\ SeriesOK(u) /\ u.retention = s.retention
               /\ Stored(u.chunks) = Live(s) /\ Live(u) = Live(s)
               /\ Agrees(u.chunks, Content(s.chunks))
               /\ s.retention # 0 => GetMinTimestamp(u) = GetMinTimestamp(s)
<1>. DEFINE u == Trim(s)
<1>1. /\ SeriesOK(u) /\ u.retention = s.retention
      /\ Stored(u.chunks) \subseteq Stored(s.chunks)
      /\ \A t \in Stored(s.chunks) : t >= GetMinTimestamp(s) => t \in Stored(u.chunks)
      /\ \A t \in Stored(u.chunks) : t >= GetMinTimestamp(s)
  BY Zenon, TrimExpiredOK DEF Trim
<1>2. Agrees(u.chunks, Content(s.chunks))
  BY Zenon, SeriesOKFacts, AgreesWithContent, TrimExpiredAgrees DEF Trim
<1>. HIDE DEF u
<1>3. Stored(u.chunks) = Live(s)
  BY <1>1 DEF Live
<1>4. s.retention # 0 => GetMinTimestamp(u) = GetMinTimestamp(s)
  <2>1. GetMinTimestamp(u) \in Nat /\ GetMinTimestamp(s) \in Nat
    BY <1>1, FloorType, ConstantsAssumption DEF Timestamps
  <2>. QED
    BY <1>1, <2>1, FloorMonotone, FloorAntitone
<1>5. Live(u) = Stored(u.chunks)
  <2>1. CASE s.retention = 0
    BY <1>1, <2>1, WindowOf
  <2>2. CASE s.retention # 0
    BY <1>1, <1>4, <2>2 DEF Live
  <2>. QED
    BY <2>1, <2>2
<1>. QED
  BY <1>1, <1>2, <1>3, <1>4, <1>5 DEF u

LEMMA TrimIsForget ==
    ASSUME IInv, TrimCron
    PROVE  Abs!Forget
<1>. DEFINE C == Content(series.chunks)
<1>1. SeriesOK(series) /\ series' = Trim(series) /\ reply' = reply
  BY DEF IInv, TrimCron
<1>2. /\ SeriesOK(series') /\ series'.retention = series.retention
      /\ Stored(series'.chunks) = Live(series) /\ Live(series') = Live(series)
      /\ Agrees(series'.chunks, C)
  BY <1>1, TrimLeavesLive
<1>3. WellFormed(series.chunks) /\ WellFormed(series'.chunks) /\ Agrees(series.chunks, C)
  BY <1>1, <1>2, SeriesOKFacts, AgreesWithContent
<1>4. Live(series) \in SUBSET Stored(series.chunks) /\ Live(series) \in SUBSET Stored(series'.chunks)
  BY <1>2 DEF Live
<1>. HIDE DEF C
<1>5. MapOf(series'.chunks, Live(series)) = [t \in Live(series) |-> C[t]]
  BY <1>2, <1>3, <1>4, MapOfAgreeing
<1>6. MapOf(series.chunks, Live(series)) = [t \in Live(series) |-> C[t]]
  BY <1>3, <1>4, MapOfAgreeing
<1>7. MapOf(series'.chunks, Live(series')) = MapOf(series.chunks, Live(series))
  BY <1>2, <1>5, <1>6
<1>8. Stored(series'.chunks) \ Live(series') = {}
  BY <1>2
<1>9. MapOf(series'.chunks, Stored(series'.chunks) \ Live(series'))
          = Abs!Only(MapOf(series.chunks, Stored(series.chunks) \ Live(series)), {})
  BY <1>8 DEF MapOf, Abs!Only
<1>. QED
  BY <1>1, <1>2, <1>7, <1>9 DEF Abs!Forget

LEMMA ReloadIsRestart ==
    ASSUME IInv, SaveAndReload
    PROVE  Abs!Restart
<1>1. RdbLoad(series) = series
  BY RdbLoadOK DEF IInv
<1>2. series' = series /\ reply' \in {reply, "error"}
  BY <1>1 DEF SaveAndReload
<1>. QED
  BY <1>2 DEF Abs!Restart

\* TS.DEL of a non-empty range leaves the live samples outside it and nothing else.
LEMMA RemoveRangeContents ==
    ASSUME NEW s, SeriesOK(s), NEW start \in Timestamps, NEW end \in Timestamps, start <= end
    PROVE  LET u == RemoveRange(s, start, end)
           IN  /\ SeriesOK(u) /\ u.retention = s.retention
               /\ Agrees(u.chunks, Content(s.chunks))
               /\ Stored(u.chunks) = {t \in Live(s) : ~(start <= t /\ t <= end)}
               /\ Live(u) = Stored(u.chunks)
<1>. DEFINE base   == IF s.retention = 0 THEN s ELSE Trim(s)
            from   == IF s.retention = 0 THEN start ELSE MaxOf({start, GetMinTimestamp(base)})
            bounds == GetChunkIndexBounds(base.chunks, from, end)
            cut    == [i \in DOMAIN base.chunks |->
                          IF bounds[1] <= i /\ i <= bounds[2]
                            THEN ChunkRemoveRange(base.chunks[i], from, end)
                            ELSE base.chunks[i]]
            count  == SampleCount(base.chunks) - SampleCount(cut)
            left   == [base EXCEPT !.chunks = RetainNonEmpty(cut),
                                   !.total_samples = MaxOf({0, @ - count})]
            u      == RemoveRange(s, start, end)
            C      == Content(s.chunks)
<1>0. start \in Nat /\ end \in Nat /\ ~(start > end)
  BY ConstantsAssumption DEF Timestamps
<1>1. /\ SeriesOK(u) /\ u.retention = s.retention /\ Stored(u.chunks) \subseteq Stored(s.chunks)
  BY Zenon, RemoveRangeOK
<1>2. u = IF from > end \/ bounds = None THEN base ELSE UpdateFirstLastTimestamps(left)
  BY <1>0 DEF RemoveRange
<1>3. /\ SeriesOK(base) /\ base.retention = s.retention
      /\ Stored(base.chunks) = Live(s)
      /\ Agrees(base.chunks, C)
      /\ s.retention # 0 => GetMinTimestamp(base) = GetMinTimestamp(s)
  <2>1. CASE s.retention = 0
    BY <2>1, WindowOf, SeriesOKFacts, AgreesWithContent
  <2>2. CASE s.retention # 0
    BY <2>2, TrimLeavesLive
  <2>. QED
    BY <2>1, <2>2
<1>4. WellFormed(base.chunks) /\ base \in SeriesType
  BY <1>3, SeriesOKFacts
<1>. HIDE DEF base
<1>5. /\ from \in Timestamps
      /\ \A t \in Live(s) : (from <= t /\ t <= end) <=> (start <= t /\ t <= end)
  <2>1. GetMinTimestamp(s) \in Nat /\ GetMinTimestamp(s) \in Timestamps
        /\ \A t \in Live(s) : t \in Nat /\ t >= GetMinTimestamp(s)
    BY FloorType, SeriesOKFacts, CountStored, ConstantsAssumption DEF Timestamps, Live
  <2>2. CASE s.retention = 0
    BY <2>2
  <2>3. CASE s.retention # 0
    <3>1. from = IF start <= GetMinTimestamp(s) THEN GetMinTimestamp(s) ELSE start
      BY <1>0, <1>3, <2>1, <2>3, MaxOfTwo
    <3>. HIDE DEF from
    <3>. QED
      BY <1>0, <2>1, <3>1
  <2>. QED
    BY <2>2, <2>3
<1>. HIDE DEF from, u, C
<1>6. Agrees(u.chunks, C) /\ Stored(u.chunks) = {t \in Live(s) : ~(from <= t /\ t <= end)}
  <2>1. CASE from > end
    <3>1. from \in Nat /\ \A t \in Live(s) : t \in Nat
      BY <1>5, SeriesOKFacts, CountStored, ConstantsAssumption DEF Timestamps, Live
    <3>2. \A t \in Live(s) : ~(from <= t /\ t <= end)
      BY <1>0, <2>1, <3>1
    <3>3. u = base
      BY <1>2, <2>1
    <3>. QED
      BY <1>3, <3>2, <3>3
  <2>2. CASE ~(from > end) /\ bounds = None
    <3>1. \A i \in DOMAIN base.chunks : \A t \in DOMAIN base.chunks[i] : ~(from <= t /\ t <= end)
      BY <1>4, <1>5, <2>2, BoundsFacts
    <3>2. \A t \in Live(s) : ~(from <= t /\ t <= end)
      BY <1>3, <3>1 DEF Stored
    <3>3. u = base
      BY <1>2, <2>2
    <3>. QED
      BY <1>3, <3>2, <3>3
  <2>3. CASE ~(from > end) /\ bounds # None
    <3>1. /\ Stored(RetainNonEmpty(cut)) = {t \in Stored(base.chunks) : ~(from <= t /\ t <= end)}
          /\ Agrees(RetainNonEmpty(cut), C)
      BY <1>3, <1>4, <1>5, <2>3, CutContents
    <3>. HIDE DEF cut, count
    <3>2. left.chunks = RetainNonEmpty(cut)
      BY <1>4 DEF SeriesType
    <3>. HIDE DEF left
    <3>3. u.chunks = left.chunks
      <4>1. u = UpdateFirstLastTimestamps(left)
        BY <1>2, <2>3
      <4>2. UpdateFirstLastTimestamps(left).chunks = left.chunks
        BY DEF UpdateFirstLastTimestamps
      <4>. QED
        BY <4>1, <4>2
    <3>. QED
      BY <1>3, <3>1, <3>2, <3>3
  <2>. QED
    BY <2>1, <2>2, <2>3
<1>7. Stored(u.chunks) = {t \in Live(s) : ~(start <= t /\ t <= end)}
  BY <1>5, <1>6
<1>8. Live(u) = Stored(u.chunks)
  <2>1. CASE s.retention = 0
    BY <1>1, <2>1, WindowOf
  <2>2. CASE s.retention # 0
    <3>1. GetMinTimestamp(u) <= GetMinTimestamp(s)
      BY <1>1, <2>2, FloorAntitone
    <3>2. GetMinTimestamp(u) \in Nat /\ GetMinTimestamp(s) \in Nat
      BY <1>1, FloorType, ConstantsAssumption DEF Timestamps
    <3>3. \A t \in Stored(u.chunks) : t \in Nat /\ t >= GetMinTimestamp(s)
      BY <1>7, SeriesOKFacts, CountStored, ConstantsAssumption DEF Timestamps, Live
    <3>4. \A t \in Stored(u.chunks) : t >= GetMinTimestamp(u)
      BY <3>1, <3>2, <3>3
    <3>. QED
      BY <3>4 DEF Live
  <2>. QED
    BY <2>1, <2>2
<1>. QED
  BY <1>1, <1>6, <1>7, <1>8 DEF u, C

LEMMA DeleteIsMapDelete ==
    ASSUME IInv, NEW start \in Timestamps, NEW end \in Timestamps, Delete(start, end)
    PROVE  Abs!Delete(start, end)
<1>. DEFINE C    == Content(series.chunks)
            L    == LiveMap(series)
            kept == {t \in Live(series) : ~(start <= t /\ t <= end)}
<1>1. SeriesOK(series) /\ series' = RemoveRange(series, start, end) /\ reply' = "ok"
  BY DEF IInv, Delete
<1>2. start \in Nat /\ end \in Nat
  BY ConstantsAssumption DEF Timestamps
<1>3. /\ DOMAIN L = Live(series) /\ Live(series) \subseteq Stored(series.chunks)
      /\ \A t \in Live(series) : L[t] = C[t]
  BY Zenon, <1>1, MapFacts
<1>4. CASE start > end
  <2>1. series' = series
    BY <1>1, <1>4 DEF RemoveRange
  <2>2. kept = Live(series)
    <3>1. \A t \in Live(series) : ~(start <= t /\ t <= end)
      BY <1>1, <1>2, <1>4, SeriesOKFacts, CountStored, ConstantsAssumption DEF Timestamps, Live
    <3>. QED
      BY <3>1
  <2>3. L = [t \in Live(series) |-> L[t]]
    BY DEF LiveMap, MapOf
  <2>4. L = Abs!Only(L, {t \in DOMAIN L : ~(start <= t /\ t <= end)})
    BY <1>3, <2>2, <2>3 DEF Abs!Only
  <2>5. ~(start <= end)
    BY <1>2, <1>4
  <2>. QED
    BY <1>1, <2>1, <2>4, <2>5 DEF Abs!Delete, LiveMap
<1>5. CASE start <= end
  <2>1. /\ SeriesOK(series') /\ series'.retention = series.retention
        /\ Agrees(series'.chunks, C)
        /\ Stored(series'.chunks) = kept
        /\ Live(series') = Stored(series'.chunks)
    BY <1>1, <1>5, RemoveRangeContents
  <2>2. WellFormed(series'.chunks) /\ kept \in SUBSET Stored(series'.chunks)
    BY <2>1, SeriesOKFacts
  <2>. HIDE DEF C, L
  <2>3. MapOf(series'.chunks, kept) = [t \in kept |-> C[t]]
    BY <2>1, <2>2, MapOfAgreeing
  <2>4. MapOf(series'.chunks, Live(series')) = [t \in kept |-> L[t]]
    BY <1>3, <2>1, <2>3
  <2>5. MapOf(series'.chunks, Live(series'))
            = Abs!Only(L, {t \in DOMAIN L : ~(start <= t /\ t <= end)})
    BY <1>3, <2>4 DEF Abs!Only
  <2>6. Stored(series'.chunks) \ Live(series') = {}
    BY <2>1
  <2>7. MapOf(series'.chunks, Stored(series'.chunks) \ Live(series'))
            = Abs!Only(MapOf(series.chunks, Stored(series.chunks) \ Live(series)), {})
    BY <2>6 DEF MapOf, Abs!Only
  <2>. QED
    BY <1>1, <1>5, <2>1, <2>5, <2>7 DEF Abs!Delete, L, LiveMap
<1>. QED
  BY <1>2, <1>4, <1>5

LEMMA InitIsMapInit ==
    ASSUME Init
    PROVE  Abs!Init
<1>1. PICK r \in Retentions : series = EmptySeries(r) /\ reply = "ok"
  BY DEF Init
<1>2. series.chunks = <<>> /\ series.retention = r
  BY <1>1 DEF EmptySeries
<1>3. Stored(series.chunks) = {} /\ Live(series) = {}
  BY <1>2 DEF Stored, Live
<1>4. /\ MapOf(series.chunks, Live(series)) = Abs!Only(<<>>, {})
      /\ MapOf(series.chunks, Stored(series.chunks) \ Live(series)) = Abs!Only(<<>>, {})
  BY <1>3 DEF MapOf, Abs!Only
<1>. QED
  BY <1>1, <1>2, <1>4 DEF Abs!Init

LEMMA NextIsMapNext ==
    ASSUME IInv, [Next]_vars
    PROVE  [Abs!Next]_Abs!vars
<1>1. ASSUME NEW ts \in InputTimes, NEW v \in InputValues, NEW policy \in InputPolicies,
             Add([timestamp |-> ts, value |-> v], policy)
      PROVE  Abs!Next
  <2>1. [timestamp |-> ts, value |-> v] \in Samples
    BY InputsAssumption DEF Samples
  <2>2. Abs!Add([timestamp |-> ts, value |-> v], policy)
    BY <1>1, <2>1, AddIsMapAdd
  <2>. QED
    BY <2>2 DEF Abs!Next
<1>2. ASSUME NEW ts \in InputTimes, NEW delta \in 0 .. MaxValue, IncrementSampleValue(ts, delta)
      PROVE  Abs!Next
  <2>1. Abs!IncrementSampleValue(ts, delta)
    BY <1>2, IncrementIsMapIncrement, InputsAssumption
  <2>. QED
    BY <2>1 DEF Abs!Next
<1>3. ASSUME NEW start \in InputTimes, NEW end \in InputTimes, Delete(start, end)
      PROVE  Abs!Next
  <2>1. Abs!Delete(start, end)
    BY <1>3, DeleteIsMapDelete, InputsAssumption
  <2>. QED
    BY <2>1 DEF Abs!Next
<1>4. ASSUME NEW r \in Retentions, AlterRetention(r)
      PROVE  Abs!Next
  <2>1. Abs!AlterRetention(r)
    BY <1>4, AlterIsMapAlter, InputsAssumption
  <2>. QED
    BY <2>1 DEF Abs!Next
<1>5. CASE TrimCron
  BY <1>5, TrimIsForget DEF Abs!Next
<1>6. CASE SaveAndReload
  BY <1>6, ReloadIsRestart DEF Abs!Next
<1>7. CASE UNCHANGED vars
  BY <1>7 DEF vars, Abs!vars
<1>. QED
  BY Zenon, <1>1, <1>2, <1>3, <1>4, <1>5, <1>6, <1>7 DEF Next

\* Chunking is invisible: through splits, lazy trims, gaps between chunks and reloads, every
\* command answers and changes the live samples exactly as it would on a plain map with a
\* retention window.
THEOREM Refinement == Spec => ImplementsMap
<1>1. Init => Abs!Init
  BY InitIsMapInit
<1>2. IInv /\ [Next]_vars => [Abs!Next]_Abs!vars
  BY NextIsMapNext
<1>. QED
  BY <1>1, <1>2, Invariance, PTL DEF Spec, ImplementsMap, Abs!Spec

-----------------------------------------------------------------------------
(* The uncompressed encoding trims eagerly *)

\* When every boundary chunk is due, applying the window leaves no expired sample.
LEMMA ApplyRetentionEager ==
    ASSUME ~Compressed, NEW a, SeriesOK(a)
    PROVE  Stored(ApplyRetention(a).chunks) = Live(ApplyRetention(a))
<1>. DEFINE u == ApplyRetention(a)
<1>1. SeriesOK(u) /\ u.retention = a.retention
  BY ApplyRetentionOK
<1>2. CASE a.retention = 0
  <2>. HIDE DEF u
  <2>. QED
    BY <1>1, <1>2, WindowOf DEF u
<1>3. CASE a.retention # 0
  <2>1. u = TrimExpired(a, FALSE)
    BY <1>3 DEF ApplyRetention
  <2>2. \A cs, min : TrimmedChunks(cs, min, FALSE) = TrimmedChunks(cs, min, TRUE)
    BY DEF TrimmedChunks, HeadTrimDue
  <2>3. u = Trim(a)
    BY Zenon, <2>1, <2>2 DEF TrimExpired, Trim
  <2>4. Stored(u.chunks) = Live(a) /\ Live(u) = Live(a)
    BY <2>3, TrimLeavesLive
  <2>. QED
    BY <2>4
<1>. QED
  BY <1>2, <1>3

LEMMA AddEager ==
    ASSUME IInv, ~Compressed, Stored(series.chunks) = Live(series),
           NEW sample \in Samples, NEW policy, Add(sample, policy)
    PROVE  Stored(series'.chunks) = Live(series')
<1>1. PICK a : /\ SeriesOK(a)
               /\ IF reply' = "ok" THEN series' = ApplyRetention(a)
                  ELSE SameSamples(series, a) /\ series' = a
  BY AddEffect
<1>2. CASE reply' = "ok"
  BY <1>1, <1>2, ApplyRetentionEager
<1>3. CASE reply' # "ok"
  <2>1. SameSamples(series, series')
    BY <1>1, <1>3
  <2>2. GetMinTimestamp(series') = GetMinTimestamp(series)
    BY <2>1 DEF GetMinTimestamp, SameSamples
  <2>3. Stored(series'.chunks) = Stored(series.chunks)
    BY <2>1 DEF SameSamples
  <2>4. Live(series') = Live(series)
    BY <2>2, <2>3 DEF Live
  <2>. QED
    BY <2>3, <2>4
<1>. QED
  BY <1>2, <1>3

LEMMA NextEager ==
    ASSUME IInv, TrimsEagerly, [Next]_vars
    PROVE  TrimsEagerly'
<1>. SUFFICES ASSUME ~Compressed PROVE Stored(series'.chunks) = Live(series')
  BY DEF TrimsEagerly
<1>0. SeriesOK(series) /\ Stored(series.chunks) = Live(series)
  BY DEF IInv, TrimsEagerly
<1>1. ASSUME series' = series PROVE Stored(series'.chunks) = Live(series')
  BY <1>0, <1>1
<1>2. ASSUME NEW ts \in InputTimes, NEW v \in InputValues, NEW policy \in InputPolicies,
             Add([timestamp |-> ts, value |-> v], policy)
      PROVE  Stored(series'.chunks) = Live(series')
  <2>1. [timestamp |-> ts, value |-> v] \in Samples
    BY InputsAssumption DEF Samples
  <2>. QED
    BY <1>0, <1>2, <2>1, AddEager
<1>3. ASSUME NEW ts \in InputTimes, NEW delta \in 0 .. MaxValue, IncrementSampleValue(ts, delta)
      PROVE  Stored(series'.chunks) = Live(series')
  <2>. DEFINE value == IF series.last_sample = None THEN delta ELSE series.last_sample.value + delta
              new   == [timestamp |-> ts, value |-> value]
  <2>1. series' = series \/ (value \in Values /\ Add(new, "last"))
    BY <1>3 DEF IncrementSampleValue
  <2>2. value \in Values => new \in Samples
    BY InputsAssumption DEF Samples
  <2>. HIDE DEF new
  <2>. QED
    BY <1>0, <1>1, <2>1, <2>2, AddEager
<1>4. ASSUME NEW start \in InputTimes, NEW end \in InputTimes, Delete(start, end)
      PROVE  Stored(series'.chunks) = Live(series')
  <2>1. /\ start \in Timestamps /\ end \in Timestamps /\ start \in Nat /\ end \in Nat
        /\ series' = RemoveRange(series, start, end)
    BY <1>4, InputsAssumption, ConstantsAssumption DEF Delete, Timestamps
  <2>2. CASE start > end
    <3>1. series' = series
      BY <2>1, <2>2 DEF RemoveRange
    <3>. QED
      BY <1>1, <3>1
  <2>3. CASE start <= end
    BY <1>0, <2>1, <2>3, RemoveRangeContents
  <2>. QED
    BY <2>1, <2>2, <2>3
<1>5. ASSUME NEW r \in Retentions, AlterRetention(r)
      PROVE  Stored(series'.chunks) = Live(series')
  <2>1. r \in Nat /\ series' = ApplyRetention([series EXCEPT !.retention = r])
    BY <1>5, InputsAssumption DEF AlterRetention
  <2>2. SeriesOK([series EXCEPT !.retention = r])
    BY <1>0, <2>1, AlterOK
  <2>. QED
    BY <2>1, <2>2, ApplyRetentionEager
<1>6. CASE TrimCron
  BY <1>0, <1>6, TrimLeavesLive DEF TrimCron
<1>7. CASE SaveAndReload
  <2>1. series' = series
    BY <1>0, <1>7, RdbLoadOK DEF SaveAndReload
  <2>. QED
    BY <1>1, <2>1
<1>8. CASE UNCHANGED vars
  BY <1>1, <1>8 DEF vars
<1>. QED
  BY Zenon, <1>2, <1>3, <1>4, <1>5, <1>6, <1>7, <1>8 DEF Next

\* An uncompressed series never holds an expired sample between two commands, whatever the mix of
\* writes, deletes, window changes, trims and reloads.
THEOREM EagerAlways == Spec => []TrimsEagerly
<1>1. Init => TrimsEagerly
  BY DEF Init, EmptySeries, TrimsEagerly, Stored, Live
<1>2. IInv /\ TrimsEagerly /\ [Next]_vars => TrimsEagerly'
  BY NextEager
<1>. QED
  BY <1>1, <1>2, Invariance, PTL DEF Spec
=============================================================================
