---------------------------- MODULE ChunkProofs ----------------------------
(***************************************************************************)
(* Lemmas about single chunks and ordered chunk lists, for every bound,    *)
(* chunk capacity and encoding: what the searches, inserts, splits, trims  *)
(* and cuts of SeriesOps return and preserve.                              *)
(***************************************************************************)
EXTENDS SeriesOps, FiniteSetTheorems, TLAPS

-----------------------------------------------------------------------------
(* Least and greatest elements *)

\* A non-empty set of naturals has a least element, which MinOf picks.
LEMMA MinOfNaturals ==
    ASSUME NEW S \in SUBSET Nat, S # {}
    PROVE  MinOf(S) \in S /\ \A y \in S : MinOf(S) <= y
<1>1. \E x \in S : \A y \in S : ~(<<y, x>> \in OpToRel(<, Nat))
  BY Zenon, NatLessThanWellFounded, WFMin
<1>2. PICK x \in S : \A y \in S : ~(<<y, x>> \in OpToRel(<, Nat))
  BY Zenon, <1>1
<1>3. \A y \in S : ~(y < x)
  <2>1. S \subseteq Nat
    OBVIOUS
  <2>. QED
    BY <1>2, <2>1, Zenon DEF OpToRel
<1>4. \A y \in S : x <= y
  BY <1>3
<1>. QED
  BY Zenon, <1>4 DEF MinOf

\* A non-empty bounded set of naturals has a greatest element, which MaxOf picks.
LEMMA MaxOfBounded ==
    ASSUME NEW n \in Nat, NEW S \in SUBSET (0 .. n), S # {}
    PROVE  MaxOf(S) \in S /\ \A y \in S : y <= MaxOf(S)
<1>. DEFINE T == {n - y : y \in S}
<1>1. T \in SUBSET Nat /\ T # {}
  <2>1. T \subseteq Nat
    OBVIOUS
  <2>2. PICK y \in S : TRUE
    BY Zenon
  <2>3. n - y \in T
    OBVIOUS
  <2>. QED
    BY <2>1, <2>3
<1>2. PICK y \in S : MinOf(T) = n - y
  BY Zenon, <1>1, MinOfNaturals
<1>3. \A z \in S : z <= y
  BY <1>1, <1>2, MinOfNaturals
<1>4. \E x \in S : \A z \in S : x >= z
  BY <1>3
<1>. QED
  BY Zenon, <1>4 DEF MaxOf

-----------------------------------------------------------------------------
(* Chunks *)

\* What it is to be a chunk, in the form the other proofs use.
LEMMA ChunkFacts ==
    ASSUME NEW c \in Chunks
    PROVE  /\ DOMAIN c \in SUBSET Timestamps
           /\ DOMAIN c # {}
           /\ \A t \in DOMAIN c : c[t] \in Values
           /\ IsFiniteSet(DOMAIN c)
           /\ ChunkLen(c) \in Nat
<1>1. PICK S \in SUBSET Timestamps : c \in [S -> Values]
  BY DEF Chunks
<1>2. DOMAIN c = S
  BY <1>1
<1>3. IsFiniteSet(Timestamps)
  BY ConstantsAssumption, FS_Interval DEF Timestamps
<1>4. IsFiniteSet(DOMAIN c)
  BY <1>2, <1>3, FS_Subset
<1>5. ChunkLen(c) \in Nat
  BY <1>4, FS_CardinalityType DEF ChunkLen
<1>. QED
  BY <1>1, <1>2, <1>4, <1>5 DEF Chunks

LEMMA IsChunk ==
    ASSUME NEW S \in SUBSET Timestamps, S # {}, NEW c \in [S -> Values]
    PROVE  c \in Chunks /\ DOMAIN c = S
<1>1. DOMAIN c = S
  OBVIOUS
<1>. QED
  BY <1>1 DEF Chunks

\* The first and last timestamps of a chunk are its least and greatest.
LEMMA ChunkEnds ==
    ASSUME NEW c \in Chunks
    PROVE  /\ FirstTimestamp(c) \in DOMAIN c /\ \A t \in DOMAIN c : FirstTimestamp(c) <= t
           /\ LastTimestamp(c) \in DOMAIN c /\ \A t \in DOMAIN c : t <= LastTimestamp(c)
           /\ FirstTimestamp(c) \in Timestamps
           /\ LastTimestamp(c) \in Timestamps
           /\ LastSample(c) \in Samples
<1>1. DOMAIN c \in SUBSET Timestamps /\ DOMAIN c # {}
  BY ChunkFacts
<1>2. DOMAIN c \in SUBSET Nat /\ MaxTimestamp \in Nat
  BY <1>1, ConstantsAssumption DEF Timestamps
<1>3. FirstTimestamp(c) \in DOMAIN c /\ \A t \in DOMAIN c : FirstTimestamp(c) <= t
  BY <1>1, <1>2, MinOfNaturals DEF FirstTimestamp
<1>4. LastTimestamp(c) \in DOMAIN c /\ \A t \in DOMAIN c : t <= LastTimestamp(c)
  BY Zenon, <1>1, <1>2, MaxOfBounded DEF LastTimestamp, Timestamps
<1>5. LastSample(c) \in Samples
  BY <1>1, <1>4, ChunkFacts DEF LastSample, Samples
<1>. QED
  BY <1>1, <1>3, <1>4, <1>5

-----------------------------------------------------------------------------
(* Ordered chunk lists *)

\* Every timestamp of a chunk is below every timestamp of a later chunk.
Ordered(cs) ==
    \A i, j \in DOMAIN cs : i < j => \A t \in DOMAIN cs[i], u \in DOMAIN cs[j] : t < u

WellFormed(cs) == cs \in Seq(Chunks) /\ Ordered(cs)

\* Chunks that a range removal may have emptied.
Pieces == UNION {[S -> Values] : S \in SUBSET Timestamps}

\* On an ordered list the sum of the chunk lengths is the number of distinct timestamps.
LEMMA CountPieces ==
    ASSUME NEW cs \in Seq(Pieces), Ordered(cs)
    PROVE  /\ Stored(cs) \in SUBSET Timestamps
           /\ IsFiniteSet(Stored(cs))
           /\ SampleCount(cs) = Cardinality(Stored(cs))
           /\ SampleCount(cs) \in Nat
<1>. DEFINE P == {p \in (DOMAIN cs) \X Timestamps : p[2] \in DOMAIN cs[p[1]]}
            at(t) == CHOOSE i \in DOMAIN cs : t \in DOMAIN cs[i]
            f == [t \in Stored(cs) |-> <<at(t), t>>]
<1>0. DOMAIN cs = 1 .. Len(cs) /\ Len(cs) \in Nat /\ \A i \in DOMAIN cs : cs[i] \in Pieces
  OBVIOUS
<1>1. \A i \in DOMAIN cs : DOMAIN cs[i] \in SUBSET Timestamps
  BY <1>0 DEF Pieces
<1>2. Stored(cs) \in SUBSET Timestamps
  BY <1>1 DEF Stored
<1>3. IsFiniteSet(Stored(cs))
  <2>1. IsFiniteSet(Timestamps)
    BY ConstantsAssumption, FS_Interval DEF Timestamps
  <2>. QED
    BY <1>2, <2>1, FS_Subset
<1>4. \A t \in Stored(cs) : at(t) \in DOMAIN cs /\ t \in DOMAIN cs[at(t)]
  BY DEF Stored
<1>5. \A t \in Stored(cs), i \in DOMAIN cs : t \in DOMAIN cs[i] => i = at(t)
  <2>. SUFFICES ASSUME NEW t \in Stored(cs), NEW i \in DOMAIN cs, t \in DOMAIN cs[i]
                PROVE  i = at(t)
    OBVIOUS
  <2>1. at(t) \in DOMAIN cs /\ t \in DOMAIN cs[at(t)]
    BY <1>4
  <2>. HIDE DEF at
  <2>2. ~(i < at(t)) /\ ~(at(t) < i)
    BY <2>1, <1>0, <1>1, ConstantsAssumption DEF Ordered, Timestamps
  <2>. QED
    BY <2>1, <2>2, <1>0
<1>. HIDE DEF at
<1>6. f \in [Stored(cs) -> P]
  BY <1>2, <1>4
<1>7. \A p \in P : p[2] \in Stored(cs) /\ f[p[2]] = p
  <2>. SUFFICES ASSUME NEW p \in P PROVE p[2] \in Stored(cs) /\ f[p[2]] = p
    OBVIOUS
  <2>1. p[1] \in DOMAIN cs /\ p[2] \in DOMAIN cs[p[1]] /\ p = <<p[1], p[2]>>
    OBVIOUS
  <2>2. p[2] \in Stored(cs)
    BY <2>1 DEF Stored
  <2>. QED
    BY <2>1, <2>2, <1>5
<1>8. f \in Bijection(Stored(cs), P)
  <2>1. \A a, b \in Stored(cs) : f[a] = f[b] => a = b
    OBVIOUS
  <2>2. \A p \in P : \E t \in Stored(cs) : f[t] = p
    BY Zenon, <1>7
  <2>. QED
    BY Zenon, <1>6, <2>1, <2>2 DEF Bijection, Injection, Surjection, IsInjective
<1>9. Cardinality(P) = Cardinality(Stored(cs))
  BY <1>3, <1>8, FS_Bijection DEF ExistsBijection
<1>10. Cardinality(Stored(cs)) \in Nat
  BY <1>3, FS_CardinalityType
<1>. QED
  BY <1>2, <1>3, <1>9, <1>10 DEF SampleCount

LEMMA WellFormedFacts ==
    ASSUME NEW cs, WellFormed(cs)
    PROVE  /\ cs \in Seq(Chunks)
           /\ DOMAIN cs = 1 .. Len(cs)
           /\ Len(cs) \in Nat
           /\ \A i \in DOMAIN cs : cs[i] \in Chunks
           /\ cs # <<>> <=> Len(cs) > 0
  BY DEF WellFormed

LEMMA CountStored ==
    ASSUME NEW cs, WellFormed(cs)
    PROVE  /\ Stored(cs) \in SUBSET Timestamps
           /\ IsFiniteSet(Stored(cs))
           /\ SampleCount(cs) = Cardinality(Stored(cs))
           /\ SampleCount(cs) \in Nat
<1>1. Chunks \subseteq Pieces
  BY DEF Chunks, Pieces
<1>2. cs \in Seq(Pieces)
  BY <1>1, WellFormedFacts
<1>. QED
  BY <1>2, CountPieces DEF WellFormed

\* Replacing one element of a sequence leaves a sequence of the same length.
LEMMA ReplaceElement ==
    ASSUME NEW T, NEW q \in Seq(T), NEW k \in 1 .. Len(q), NEW x \in T
    PROVE  [q EXCEPT ![k] = x] \in Seq(T) /\ Len([q EXCEPT ![k] = x]) = Len(q)
OBVIOUS

\* Two sequences of one length with the same elements are the same sequence.
LEMMA SameElements ==
    ASSUME NEW T, NEW p \in Seq(T), NEW q \in Seq(T), Len(p) = Len(q),
           \A k \in 1 .. Len(p) : p[k] = q[k]
    PROVE  p = q
OBVIOUS

\* A function on 1 .. n is a sequence.
LEMMA FunctionIsSeq ==
    ASSUME NEW T, NEW n \in Nat, NEW q \in [1 .. n -> T]
    PROVE  q \in Seq(T) /\ Len(q) = n
OBVIOUS

\* The ends of an ordered list: of consecutive chunks, and of all that is stored.
LEMMA OrderedEnds ==
    ASSUME NEW cs, WellFormed(cs)
    PROVE  /\ \A i, j \in DOMAIN cs : i < j => LastTimestamp(cs[i]) < FirstTimestamp(cs[j])
           /\ cs # <<>> => /\ FirstTimestamp(cs[1]) \in Stored(cs)
                           /\ \A t \in Stored(cs) : FirstTimestamp(cs[1]) <= t
                           /\ LastTimestamp(cs[Len(cs)]) \in Stored(cs)
                           /\ \A t \in Stored(cs) : t <= LastTimestamp(cs[Len(cs)])
           /\ Stored(cs) = {} <=> cs = <<>>
<1>0. /\ DOMAIN cs = 1 .. Len(cs) /\ Len(cs) \in Nat /\ \A i \in DOMAIN cs : cs[i] \in Chunks
      /\ cs # <<>> <=> Len(cs) > 0
  BY WellFormedFacts
<1>1. \A i \in DOMAIN cs : /\ FirstTimestamp(cs[i]) \in DOMAIN cs[i]
                           /\ LastTimestamp(cs[i]) \in DOMAIN cs[i]
                           /\ \A t \in DOMAIN cs[i] : /\ FirstTimestamp(cs[i]) <= t
                                                      /\ t <= LastTimestamp(cs[i])
  BY <1>0, ChunkEnds
<1>2. \A i, j \in DOMAIN cs : i < j => LastTimestamp(cs[i]) < FirstTimestamp(cs[j])
  BY <1>1 DEF WellFormed, Ordered
<1>3. ASSUME cs # <<>>
      PROVE  /\ FirstTimestamp(cs[1]) \in Stored(cs)
             /\ LastTimestamp(cs[Len(cs)]) \in Stored(cs)
             /\ \A t \in Stored(cs) : /\ FirstTimestamp(cs[1]) <= t
                                      /\ t <= LastTimestamp(cs[Len(cs)])
  <2>1. 1 \in DOMAIN cs /\ Len(cs) \in DOMAIN cs
    BY <1>0, <1>3
  <2>2. FirstTimestamp(cs[1]) \in Stored(cs) /\ LastTimestamp(cs[Len(cs)]) \in Stored(cs)
    BY <1>1, <2>1 DEF Stored
  <2>3. ASSUME NEW t \in Stored(cs)
        PROVE  FirstTimestamp(cs[1]) <= t /\ t <= LastTimestamp(cs[Len(cs)])
    <3>1. PICK i \in DOMAIN cs : t \in DOMAIN cs[i]
      BY DEF Stored
    <3>2. t \in Nat /\ FirstTimestamp(cs[1]) \in Nat /\ LastTimestamp(cs[Len(cs)]) \in Nat
      BY <2>2, CountStored, ConstantsAssumption DEF Timestamps
    <3>3. FirstTimestamp(cs[1]) <= t
      <4>1. CASE i = 1
        BY <4>1, <3>1, <1>1
      <4>2. CASE 1 < i
        BY <4>2, <3>1, <3>2, <2>1, <1>1 DEF WellFormed, Ordered
      <4>. QED
        BY <4>1, <4>2, <1>0
    <3>4. t <= LastTimestamp(cs[Len(cs)])
      <4>1. CASE i = Len(cs)
        BY <4>1, <3>1, <1>1
      <4>2. CASE i < Len(cs)
        BY <4>2, <3>1, <3>2, <2>1, <1>1 DEF WellFormed, Ordered
      <4>. QED
        BY <4>1, <4>2, <1>0
    <3>. QED
      BY <3>3, <3>4
  <2>. QED
    BY <2>2, <2>3
<1>4. cs = <<>> => Stored(cs) = {}
  BY <1>0 DEF Stored
<1>. QED
  BY <1>2, <1>3, <1>4
LEMMA SeqLen ==
    ASSUME NEW S, NEW q \in Seq(S), NEW n \in Nat, DOMAIN q = 1 .. n
    PROVE  Len(q) = n
<1>1. Len(q) \in Nat /\ 1 .. Len(q) = 1 .. n
  OBVIOUS
<1>2. Len(q) > 0 => Len(q) \in 1 .. n
  BY <1>1
<1>3. n > 0 => n \in 1 .. Len(q)
  BY <1>1
<1>. QED
  BY <1>1, <1>2, <1>3

\* The expired prefix of a chunk list ends where FirstReaching says.
LEMMA FirstReachingFacts ==
    ASSUME NEW cs, WellFormed(cs), NEW min \in Timestamps
    PROVE  /\ FirstReaching(cs, min) \in 1 .. Len(cs) + 1
           /\ \A i \in DOMAIN cs : i < FirstReaching(cs, min) => LastTimestamp(cs[i]) < min
           /\ FirstReaching(cs, min) <= Len(cs) =>
                  LastTimestamp(cs[FirstReaching(cs, min)]) >= min
<1>. DEFINE R == {i \in DOMAIN cs : LastTimestamp(cs[i]) >= min} \cup {Len(cs) + 1}
<1>0. DOMAIN cs = 1 .. Len(cs) /\ Len(cs) \in Nat /\ \A i \in DOMAIN cs : cs[i] \in Chunks
  BY WellFormedFacts
<1>1. R \in SUBSET Nat /\ R # {}
  BY <1>0
<1>2. FirstReaching(cs, min) \in R /\ \A i \in R : FirstReaching(cs, min) <= i
  BY <1>1, MinOfNaturals DEF FirstReaching
<1>3. \A i \in DOMAIN cs : LastTimestamp(cs[i]) \in Nat
  BY <1>0, ChunkEnds, ConstantsAssumption DEF Timestamps
<1>4. min \in Nat
  BY ConstantsAssumption DEF Timestamps
<1>. QED
  BY <1>0, <1>2, <1>3, <1>4

LEMMA FirstStartingAfterFacts ==
    ASSUME NEW cs, WellFormed(cs), NEW ts \in Timestamps
    PROVE  /\ FirstStartingAfter(cs, ts) \in 1 .. Len(cs) + 1
           /\ \A i \in DOMAIN cs : i < FirstStartingAfter(cs, ts) => FirstTimestamp(cs[i]) <= ts
           /\ FirstStartingAfter(cs, ts) <= Len(cs) =>
                  FirstTimestamp(cs[FirstStartingAfter(cs, ts)]) > ts
<1>. DEFINE R == {i \in DOMAIN cs : FirstTimestamp(cs[i]) > ts} \cup {Len(cs) + 1}
<1>0. DOMAIN cs = 1 .. Len(cs) /\ Len(cs) \in Nat /\ \A i \in DOMAIN cs : cs[i] \in Chunks
  BY WellFormedFacts
<1>1. R \in SUBSET Nat /\ R # {}
  BY <1>0
<1>2. FirstStartingAfter(cs, ts) \in R /\ \A i \in R : FirstStartingAfter(cs, ts) <= i
  BY <1>1, MinOfNaturals DEF FirstStartingAfter
<1>3. \A i \in DOMAIN cs : FirstTimestamp(cs[i]) \in Nat
  BY <1>0, ChunkEnds, ConstantsAssumption DEF Timestamps
<1>4. ts \in Nat
  BY ConstantsAssumption DEF Timestamps
<1>. QED
  BY <1>0, <1>2, <1>3, <1>4

LEMMA GetChunkIndexFacts ==
    ASSUME NEW cs, WellFormed(cs), NEW ts \in Timestamps
    PROVE  /\ GetChunkIndex(cs, ts) \in 1 .. Len(cs) + 1
           /\ GetChunkIndex(cs, ts) <= Len(cs) => InRange(cs[GetChunkIndex(cs, ts)], ts)
           /\ GetChunkIndex(cs, ts) > Len(cs) => \A i \in DOMAIN cs : ~InRange(cs[i], ts)
<1>. DEFINE R == {i \in DOMAIN cs : InRange(cs[i], ts)} \cup {Len(cs) + 1}
<1>0. DOMAIN cs = 1 .. Len(cs) /\ Len(cs) \in Nat
  BY WellFormedFacts
<1>1. R \in SUBSET Nat /\ R # {}
  BY <1>0
<1>2. GetChunkIndex(cs, ts) \in R /\ \A i \in R : GetChunkIndex(cs, ts) <= i
  BY <1>1, MinOfNaturals DEF GetChunkIndex
<1>. QED
  BY <1>0, <1>2
LEMMA DropChunksFacts ==
    ASSUME NEW cs, WellFormed(cs), NEW n \in 0 .. Len(cs)
    PROVE  /\ WellFormed(DropChunks(cs, n))
           /\ Len(DropChunks(cs, n)) = Len(cs) - n
           /\ \A k \in 1 .. Len(cs) - n : DropChunks(cs, n)[k] = cs[k + n]
           /\ n = 0 => DropChunks(cs, n) = cs
<1>. DEFINE ds == DropChunks(cs, n)
<1>0. DOMAIN cs = 1 .. Len(cs) /\ Len(cs) \in Nat /\ \A i \in DOMAIN cs : cs[i] \in Chunks
  BY WellFormedFacts
<1>1. DOMAIN ds = 1 .. Len(cs) - n /\ \A k \in 1 .. Len(cs) - n : ds[k] = cs[k + n]
  BY DEF DropChunks
<1>2. ds \in Seq(Chunks)
  BY <1>0 DEF DropChunks
<1>3. Len(ds) = Len(cs) - n
  <2>1. Len(cs) - n \in Nat
    BY <1>0
  <2>2. DOMAIN ds = 1 .. Len(cs) - n
    BY <1>1
  <2>. HIDE DEF ds
  <2>. QED
    BY <2>1, <2>2, <1>2, SeqLen, Zenon
<1>. HIDE DEF ds
<1>7. Ordered(ds)
  <2>. SUFFICES ASSUME NEW i \in DOMAIN ds, NEW j \in DOMAIN ds, i < j,
                       NEW t \in DOMAIN ds[i], NEW u \in DOMAIN ds[j]
                PROVE  t < u
    BY DEF Ordered
  <2>1. i + n \in DOMAIN cs /\ j + n \in DOMAIN cs /\ i + n < j + n
    BY <1>0, <1>1
  <2>2. t \in DOMAIN cs[i + n] /\ u \in DOMAIN cs[j + n]
    BY <1>1
  <2>. QED
    BY <2>1, <2>2 DEF WellFormed, Ordered
<1>8. n = 0 => ds = cs
  <2>1. ASSUME n = 0 PROVE ds = cs
    <3>1. Len(ds) = Len(cs) /\ \A k \in 1 .. Len(cs) : ds[k] = cs[k]
      BY <2>1, <1>0, <1>1, <1>3
    <3>. QED
      BY <3>1, <1>0, <1>2, SameElements DEF WellFormed
  <2>. QED
    BY <2>1
<1>. QED
  BY <1>1, <1>2, <1>3, <1>7, <1>8 DEF WellFormed, ds

\* Removing everything below min from a chunk keeps exactly the samples from min on.
LEMMA HeadCut ==
    ASSUME NEW c, DOMAIN c \in SUBSET Nat, NEW min \in Nat
    PROVE  LET cut == ChunkRemoveRange(c, 0, min - 1)
           IN  /\ DOMAIN cut = {t \in DOMAIN c : t >= min}
               /\ \A t \in DOMAIN cut : cut[t] = c[t]
<1> DEFINE kept == {u \in DOMAIN c : u < 0 \/ u > min - 1}
<1>1. ASSUME NEW t \in DOMAIN c PROVE (t < 0 \/ t > min - 1) <=> t >= min
  <2>1. t \in Nat
    BY <1>1
  <2>. QED
    BY <2>1
<1>2. kept = {t \in DOMAIN c : t >= min}
  BY <1>1
<1>3. ChunkRemoveRange(c, 0, min - 1) = [t \in kept |-> c[t]]
  BY DEF ChunkRemoveRange
<1>. HIDE DEF kept
<1>. QED
  BY <1>2, <1>3

\* What a trim leaves: everything at or above the floor, nothing else when forced, and the list
\* itself when it removes no sample.
LEMMA TrimmedChunksFacts ==
    ASSUME NEW cs, WellFormed(cs), NEW min \in Timestamps, NEW force \in BOOLEAN
    PROVE  LET ds == TrimmedChunks(cs, min, force)
           IN  /\ WellFormed(ds)
               /\ Stored(ds) \subseteq Stored(cs)
               /\ \A t \in Stored(cs) : t >= min => t \in Stored(ds)
               /\ force => \A t \in Stored(ds) : t >= min
               /\ ds = cs \/ Stored(ds) # Stored(cs)
<1>. DEFINE n    == FirstReaching(cs, min) - 1
            kept == DropChunks(cs, n)
            ds   == TrimmedChunks(cs, min, force)
            cut  == ChunkRemoveRange(kept[1], 0, min - 1)
            trim == kept # <<>> /\ FirstTimestamp(kept[1]) < min /\ (force \/ HeadTrimDue(kept[1], min))
<1>0. /\ DOMAIN cs = 1 .. Len(cs) /\ Len(cs) \in Nat
      /\ \A i \in DOMAIN cs : cs[i] \in Chunks /\ DOMAIN cs[i] \in SUBSET Timestamps
  BY WellFormedFacts, ChunkFacts
<1>1. n \in 0 .. Len(cs)
  BY <1>0, FirstReachingFacts
<1>2. /\ \A i \in DOMAIN cs : i <= n => LastTimestamp(cs[i]) < min
      /\ n < Len(cs) => LastTimestamp(cs[n + 1]) >= min
  BY <1>0, <1>1, FirstReachingFacts
<1>. HIDE DEF n
<1>3. /\ WellFormed(kept) /\ Len(kept) = Len(cs) - n
      /\ \A k \in 1 .. Len(cs) - n : kept[k] = cs[k + n]
      /\ n = 0 => kept = cs
  BY <1>1, DropChunksFacts
<1>4. /\ DOMAIN kept = 1 .. Len(cs) - n /\ kept \in Seq(Chunks)
      /\ kept # <<>> <=> n < Len(cs)
  BY <1>0, <1>1, <1>3, WellFormedFacts
<1>5. Timestamps \subseteq Nat
  BY ConstantsAssumption DEF Timestamps
<1>6. \A i \in DOMAIN cs : i <= n => \A t \in DOMAIN cs[i] : t < min
  <2>. SUFFICES ASSUME NEW i \in DOMAIN cs, NEW t \in DOMAIN cs[i], i <= n PROVE t < min
    OBVIOUS
  <2>1. t <= LastTimestamp(cs[i]) /\ LastTimestamp(cs[i]) \in Timestamps
    BY <1>0, ChunkEnds
  <2>. QED
    BY <2>1, <1>0, <1>2, <1>5
<1>7. ds = IF trim THEN [kept EXCEPT ![1] = cut] ELSE kept
  BY DEF TrimmedChunks, n
<1>8. Stored(kept) \subseteq Stored(cs) /\ \A t \in Stored(cs) : t >= min => t \in Stored(kept)
  <2>1. ASSUME NEW t \in Stored(kept) PROVE t \in Stored(cs)
    <3>1. PICK k \in DOMAIN kept : t \in DOMAIN kept[k]
      BY DEF Stored
    <3>2. k + n \in DOMAIN cs /\ t \in DOMAIN cs[k + n]
      BY <3>1, <1>0, <1>1, <1>3, <1>4
    <3>. QED
      BY <3>2 DEF Stored
  <2>2. ASSUME NEW t \in Stored(cs), t >= min PROVE t \in Stored(kept)
    <3>1. PICK i \in DOMAIN cs : t \in DOMAIN cs[i]
      BY DEF Stored
    <3>2. i > n
      BY <1>0, <1>1, <1>5, <1>6, <2>2, <3>1
    <3>3. i - n \in DOMAIN kept /\ kept[i - n] = cs[i]
      BY <3>2, <1>0, <1>1, <1>3, <1>4
    <3>. QED
      BY <3>1, <3>3 DEF Stored
  <2>. QED
    BY <2>1, <2>2
<1>. HIDE DEF kept
<1>9. ASSUME n # 0 PROVE cs # <<>> /\ FirstTimestamp(cs[1]) \notin Stored(kept)
  <2>1. cs # <<>> /\ 1 \in DOMAIN cs
    BY <1>0, <1>1, <1>9, WellFormedFacts
  <2>2. \A t \in Stored(kept) : t > FirstTimestamp(cs[1])
    <3>. SUFFICES ASSUME NEW k \in DOMAIN kept, NEW t \in DOMAIN kept[k]
                  PROVE  t > FirstTimestamp(cs[1])
      BY DEF Stored
    <3>1. k + n \in DOMAIN cs /\ k + n > 1 /\ t \in DOMAIN cs[k + n]
      BY <1>0, <1>1, <1>3, <1>4, <1>9
    <3>2. FirstTimestamp(cs[1]) \in DOMAIN cs[1]
      BY <1>0, <2>1, ChunkEnds
    <3>. QED
      BY <3>1, <3>2, <2>1, <1>0, <1>5 DEF WellFormed, Ordered
  <2>3. FirstTimestamp(cs[1]) \in Nat
    BY Zenon, <1>0, <1>5, <2>1, ChunkEnds
  <2>4. ~(FirstTimestamp(cs[1]) > FirstTimestamp(cs[1]))
    BY <2>3
  <2>. QED
    BY <2>1, <2>2, <2>4
<1>10. CASE ~trim
  <2>1. ds = kept
    BY <1>7, <1>10
  <2>2. kept = cs \/ Stored(kept) # Stored(cs)
    BY <1>3, <1>9, OrderedEnds
  <2>3. ASSUME force PROVE \A t \in Stored(kept) : t >= min
    <3>1. CASE kept = <<>>
      BY <3>1, <1>3, OrderedEnds
    <3>2. CASE kept # <<>>
      <4>1. ~(FirstTimestamp(kept[1]) < min) /\ FirstTimestamp(kept[1]) \in Stored(kept)
        BY <3>2, <2>3, <1>10, <1>3, OrderedEnds
      <4>2. \A t \in Stored(kept) : FirstTimestamp(kept[1]) <= t
        BY <3>2, <1>3, OrderedEnds
      <4>3. Stored(kept) \subseteq Nat /\ min \in Nat
        BY Zenon, <1>3, <1>5, CountStored
      <4>4. FirstTimestamp(kept[1]) >= min
        BY <4>1, <4>3
      <4>. QED
        BY <4>1, <4>2, <4>3, <4>4
    <3>. QED
      BY <3>1, <3>2
  <2>. QED
    BY <2>1, <2>2, <2>3, <1>3, <1>8
<1>11. CASE trim
  <2>0. /\ 1 \in DOMAIN kept /\ kept[1] = cs[n + 1] /\ n + 1 \in DOMAIN cs /\ kept[1] \in Chunks
        /\ DOMAIN kept[1] \in SUBSET Timestamps
    BY <1>0, <1>1, <1>3, <1>4, <1>11
  <2>1. DOMAIN cut = {t \in DOMAIN kept[1] : t >= min} /\ \A t \in DOMAIN cut : cut[t] = kept[1][t]
    <3>1. DOMAIN kept[1] \in SUBSET Nat /\ min \in Nat
      BY <2>0, <1>5, ConstantsAssumption DEF Timestamps
    <3>. QED
      BY Zenon, <3>1, HeadCut
  <2>2. LastTimestamp(kept[1]) \in DOMAIN cut
    <3>1. LastTimestamp(kept[1]) >= min
      BY <2>0, <1>1, <1>2, <1>4, <1>11
    <3>2. LastTimestamp(kept[1]) \in DOMAIN kept[1]
      BY <2>0, ChunkEnds
    <3>. QED
      BY <3>1, <3>2, <2>1
  <2>3. cut \in Chunks
    <3>1. cut \in [DOMAIN cut -> Values]
      BY <2>0, <2>1, ChunkFacts DEF ChunkRemoveRange
    <3>. QED
      BY <3>1, <2>0, <2>1, <2>2, IsChunk
  <2>. HIDE DEF cut
  <2>4. /\ ds = [kept EXCEPT ![1] = cut] /\ DOMAIN ds = DOMAIN kept /\ ds[1] = cut
        /\ \A k \in DOMAIN kept : k # 1 => ds[k] = kept[k]
    BY <1>7, <1>11, <2>0
  <2>5. ds \in Seq(Chunks)
    <3>1. 1 \in 1 .. Len(kept) /\ kept \in Seq(Chunks)
      BY <2>0, <1>3, <1>4
    <3>2. [kept EXCEPT ![1] = cut] \in Seq(Chunks)
      BY <3>1, <2>3, ReplaceElement
    <3>. QED
      BY <3>2, <2>4
  <2>. HIDE DEF ds
  <2>6. \A k \in DOMAIN ds : DOMAIN ds[k] \subseteq DOMAIN kept[k]
    BY <2>1, <2>4
  <2>7. Ordered(ds) /\ Stored(ds) \subseteq Stored(kept)
    BY <2>4, <2>6, <1>3 DEF Ordered, Stored, WellFormed
  <2>8. ASSUME NEW t \in Stored(kept) PROVE t \in Stored(ds) <=> t >= min
    <3>1. PICK k \in DOMAIN kept : t \in DOMAIN kept[k]
      BY DEF Stored
    <3>2. CASE k = 1
      <4>1. t >= min => t \in Stored(ds)
        BY <3>1, <3>2, <2>1, <2>4 DEF Stored
      <4>2. ASSUME NEW j \in DOMAIN ds, t \in DOMAIN ds[j] PROVE t >= min
        <5>1. CASE j = 1
          BY <5>1, <4>2, <2>1, <2>4
        <5>2. CASE j > 1
          <6>1. t \in DOMAIN kept[j] /\ t \in Nat
            BY <5>2, <4>2, <2>4, <2>6, <2>0, <3>1, <3>2, <1>5
          <6>. QED
            BY <6>1, <5>2, <3>1, <3>2, <2>4, <1>3 DEF WellFormed, Ordered
        <5>. QED
          BY <5>1, <5>2, <2>4, <1>4
      <4>. QED
        BY <4>1, <4>2 DEF Stored
    <3>3. CASE k > 1
      <4>1. t \in Stored(ds)
        BY <3>1, <3>3, <2>4 DEF Stored
      <4>2. LastTimestamp(kept[1]) < t
        BY <3>1, <3>3, <2>0, ChunkEnds, <1>3 DEF WellFormed, Ordered
      <4>3. t \in Timestamps /\ LastTimestamp(kept[1]) \in Timestamps
        BY <1>3, <2>0, ChunkEnds, CountStored
      <4>4. LastTimestamp(kept[1]) >= min
        BY <2>2, <2>1
      <4>5. min \in Nat /\ t \in Nat /\ LastTimestamp(kept[1]) \in Nat
        BY Zenon, <4>3, <1>5
      <4>6. t >= min
        BY <4>2, <4>4, <4>5
      <4>. QED
        BY <4>1, <4>6
    <3>. QED
      BY <3>1, <3>2, <3>3, <1>4
  <2>9. Stored(ds) # Stored(cs)
    <3>1. FirstTimestamp(kept[1]) \in Stored(kept) /\ FirstTimestamp(kept[1]) \in Timestamps
      BY <2>0, <1>3, <1>11, ChunkEnds, OrderedEnds
    <3>2. FirstTimestamp(kept[1]) \in Nat /\ min \in Nat /\ FirstTimestamp(kept[1]) < min
      BY Zenon, <3>1, <1>5, <1>11
    <3>3. ~(FirstTimestamp(kept[1]) >= min)
      BY <3>2
    <3>4. FirstTimestamp(kept[1]) \notin Stored(ds)
      BY <3>1, <3>3, <2>8
    <3>. QED
      BY <3>1, <3>4, <1>8
  <2>10. WellFormed(ds)
    BY <2>5, <2>7 DEF WellFormed
  <2>11. \A t \in Stored(ds) : t >= min
    BY <2>7, <2>8
  <2>12. \A t \in Stored(cs) : t >= min => t \in Stored(ds)
    BY <2>8, <1>8
  <2>. QED
    BY <2>7, <2>9, <2>10, <2>11, <2>12, <1>8 DEF ds
<1>. QED
  BY <1>10, <1>11
\* Dropping the emptied chunks keeps every sample and the order, and changes no chunk.
LEMMA RetainNonEmptyFacts ==
    ASSUME NEW cs \in Seq(Pieces), Ordered(cs)
    PROVE  LET ds == RetainNonEmpty(cs)
           IN  /\ WellFormed(ds) /\ Stored(ds) = Stored(cs)
               /\ \A r \in DOMAIN ds : \E i \in DOMAIN cs : ds[r] = cs[i]
<1>. DEFINE kept    == {i \in DOMAIN cs : DOMAIN cs[i] # {}}
            N       == Cardinality(kept)
            upto(i) == {j \in kept : j <= i}
            rank    == [i \in kept |-> Cardinality(upto(i))]
            pick(r) == CHOOSE i \in kept : Cardinality(upto(i)) = r
            ds      == RetainNonEmpty(cs)
<1>0. DOMAIN cs = 1 .. Len(cs) /\ Len(cs) \in Nat /\ \A i \in DOMAIN cs : cs[i] \in Pieces
  OBVIOUS
<1>1. IsFiniteSet(kept) /\ kept \subseteq Nat /\ N \in Nat
  <2>1. IsFiniteSet(1 .. Len(cs))
    BY <1>0, FS_Interval
  <2>2. kept \subseteq 1 .. Len(cs)
    BY <1>0
  <2>3. IsFiniteSet(kept)
    BY <2>1, <2>2, FS_Subset
  <2>. QED
    BY <2>2, <2>3, FS_CardinalityType
<1>2. \A r \in 1 .. N : ds[r] = cs[pick(r)]
  BY DEF RetainNonEmpty
<1>3. DOMAIN ds = 1 .. N
  BY DEF RetainNonEmpty
<1>. HIDE DEF kept, ds
<1>4. \A i \in kept : IsFiniteSet(upto(i)) /\ Cardinality(upto(i)) \in 1 .. N
  <2>. SUFFICES ASSUME NEW i \in kept
                PROVE  IsFiniteSet(upto(i)) /\ Cardinality(upto(i)) \in 1 .. N
    OBVIOUS
  <2>1. upto(i) \in SUBSET kept /\ i \in upto(i)
    BY <1>1
  <2>2. IsFiniteSet(upto(i)) /\ Cardinality(upto(i)) <= N
    BY <2>1, <1>1, FS_Subset
  <2>3. Cardinality(upto(i)) \in Nat /\ Cardinality(upto(i)) # 0
    BY Zenon, <2>1, <2>2, FS_CardinalityType, FS_EmptySet
  <2>. QED
    BY <2>2, <2>3, <1>1
<1>5. \A i, k \in kept : i < k => Cardinality(upto(i)) < Cardinality(upto(k))
  <2>. SUFFICES ASSUME NEW i \in kept, NEW k \in kept, i < k
                PROVE  Cardinality(upto(i)) < Cardinality(upto(k))
    OBVIOUS
  <2>0. i \in Nat /\ k \in Nat /\ kept \subseteq Nat
    BY <1>1
  <2>1. upto(i) \in SUBSET upto(k) /\ upto(i) # upto(k)
    <3>1. k \in upto(k) /\ k \notin upto(i)
      BY <2>0
    <3>2. \A j \in upto(i) : j \in upto(k)
      BY <2>0
    <3>. QED
      BY <3>1, <3>2
  <2>2. Cardinality(upto(i)) <= Cardinality(upto(k))
    BY <2>1, <1>4, FS_Subset
  <2>3. Cardinality(upto(i)) # Cardinality(upto(k))
    BY Zenon, <2>1, <1>4, FS_Subset
  <2>4. Cardinality(upto(i)) \in Nat /\ Cardinality(upto(k)) \in Nat
    BY <1>4, FS_CardinalityType
  <2>. HIDE DEF upto
  <2>. QED
    BY <2>2, <2>3, <2>4
<1>. HIDE DEF upto, N
<1>6. rank \in Injection(kept, 1 .. N)
  <2>1. rank \in [kept -> 1 .. N]
    BY <1>4
  <2>2. \A i, k \in kept : rank[i] = rank[k] => i = k
    <3>. SUFFICES ASSUME NEW i \in kept, NEW k \in kept, rank[i] = rank[k] PROVE i = k
      OBVIOUS
    <3>1. ~(i < k) /\ ~(k < i)
      BY <1>1, <1>4, <1>5
    <3>. QED
      BY <3>1, <1>1
  <2>. QED
    BY <2>1, <2>2 DEF Injection, IsInjective
<1>7. rank \in Surjection(kept, 1 .. N)
  <2>1. IsFiniteSet(1 .. N) /\ Cardinality(1 .. N) = N
    BY <1>1, FS_Interval
  <2>. QED
    BY <2>1, <1>6, FS_Injection DEF N
<1>8. \A r \in 1 .. N : pick(r) \in kept /\ Cardinality(upto(pick(r))) = r
  <2>. SUFFICES ASSUME NEW r \in 1 .. N PROVE \E i \in kept : Cardinality(upto(i)) = r
    OBVIOUS
  <2>. QED
    BY Zenon, <1>7 DEF Surjection
<1>9. \A i \in kept : Cardinality(upto(i)) \in 1 .. N /\ pick(Cardinality(upto(i))) = i
  <2>. SUFFICES ASSUME NEW i \in kept PROVE pick(Cardinality(upto(i))) = i
    BY <1>4
  <2>. DEFINE r == Cardinality(upto(i))
  <2>1. pick(r) \in kept /\ Cardinality(upto(pick(r))) = r
    BY <1>4, <1>8
  <2>. QED
    BY <2>1, <1>6 DEF Injection, IsInjective
<1>10. \A q, r \in 1 .. N : q < r => pick(q) < pick(r)
  <2>. SUFFICES ASSUME NEW q \in 1 .. N, NEW r \in 1 .. N, q < r PROVE pick(q) < pick(r)
    OBVIOUS
  <2>. HIDE DEF pick
  <2>1. pick(q) \in kept /\ pick(r) \in kept
    BY <1>8
  <2>0. q \in Nat /\ r \in Nat
    BY <1>1
  <2>2. /\ pick(q) \in Nat /\ pick(r) \in Nat
        /\ Cardinality(upto(pick(q))) = q /\ Cardinality(upto(pick(r))) = r
    BY Zenon, <2>1, <1>1, <1>8
  <2>3. pick(q) # pick(r)
    BY <2>0, <2>2
  <2>4. ~(pick(r) < pick(q))
    BY <2>0, <2>1, <2>2, <1>5
  <2>. QED
    BY <2>2, <2>3, <2>4
<1>. HIDE DEF pick
<1>11. \A i \in kept : i \in DOMAIN cs /\ cs[i] \in Chunks
  BY <1>0 DEF kept, Pieces, Chunks
<1>12. ds \in Seq(Chunks)
  <2>1. \A r \in 1 .. N : ds[r] \in Chunks
    BY <1>2, <1>8, <1>11
  <2>2. ds = [r \in 1 .. N |-> ds[r]]
    BY DEF ds, RetainNonEmpty, N, kept
  <2>. QED
    BY <2>1, <2>2, <1>1
<1>13. Ordered(ds)
  <2>. SUFFICES ASSUME NEW q \in 1 .. N, NEW r \in 1 .. N, q < r,
                       NEW t \in DOMAIN ds[q], NEW u \in DOMAIN ds[r]
                PROVE  t < u
    BY <1>3 DEF Ordered
  <2>1. /\ t \in DOMAIN cs[pick(q)] /\ u \in DOMAIN cs[pick(r)] /\ pick(q) < pick(r)
        /\ pick(q) \in DOMAIN cs /\ pick(r) \in DOMAIN cs
    BY <1>2, <1>8, <1>10, <1>11
  <2>. QED
    BY <2>1 DEF Ordered
<1>14. Stored(ds) = Stored(cs)
  <2>1. ASSUME NEW t \in Stored(ds) PROVE t \in Stored(cs)
    <3>1. PICK r \in 1 .. N : t \in DOMAIN ds[r]
      BY <1>3 DEF Stored
    <3>. QED
      BY <3>1, <1>2, <1>8, <1>11 DEF Stored
  <2>2. ASSUME NEW t \in Stored(cs) PROVE t \in Stored(ds)
    <3>1. PICK i \in DOMAIN cs : t \in DOMAIN cs[i]
      BY DEF Stored
    <3>2. i \in kept
      BY <3>1 DEF kept
    <3>3. PICK r \in 1 .. N : ds[r] = cs[i]
      BY <3>2, <1>2, <1>9
    <3>. QED
      BY <3>1, <3>3, <1>3 DEF Stored
  <2>. QED
    BY Zenon, <2>1, <2>2
<1>15. \A r \in DOMAIN ds : \E i \in DOMAIN cs : ds[r] = cs[i]
  BY <1>2, <1>3, <1>8, <1>11
<1>. QED
  BY <1>12, <1>13, <1>14, <1>15 DEF WellFormed, ds
-----------------------------------------------------------------------------
(* Adding, replacing and splitting chunks *)

\* Every timestamp of c is below every timestamp of d.
Below(c, d) == \A t \in DOMAIN c, u \in DOMAIN d : t < u

LEMMA InsertChunkFacts ==
    ASSUME NEW cs, WellFormed(cs), NEW c \in Chunks, NEW i \in 1 .. Len(cs) + 1,
           \A j \in DOMAIN cs : j < i => Below(cs[j], c),
           \A j \in DOMAIN cs : j >= i => Below(c, cs[j])
    PROVE  LET ds == InsertChunk(cs, i, c)
           IN  /\ WellFormed(ds)
               /\ Len(ds) = Len(cs) + 1
               /\ \A k \in 1 .. Len(cs) + 1 :
                    ds[k] = IF k < i THEN cs[k] ELSE IF k = i THEN c ELSE cs[k - 1]
               /\ Stored(ds) = Stored(cs) \cup DOMAIN c
<1>. DEFINE ds == InsertChunk(cs, i, c)
<1>0. DOMAIN cs = 1 .. Len(cs) /\ Len(cs) \in Nat /\ \A j \in DOMAIN cs : cs[j] \in Chunks
  BY WellFormedFacts
<1>1. DOMAIN ds = 1 .. Len(cs) + 1
  BY DEF InsertChunk
<1>2. \A k \in 1 .. Len(cs) + 1 :
         ds[k] = IF k < i THEN cs[k] ELSE IF k = i THEN c ELSE cs[k - 1]
  BY DEF InsertChunk
<1>3. \A k \in 1 .. Len(cs) + 1 : (k < i => k \in DOMAIN cs) /\ (k > i => k - 1 \in DOMAIN cs)
  BY <1>0
<1>4. ds \in Seq(Chunks)
  <2>1. \A k \in 1 .. Len(cs) + 1 : ds[k] \in Chunks
    BY <1>0, <1>2, <1>3
  <2>2. ds = [k \in 1 .. Len(cs) + 1 |-> ds[k]] /\ Len(cs) + 1 \in Nat
    BY <1>0 DEF InsertChunk
  <2>. HIDE DEF ds
  <2>. QED
    BY <2>1, <2>2
<1>. HIDE DEF ds
<1>5. Len(ds) = Len(cs) + 1
  <2>1. Len(cs) + 1 \in Nat
    BY <1>0
  <2>. QED
    BY <2>1, <1>1, <1>4, SeqLen, Zenon
<1>6. Ordered(ds)
  <2>. SUFFICES ASSUME NEW p \in 1 .. Len(cs) + 1, NEW q \in 1 .. Len(cs) + 1, p < q,
                       NEW t \in DOMAIN ds[p], NEW u \in DOMAIN ds[q]
                PROVE  t < u
    BY <1>1 DEF Ordered
  <2>1. CASE q < i
    <3>1. p < i /\ p \in DOMAIN cs /\ q \in DOMAIN cs /\ ds[p] = cs[p] /\ ds[q] = cs[q]
      BY <2>1, <1>0, <1>2
    <3>. QED
      BY <3>1 DEF WellFormed, Ordered
  <2>2. CASE q = i
    <3>1. p < i /\ p \in DOMAIN cs /\ ds[p] = cs[p] /\ ds[q] = c
      BY <2>2, <1>0, <1>2
    <3>. QED
      BY <3>1 DEF Below
  <2>3. CASE q > i /\ p < i
    <3>1. /\ p \in DOMAIN cs /\ q - 1 \in DOMAIN cs /\ p < q - 1
          /\ ds[p] = cs[p] /\ ds[q] = cs[q - 1]
      BY <2>3, <1>0, <1>2
    <3>. QED
      BY <3>1 DEF WellFormed, Ordered
  <2>4. CASE q > i /\ p = i
    <3>1. q - 1 \in DOMAIN cs /\ q - 1 >= i /\ ds[p] = c /\ ds[q] = cs[q - 1]
      BY <2>4, <1>0, <1>2
    <3>. QED
      BY <3>1 DEF Below
  <2>5. CASE q > i /\ p > i
    <3>1. /\ p - 1 \in DOMAIN cs /\ q - 1 \in DOMAIN cs /\ p - 1 < q - 1
          /\ ds[p] = cs[p - 1] /\ ds[q] = cs[q - 1]
      BY <2>5, <1>0, <1>2
    <3>. QED
      BY <3>1 DEF WellFormed, Ordered
  <2>. QED
    BY <2>1, <2>2, <2>3, <2>4, <2>5, <1>0
<1>7. Stored(ds) = Stored(cs) \cup DOMAIN c
  <2>1. ASSUME NEW t \in Stored(ds) PROVE t \in Stored(cs) \cup DOMAIN c
    <3>1. PICK k \in 1 .. Len(cs) + 1 : t \in DOMAIN ds[k]
      BY <1>1 DEF Stored
    <3>2. ds[k] = c \/ \E j \in DOMAIN cs : ds[k] = cs[j]
      <4>1. CASE k < i
        BY <4>1, <1>2, <1>3
      <4>2. CASE k = i
        BY <4>2, <1>2
      <4>3. CASE k > i
        <5>1. k - 1 \in DOMAIN cs /\ ds[k] = cs[k - 1]
          BY <4>3, <1>0, <1>2, <1>3
        <5>. QED
          BY <5>1
      <4>. QED
        BY <4>1, <4>2, <4>3, <1>0
    <3>. QED
      BY <3>1, <3>2 DEF Stored
  <2>2. ASSUME NEW t \in Stored(cs) PROVE t \in Stored(ds)
    <3>1. PICK j \in DOMAIN cs : t \in DOMAIN cs[j]
      BY DEF Stored
    <3>2. CASE j < i
      <4>1. j \in DOMAIN ds /\ ds[j] = cs[j]
        BY <3>2, <1>0, <1>1, <1>2
      <4>. QED
        BY <4>1, <3>1 DEF Stored
    <3>3. CASE j >= i
      <4>1. j + 1 \in DOMAIN ds /\ ds[j + 1] = cs[j]
        BY <3>3, <1>0, <1>1, <1>2
      <4>. QED
        BY <4>1, <3>1 DEF Stored
    <3>. QED
      BY <3>2, <3>3, <1>0
  <2>3. i \in DOMAIN ds /\ ds[i] = c
    BY <1>0, <1>1, <1>2
  <2>4. DOMAIN c \subseteq Stored(ds)
    BY <2>3 DEF Stored
  <2>. QED
    BY <2>1, <2>2, <2>4
<1>. QED
  BY <1>2, <1>4, <1>5, <1>6, <1>7 DEF WellFormed, ds

LEMMA ReplaceChunkFacts ==
    ASSUME NEW cs, WellFormed(cs), NEW i \in DOMAIN cs, NEW c \in Chunks,
           \A j \in DOMAIN cs : j < i => Below(cs[j], c),
           \A j \in DOMAIN cs : j > i => Below(c, cs[j])
    PROVE  LET ds == [cs EXCEPT ![i] = c]
           IN  /\ WellFormed(ds)
               /\ Len(ds) = Len(cs)
               /\ ds[i] = c
               /\ \A k \in DOMAIN cs : k # i => ds[k] = cs[k]
               /\ Stored(ds) \cup DOMAIN cs[i] = Stored(cs) \cup DOMAIN c
               /\ DOMAIN c \subseteq Stored(ds)
<1>. DEFINE ds == [cs EXCEPT ![i] = c]
<1>0. /\ DOMAIN cs = 1 .. Len(cs) /\ Len(cs) \in Nat
      /\ cs \in Seq(Chunks) /\ \A j \in DOMAIN cs : cs[j] \in Chunks
  BY WellFormedFacts
<1>1. ds \in Seq(Chunks) /\ Len(ds) = Len(cs)
  BY <1>0, ReplaceElement
<1>2. DOMAIN ds = DOMAIN cs /\ ds[i] = c /\ \A k \in DOMAIN cs : k # i => ds[k] = cs[k]
  OBVIOUS
<1>. HIDE DEF ds
<1>3. Ordered(ds)
  <2>. SUFFICES ASSUME NEW p \in DOMAIN cs, NEW q \in DOMAIN cs, p < q,
                       NEW t \in DOMAIN ds[p], NEW u \in DOMAIN ds[q]
                PROVE  t < u
    BY <1>2 DEF Ordered
  <2>1. CASE p = i
    <3>1. q # i
      BY <2>1, <1>0
    <3>. QED
      BY <2>1, <3>1, <1>0, <1>2 DEF Below
  <2>2. CASE q = i
    <3>1. p # i
      BY <2>2, <1>0
    <3>. QED
      BY <2>2, <3>1, <1>0, <1>2 DEF Below
  <2>3. CASE p # i /\ q # i
    BY <2>3, <1>2 DEF WellFormed, Ordered
  <2>. QED
    BY <2>1, <2>2, <2>3
<1>4. DOMAIN c \subseteq Stored(ds)
  BY <1>2 DEF Stored
<1>5. Stored(ds) \subseteq Stored(cs) \cup DOMAIN c
  BY <1>2 DEF Stored
<1>6. Stored(cs) \subseteq Stored(ds) \cup DOMAIN cs[i]
  <2>. SUFFICES ASSUME NEW t \in Stored(cs), t \notin DOMAIN cs[i] PROVE t \in Stored(ds)
    OBVIOUS
  <2>1. PICK j \in DOMAIN cs : t \in DOMAIN cs[j]
    BY DEF Stored
  <2>2. j # i /\ j \in DOMAIN ds /\ t \in DOMAIN ds[j]
    BY <2>1, <1>2
  <2>. QED
    BY <2>2 DEF Stored
<1>7. DOMAIN cs[i] \subseteq Stored(cs)
  BY DEF Stored
<1>. QED
  BY Zenon, <1>1, <1>2, <1>3, <1>4, <1>5, <1>6, <1>7 DEF WellFormed, ds
\* The two halves of a split are chunks, in order, that hold exactly the samples of the original.
LEMMA HalvesFacts ==
    ASSUME NEW c \in Chunks, ChunkLen(c) >= 2
    PROVE  /\ LowerHalf(c) \in Chunks /\ UpperHalf(c) \in Chunks
           /\ DOMAIN LowerHalf(c) \cup DOMAIN UpperHalf(c) = DOMAIN c
           /\ Below(LowerHalf(c), UpperHalf(c))
           /\ \A t \in DOMAIN LowerHalf(c) : LowerHalf(c)[t] = c[t]
           /\ \A t \in DOMAIN UpperHalf(c) : UpperHalf(c)[t] = c[t]
<1>. DEFINE D    == DOMAIN c
            h    == ChunkLen(c) \div 2
            L    == {u \in D : RankIn(c, u) < h}
            U    == {u \in D : RankIn(c, u) >= h}
            low  == FirstTimestamp(c)
            high == LastTimestamp(c)
<1>1. /\ IsFiniteSet(D) /\ D \in SUBSET Timestamps /\ Cardinality(D) = ChunkLen(c)
      /\ ChunkLen(c) \in Nat
  BY ChunkFacts DEF ChunkLen
<1>2. Timestamps \subseteq Nat
  BY ConstantsAssumption DEF Timestamps
<1>3. h \in Nat /\ h >= 1 /\ h <= ChunkLen(c) - 1
  BY <1>1
<1>. HIDE DEF h
<1>4. \A t \in D : RankIn(c, t) \in Nat
  BY <1>1, FS_Subset, FS_CardinalityType DEF RankIn
<1>5. low \in L
  <2>1. low \in D /\ \A t \in D : low <= t
    BY ChunkEnds
  <2>. HIDE DEF low
  <2>3. \A u \in D : u \in Nat
    BY Zenon, <1>1, <1>2
  <2>4. \A u \in D : ~(u < low)
    BY <2>1, <2>3
  <2>2. {u \in D : u < low} = {}
    BY <2>4
  <2>5. RankIn(c, low) = 0
    BY <2>2, FS_EmptySet DEF RankIn
  <2>. QED
    BY <2>1, <2>5, <1>3
<1>6. high \in U
  <2>1. high \in D /\ \A t \in D : t <= high
    BY ChunkEnds
  <2>. HIDE DEF high
  <2>5. \A u \in D : u \in Nat
    BY Zenon, <1>1, <1>2
  <2>4. \A u \in D : u < high <=> u # high
    BY <2>1, <2>5
  <2>2. {u \in D : u < high} = D \ {high}
    BY <2>4
  <2>3. RankIn(c, high) = ChunkLen(c) - 1
    BY <2>1, <2>2, <1>1, FS_RemoveElement DEF RankIn
  <2>. QED
    BY <2>1, <2>3, <1>1, <1>3
<1>7. ASSUME NEW t \in L, NEW u \in U PROVE t < u
  <2>. DEFINE A == {v \in D : v < u}
              B == {v \in D : v < t}
  <2>1. t \in Nat /\ u \in Nat /\ D \subseteq Nat
    BY Zenon, <1>1, <1>2
  <2>2. ASSUME u <= t PROVE FALSE
    <3>1. \A v \in A : v \in B
      BY <2>1, <2>2
    <3>2. IsFiniteSet(B) /\ A \in SUBSET B
      BY <3>1, <1>1, FS_Subset
    <3>3. Cardinality(A) <= Cardinality(B)
      BY <3>2, FS_Subset
    <3>4. RankIn(c, u) <= RankIn(c, t)
      BY <3>3 DEF RankIn
    <3>5. RankIn(c, u) \in Nat /\ RankIn(c, t) \in Nat /\ RankIn(c, t) < h /\ RankIn(c, u) >= h
      BY <1>4
    <3>. QED
      BY <3>4, <3>5, <1>3
  <2>. QED
    BY <2>1, <2>2
<1>8. L \cup U = D
  BY <1>3, <1>4
<1>9. LowerHalf(c) = [t \in L |-> c[t]] /\ UpperHalf(c) = [t \in U |-> c[t]]
  BY DEF LowerHalf, UpperHalf, h
<1>10. \A t \in D : c[t] \in Values
  BY ChunkFacts
<1>. HIDE DEF L, U
<1>11. L \in SUBSET Timestamps /\ U \in SUBSET Timestamps
  BY <1>1, <1>8
<1>12. [t \in L |-> c[t]] \in Chunks
  BY <1>5, <1>8, <1>10, <1>11, IsChunk
<1>13. [t \in U |-> c[t]] \in Chunks
  BY <1>6, <1>8, <1>10, <1>11, IsChunk
<1>. QED
  BY <1>7, <1>8, <1>9, <1>12, <1>13 DEF Below

\* An upsert adds one timestamp, or rewrites the value of one already there.
LEMMA ChunkUpsertFacts ==
    ASSUME NEW c \in Chunks, NEW sample \in Samples, NEW policy,
           sample.timestamp \in DOMAIN c =>
               DuplicateValue(policy, c[sample.timestamp], sample.value) \in Values
    PROVE  LET d == ChunkUpsert(c, sample, policy)
           IN  /\ d \in Chunks
               /\ DOMAIN d = DOMAIN c \cup {sample.timestamp}
               /\ ChunkLen(d) = IF sample.timestamp \in DOMAIN c THEN ChunkLen(c)
                                ELSE ChunkLen(c) + 1
               /\ \A t \in DOMAIN c : t # sample.timestamp => d[t] = c[t]
<1>. DEFINE ts == sample.timestamp
            S  == DOMAIN c \cup {ts}
            d  == ChunkUpsert(c, sample, policy)
<1>1. ts \in Timestamps /\ sample.value \in Values
  BY DEF Samples
<1>2. /\ DOMAIN c \in SUBSET Timestamps /\ \A t \in DOMAIN c : c[t] \in Values
      /\ IsFiniteSet(DOMAIN c)
  BY ChunkFacts
<1>3. d \in [S -> Values] /\ \A t \in DOMAIN c : t # ts => d[t] = c[t]
  BY <1>1, <1>2 DEF ChunkUpsert
<1>4. S \in SUBSET Timestamps /\ S # {}
  BY <1>1, <1>2
<1>. HIDE DEF d, S
<1>5. d \in Chunks /\ DOMAIN d = S
  BY <1>3, <1>4, IsChunk
<1>6. Cardinality(S) = IF ts \in DOMAIN c THEN Cardinality(DOMAIN c) ELSE Cardinality(DOMAIN c) + 1
  BY Zenon, <1>2, FS_AddElement DEF S
<1>. QED
  BY <1>3, <1>5, <1>6 DEF ChunkLen, d, S
\* Replacing chunk i by two chunks.
LEMMA SplitAtFacts ==
    ASSUME NEW cs, WellFormed(cs), NEW i \in DOMAIN cs,
           NEW lower \in Chunks, NEW upper \in Chunks, Below(lower, upper),
           \A j \in DOMAIN cs : j < i => Below(cs[j], lower) /\ Below(cs[j], upper),
           \A j \in DOMAIN cs : j > i => Below(lower, cs[j]) /\ Below(upper, cs[j])
    PROVE  LET ds == SplitAt(cs, i, lower, upper)
           IN  /\ WellFormed(ds)
               /\ Len(ds) = Len(cs) + 1
               /\ Stored(ds) \cup DOMAIN cs[i] = Stored(cs) \cup DOMAIN lower \cup DOMAIN upper
               /\ DOMAIN lower \subseteq Stored(ds) /\ DOMAIN upper \subseteq Stored(ds)
               /\ \A k \in 1 .. Len(cs) + 1 :
                    ds[k] = IF k < i THEN cs[k] ELSE IF k = i THEN lower
                            ELSE IF k = i + 1 THEN upper ELSE cs[k - 1]
<1>. DEFINE low == [cs EXCEPT ![i] = lower]
            at  == FirstStartingAfter(low, FirstTimestamp(upper))
            ds  == InsertChunk(low, at, upper)
<1>0. DOMAIN cs = 1 .. Len(cs) /\ Len(cs) \in Nat /\ \A j \in DOMAIN cs : cs[j] \in Chunks
  BY WellFormedFacts
<1>1. /\ WellFormed(low) /\ Len(low) = Len(cs) /\ low[i] = lower
      /\ \A k \in DOMAIN cs : k # i => low[k] = cs[k]
      /\ Stored(low) \cup DOMAIN cs[i] = Stored(cs) \cup DOMAIN lower
      /\ DOMAIN lower \subseteq Stored(low)
  BY ZenonT(30), ReplaceChunkFacts
<1>. HIDE DEF low
<1>2. DOMAIN low = DOMAIN cs
  BY <1>0, <1>1, WellFormedFacts
<1>3. FirstTimestamp(upper) \in Timestamps /\ FirstTimestamp(upper) \in DOMAIN upper
  BY ChunkEnds
<1>4. \A j \in DOMAIN cs : /\ j <= i => Below(low[j], upper)
                           /\ j > i => Below(upper, low[j])
  <2>. SUFFICES ASSUME NEW j \in DOMAIN cs
                PROVE  /\ j <= i => Below(low[j], upper)
                       /\ j > i => Below(upper, low[j])
    OBVIOUS
  <2>1. CASE j = i
    BY <2>1, <1>0, <1>1
  <2>2. CASE j # i
    BY <2>2, <1>0, <1>1
  <2>. QED
    BY <2>1, <2>2
<1>5. \A j \in DOMAIN cs : FirstTimestamp(low[j]) \in DOMAIN low[j] /\ FirstTimestamp(low[j]) \in Nat
  <2>1. \A j \in DOMAIN cs : low[j] \in Chunks
    BY <1>1, <1>2, WellFormedFacts
  <2>. QED
    BY <2>1, ChunkEnds, ConstantsAssumption DEF Timestamps
<1>6. at = i + 1
  <2>1. /\ at \in 1 .. Len(cs) + 1
        /\ \A j \in DOMAIN cs : j < at => FirstTimestamp(low[j]) <= FirstTimestamp(upper)
        /\ at <= Len(cs) => FirstTimestamp(low[at]) > FirstTimestamp(upper)
    BY <1>1, <1>2, <1>3, FirstStartingAfterFacts
  <2>. HIDE DEF at
  <2>2. FirstTimestamp(upper) \in Nat
    BY <1>3, ConstantsAssumption DEF Timestamps
  <2>3. ~(at <= i)
    <3>1. ASSUME at <= i PROVE FALSE
      <4>1. at \in DOMAIN cs /\ at <= Len(cs)
        BY <3>1, <2>1, <1>0
      <4>2. FirstTimestamp(low[at]) < FirstTimestamp(upper)
        BY <4>1, <3>1, <1>3, <1>4, <1>5 DEF Below
      <4>. QED
        BY <4>1, <4>2, <2>1, <2>2, <1>5
    <3>. QED
      BY <3>1
  <2>4. ~(i + 1 < at)
    <3>1. ASSUME i + 1 < at PROVE FALSE
      <4>1. i + 1 \in DOMAIN cs /\ i + 1 > i
        BY <3>1, <2>1, <1>0
      <4>2. FirstTimestamp(upper) < FirstTimestamp(low[i + 1])
        BY <4>1, <1>3, <1>4, <1>5 DEF Below
      <4>3. FirstTimestamp(low[i + 1]) <= FirstTimestamp(upper)
        BY <4>1, <3>1, <2>1
      <4>4. FirstTimestamp(low[i + 1]) \in Nat
        BY SMTT(30), <4>1, <1>5
      <4>. QED
        BY <4>2, <4>3, <4>4, <2>2
    <3>. QED
      BY <3>1
  <2>. QED
    BY <2>1, <2>3, <2>4, <1>0
<1>7. /\ WellFormed(ds) /\ Len(ds) = Len(cs) + 1
      /\ \A k \in 1 .. Len(cs) + 1 :
           ds[k] = IF k < i + 1 THEN low[k] ELSE IF k = i + 1 THEN upper ELSE low[k - 1]
      /\ Stored(ds) = Stored(low) \cup DOMAIN upper
  <2>. HIDE DEF at
  <2>1. at \in 1 .. Len(low) + 1
    BY <1>0, <1>1, <1>6
  <2>2. \A j \in DOMAIN low : j < at => Below(low[j], upper)
    BY <1>0, <1>2, <1>4, <1>6
  <2>3. \A j \in DOMAIN low : j >= at => Below(upper, low[j])
    BY <1>0, <1>2, <1>4, <1>6
  <2>4. /\ WellFormed(ds) /\ Len(ds) = Len(low) + 1
        /\ \A k \in 1 .. Len(low) + 1 :
             ds[k] = IF k < at THEN low[k] ELSE IF k = at THEN upper ELSE low[k - 1]
        /\ Stored(ds) = Stored(low) \cup DOMAIN upper
    BY SMTT(30), <2>1, <2>2, <2>3, <1>1, InsertChunkFacts
  <2>. QED
    BY <2>4, <1>1, <1>6
<1>8. /\ Stored(ds) \cup DOMAIN cs[i] = Stored(cs) \cup DOMAIN lower \cup DOMAIN upper
      /\ DOMAIN lower \subseteq Stored(ds) /\ DOMAIN upper \subseteq Stored(ds)
  <2>. HIDE DEF ds
  <2>. QED
    BY <1>1, <1>7
<1>9. \A k \in 1 .. Len(cs) + 1 :
         ds[k] = IF k < i THEN cs[k] ELSE IF k = i THEN lower
                 ELSE IF k = i + 1 THEN upper ELSE cs[k - 1]
  <2>. SUFFICES ASSUME NEW k \in 1 .. Len(cs) + 1
                PROVE  ds[k] = IF k < i THEN cs[k] ELSE IF k = i THEN lower
                               ELSE IF k = i + 1 THEN upper ELSE cs[k - 1]
    OBVIOUS
  <2>. HIDE DEF ds
  <2>1. CASE k < i
    <3>1. k \in DOMAIN cs /\ k # i /\ k < i + 1
      BY <2>1, <1>0
    <3>2. ds[k] = low[k]
      BY <3>1, <1>7
    <3>. QED
      BY <3>1, <3>2, <2>1, <1>1
  <2>2. CASE k = i
    BY <2>2, <1>0, <1>1, <1>7
  <2>3. CASE k = i + 1
    BY <2>3, <1>0, <1>7
  <2>4. CASE k > i + 1
    <3>1. k - 1 \in DOMAIN cs /\ k - 1 # i /\ ~(k < i + 1) /\ k # i + 1 /\ ~(k < i) /\ k # i
      BY <2>4, <1>0
    <3>2. ds[k] = low[k - 1] /\ low[k - 1] = cs[k - 1]
      BY SMTT(30), <3>1, <1>1, <1>7
    <3>. QED
      BY <3>1, <3>2
  <2>. QED
    BY SMTT(30), <2>1, <2>2, <2>3, <2>4, <1>0
<1>. QED
  BY Zenon, <1>7, <1>8, <1>9 DEF SplitAt, low

\* Cutting a range out of a chunk, and out of some chunks of a list.
LEMMA ChunkRemoveRangeFacts ==
    ASSUME NEW c \in Chunks, NEW start, NEW end
    PROVE  /\ c \in Pieces
           /\ ChunkRemoveRange(c, start, end) \in Pieces
           /\ DOMAIN ChunkRemoveRange(c, start, end) \subseteq DOMAIN c
<1>. DEFINE S == {u \in DOMAIN c : u < start \/ u > end}
<1>1. [t \in S |-> c[t]] \in [S -> Values] /\ S \in SUBSET Timestamps
  BY ChunkFacts
<1>. QED
  BY Zenon, <1>1 DEF Pieces, ChunkRemoveRange, Chunks

LEMMA CutFacts ==
    ASSUME NEW cs, WellFormed(cs), NEW cut \in Seq(Pieces), DOMAIN cut = DOMAIN cs,
           \A i \in DOMAIN cs : DOMAIN cut[i] \subseteq DOMAIN cs[i]
    PROVE  Ordered(cut) /\ Stored(cut) \subseteq Stored(cs)
<1>1. Ordered(cut)
  BY DEF Ordered, WellFormed
<1>2. Stored(cut) \subseteq Stored(cs)
  BY DEF Stored
<1>. QED
  BY <1>1, <1>2

-----------------------------------------------------------------------------
(* What every operation preserves *)

\* The metadata of s describes exactly what its chunks hold.
Described(s) ==
    /\ s.total_samples = Cardinality(Stored(s.chunks))
    /\ s.first_timestamp = IF s.chunks = <<>> THEN 0 ELSE FirstTimestamp(s.chunks[1])
    /\ s.last_sample = IF s.chunks = <<>> THEN None ELSE LastSample(s.chunks[Len(s.chunks)])

SeriesOK(s) == s \in SeriesType /\ Ordered(s.chunks) /\ Described(s)

LEMMA SeriesOKFacts ==
    ASSUME NEW s, SeriesOK(s)
    PROVE  /\ s \in SeriesType
           /\ WellFormed(s.chunks)
           /\ s.total_samples = Cardinality(Stored(s.chunks))
           /\ s.total_samples \in Nat /\ s.retention \in Nat /\ s.first_timestamp \in Timestamps
           /\ s.last_sample = None <=> s.chunks = <<>>
           /\ s.chunks # <<>> =>
                /\ s.first_timestamp \in Stored(s.chunks)
                /\ s.first_timestamp = FirstTimestamp(s.chunks[1])
                /\ s.last_sample \in Samples
                /\ s.last_sample.timestamp \in Stored(s.chunks)
                /\ s.last_sample.timestamp = LastTimestamp(s.chunks[Len(s.chunks)])
                /\ \A t \in Stored(s.chunks) : /\ s.first_timestamp <= t
                                               /\ t <= s.last_sample.timestamp
<1>1. /\ s \in SeriesType /\ s.chunks \in Seq(Chunks) /\ s.total_samples \in Nat
      /\ s.retention \in Nat /\ s.first_timestamp \in Timestamps
  BY DEF SeriesOK, SeriesType
<1>2. WellFormed(s.chunks)
  BY <1>1 DEF SeriesOK, WellFormed
<1>3. ASSUME s.chunks # <<>>
      PROVE  LastSample(s.chunks[Len(s.chunks)]) \in Samples
  <2>1. Len(s.chunks) \in DOMAIN s.chunks
    BY <1>2, <1>3, WellFormedFacts
  <2>. QED
    BY <2>1, <1>2, WellFormedFacts, ChunkEnds
<1>4. s.last_sample = None <=> s.chunks = <<>>
  BY <1>3, ConstantsAssumption DEF SeriesOK, Described
<1>5. ASSUME s.chunks # <<>>
      PROVE  /\ s.last_sample \in Samples
             /\ s.last_sample.timestamp = LastTimestamp(s.chunks[Len(s.chunks)])
             /\ s.first_timestamp = FirstTimestamp(s.chunks[1])
  BY <1>3, <1>5 DEF SeriesOK, Described, LastSample
<1>. QED
  BY <1>1, <1>2, <1>4, <1>5, OrderedEnds DEF SeriesOK, Described

\* update_first_last_timestamps re-establishes the metadata once the count is right.
LEMMA UpdateOK ==
    ASSUME NEW s \in SeriesType, Ordered(s.chunks),
           s.total_samples = Cardinality(Stored(s.chunks))
    PROVE  LET u == UpdateFirstLastTimestamps(s)
           IN  SeriesOK(u) /\ u.chunks = s.chunks /\ u.retention = s.retention
<1>. DEFINE u  == UpdateFirstLastTimestamps(s)
            cs == s.chunks
<1>1. WellFormed(cs)
  BY DEF SeriesType, WellFormed
<1>2. /\ u.chunks = cs /\ u.retention = s.retention /\ u.total_samples = s.total_samples
      /\ u.first_timestamp = IF cs = <<>> THEN 0 ELSE FirstTimestamp(cs[1])
      /\ u.last_sample = IF cs = <<>> THEN None ELSE LastSample(cs[Len(cs)])
  BY DEF UpdateFirstLastTimestamps, SeriesType
<1>3. 0 \in Timestamps
  BY ConstantsAssumption DEF Timestamps
<1>4. cs # <<>> => FirstTimestamp(cs[1]) \in Timestamps /\ LastSample(cs[Len(cs)]) \in Samples
  BY <1>1, WellFormedFacts, ChunkEnds
<1>5. u \in SeriesType
  BY Zenon, <1>3, <1>4 DEF UpdateFirstLastTimestamps, SeriesType
<1>. HIDE DEF u
<1>. QED
  BY <1>2, <1>5 DEF SeriesOK, Described, u

LEMMA FloorType ==
    ASSUME NEW s, SeriesOK(s)
    PROVE  GetMinTimestamp(s) \in Timestamps
<1>1. s.retention \in Nat /\ s.first_timestamp \in Timestamps
  BY SeriesOKFacts
<1>2. s.last_sample # None => s.last_sample.timestamp \in Timestamps
  BY SeriesOKFacts DEF Samples
<1>. QED
  BY <1>1, <1>2, ConstantsAssumption DEF GetMinTimestamp, Timestamps

-----------------------------------------------------------------------------
(* Trimming and deleting *)

\* A trim keeps the invariant, removes only expired samples, all of them when forced, and does
\* not move the newest sample of a series with retention.
LEMMA TrimExpiredOK ==
    ASSUME NEW s, SeriesOK(s), NEW force \in BOOLEAN
    PROVE  LET u == TrimExpired(s, force)
           IN  /\ SeriesOK(u)
               /\ u.retention = s.retention
               /\ Stored(u.chunks) \subseteq Stored(s.chunks)
               /\ \A t \in Stored(s.chunks) : t >= GetMinTimestamp(s) => t \in Stored(u.chunks)
               /\ force => \A t \in Stored(u.chunks) : t >= GetMinTimestamp(s)
<1>. DEFINE min     == GetMinTimestamp(s)
            cs      == TrimmedChunks(s.chunks, min, force)
            deleted == SampleCount(s.chunks) - SampleCount(cs)
            trimmed == [s EXCEPT !.chunks = cs, !.total_samples = @ - deleted]
            u       == TrimExpired(s, force)
<1>1. min \in Timestamps /\ WellFormed(s.chunks) /\ s \in SeriesType
  BY FloorType, SeriesOKFacts
<1>2. /\ WellFormed(cs) /\ Stored(cs) \subseteq Stored(s.chunks)
      /\ \A t \in Stored(s.chunks) : t >= min => t \in Stored(cs)
      /\ force => \A t \in Stored(cs) : t >= min
      /\ cs = s.chunks \/ Stored(cs) # Stored(s.chunks)
  BY <1>1, TrimmedChunksFacts
<1>3. u = IF s.first_timestamp >= min THEN s
          ELSE IF deleted > 0 THEN UpdateFirstLastTimestamps(trimmed)
          ELSE trimmed
  BY DEF TrimExpired
<1>. HIDE DEF min, cs
<1>4. CASE s.first_timestamp >= min
  <2>1. u = s
    BY <1>3, <1>4
  <2>2. \A t \in Stored(s.chunks) : t >= min
    <3>. SUFFICES ASSUME NEW t \in Stored(s.chunks) PROVE t >= min
      OBVIOUS
    <3>1. s.chunks # <<>>
      BY <1>1, OrderedEnds
    <3>2. s.first_timestamp <= t
      BY <3>1, SeriesOKFacts
    <3>3. t \in Nat /\ min \in Nat /\ s.first_timestamp \in Nat
      BY <1>1, CountStored, SeriesOKFacts, ConstantsAssumption DEF Timestamps
    <3>. QED
      BY <3>2, <3>3, <1>4
  <2>. QED
    BY <2>1, <2>2 DEF min
<1>5. CASE ~(s.first_timestamp >= min)
  <2>0. /\ IsFiniteSet(Stored(s.chunks)) /\ IsFiniteSet(Stored(cs))
        /\ SampleCount(s.chunks) = Cardinality(Stored(s.chunks)) /\ SampleCount(s.chunks) \in Nat
        /\ SampleCount(cs) = Cardinality(Stored(cs)) /\ SampleCount(cs) \in Nat
        /\ s.total_samples = Cardinality(Stored(s.chunks))
    BY <1>1, <1>2, CountStored, SeriesOKFacts
  <2>1. /\ Cardinality(Stored(cs)) <= Cardinality(Stored(s.chunks))
        /\ Cardinality(Stored(cs)) = Cardinality(Stored(s.chunks)) => Stored(cs) = Stored(s.chunks)
    BY <2>0, <1>2, FS_Subset
  <2>2. s.total_samples - deleted = Cardinality(Stored(cs))
    BY <2>0
  <2>3. /\ trimmed \in SeriesType /\ trimmed.chunks = cs /\ trimmed.retention = s.retention
        /\ trimmed.total_samples = Cardinality(Stored(cs))
        /\ trimmed.first_timestamp = s.first_timestamp /\ trimmed.last_sample = s.last_sample
    <3>1. cs \in Seq(Chunks)
      BY <1>2 DEF WellFormed
    <3>2. trimmed = [s EXCEPT !.chunks = cs, !.total_samples = Cardinality(Stored(cs))]
      BY Zenon, <2>2, <1>1 DEF SeriesType
    <3>3. Cardinality(Stored(cs)) \in Nat
      BY <2>0
    <3>. HIDE DEF trimmed
    <3>. QED
      BY Zenon, <3>1, <3>2, <3>3, <1>1 DEF SeriesType
  <2>4. CASE deleted > 0
    <3>1. u = UpdateFirstLastTimestamps(trimmed)
      BY <2>4, <1>3, <1>5
    <3>2. Ordered(trimmed.chunks)
      BY <2>3, <1>2 DEF WellFormed
    <3>. HIDE DEF trimmed, u
    <3>3. SeriesOK(u) /\ u.chunks = cs /\ u.retention = s.retention
      BY <3>1, <3>2, <2>3, UpdateOK
    <3>. QED
      BY <3>3, <1>2 DEF u, min
  <2>5. CASE ~(deleted > 0)
    <3>1. u = trimmed
      BY <2>5, <1>3, <1>5
    <3>2. cs = s.chunks
      BY <2>5, <2>0, <2>1, <1>2
    <3>. HIDE DEF trimmed, u
    <3>3. SeriesOK(u)
      BY <3>1, <3>2, <2>3 DEF SeriesOK, Described
    <3>. QED
      BY <3>1, <3>2, <3>3, <2>3, <1>2 DEF u, min
  <2>. QED
    BY <2>4, <2>5
<1>. QED
  BY <1>4, <1>5
LEMMA MaxOfTwo ==
    ASSUME NEW a \in Nat, NEW b \in Nat
    PROVE  MaxOf({a, b}) = IF a <= b THEN b ELSE a
<1>1. {a, b} \in SUBSET (0 .. a + b) /\ {a, b} # {} /\ a + b \in Nat
  OBVIOUS
<1>2. MaxOf({a, b}) \in {a, b} /\ \A y \in {a, b} : y <= MaxOf({a, b})
  BY <1>1, MaxOfBounded
<1>. QED
  BY <1>2

LEMMA MinOfTwo ==
    ASSUME NEW a \in Nat, NEW b \in Nat
    PROVE  MinOf({a, b}) = IF a <= b THEN a ELSE b
<1>1. MinOf({a, b}) \in {a, b} /\ \A y \in {a, b} : MinOf({a, b}) <= y
  BY MinOfNaturals
<1>. QED
  BY <1>1

\* TS.DEL keeps the invariant and only removes; with retention it leaves nothing expired.
LEMMA RemoveRangeOK ==
    ASSUME NEW s, SeriesOK(s), NEW start \in Timestamps, NEW end \in Timestamps
    PROVE  LET u == RemoveRange(s, start, end)
           IN  /\ SeriesOK(u)
               /\ u.retention = s.retention
               /\ Stored(u.chunks) \subseteq Stored(s.chunks)
               /\ u = s \/ s.retention = 0 \/ \A t \in Stored(u.chunks) : t >= GetMinTimestamp(s)
<1>. DEFINE base   == IF s.retention = 0 THEN s ELSE Trim(s)
            from   == IF s.retention = 0 THEN start ELSE MaxOf({start, GetMinTimestamp(base)})
            bounds == GetChunkIndexBounds(base.chunks, from, end)
            cut    == [i \in DOMAIN base.chunks |->
                          IF bounds[1] <= i /\ i <= bounds[2]
                            THEN ChunkRemoveRange(base.chunks[i], from, end)
                            ELSE base.chunks[i]]
            count  == SampleCount(base.chunks) - SampleCount(cut)
            left   == [base EXCEPT !.chunks = RetainNonEmpty(cut),
                                   !.total_samples = MaxOf({0, @ - count})]
            u      == RemoveRange(s, start, end)
<1>1. /\ SeriesOK(base) /\ base.retention = s.retention
      /\ Stored(base.chunks) \subseteq Stored(s.chunks)
      /\ s.retention = 0 \/ \A t \in Stored(base.chunks) : t >= GetMinTimestamp(s)
  <2>1. CASE s.retention = 0
    BY <2>1
  <2>2. CASE s.retention # 0
    BY Zenon, <2>2, TrimExpiredOK DEF Trim
  <2>. QED
    BY <2>1, <2>2
<1>2. u = IF start > end THEN s
          ELSE IF from > end \/ bounds = None THEN base
          ELSE UpdateFirstLastTimestamps(left)
  BY DEF RemoveRange
<1>. HIDE DEF base
<1>3. from \in Nat /\ end \in Nat
  <2>1. start \in Nat /\ end \in Nat /\ GetMinTimestamp(base) \in Nat
    BY <1>1, FloorType, ConstantsAssumption DEF Timestamps
  <2>. QED
    BY <2>1, MaxOfTwo
<1>. HIDE DEF from, bounds
<1>4. WellFormed(base.chunks) /\ base \in SeriesType
  BY <1>1, SeriesOKFacts
<1>5. cut \in Seq(Pieces) /\ Ordered(cut) /\ Stored(cut) \subseteq Stored(base.chunks)
  <2>. DEFINE cs == base.chunks
  <2>0. DOMAIN cs = 1 .. Len(cs) /\ Len(cs) \in Nat /\ \A i \in DOMAIN cs : cs[i] \in Chunks
    BY <1>4, WellFormedFacts
  <2>1. DOMAIN cut = DOMAIN cs /\ \A i \in DOMAIN cs : cut[i] \in {ChunkRemoveRange(cs[i], from, end), cs[i]}
    OBVIOUS
  <2>2. \A i \in DOMAIN cs : cut[i] \in Pieces /\ DOMAIN cut[i] \subseteq DOMAIN cs[i]
    BY <2>0, <2>1, ChunkRemoveRangeFacts
  <2>3. cut = [i \in 1 .. Len(cs) |-> cut[i]]
    BY <2>0
  <2>. HIDE DEF cut, cs
  <2>4. cut \in Seq(Pieces)
    BY <2>0, <2>2, <2>3
  <2>5. Ordered(cut) /\ Stored(cut) \subseteq Stored(cs)
    BY <2>1, <2>2, <2>4, <1>4, CutFacts DEF cs
  <2>. QED
    BY <2>4, <2>5 DEF cs
<1>. HIDE DEF cut
<1>6. WellFormed(RetainNonEmpty(cut)) /\ Stored(RetainNonEmpty(cut)) = Stored(cut)
  BY <1>5, RetainNonEmptyFacts
<1>7. base.total_samples - count = Cardinality(Stored(cut)) /\ Cardinality(Stored(cut)) \in Nat
  <2>1. SampleCount(cut) = Cardinality(Stored(cut)) /\ SampleCount(cut) \in Nat
    BY <1>5, CountPieces
  <2>2. SampleCount(base.chunks) = base.total_samples /\ SampleCount(base.chunks) \in Nat
    BY <1>1, <1>4, CountStored, SeriesOKFacts
  <2>. QED
    BY <2>1, <2>2
<1>8. MaxOf({0, base.total_samples - count}) = Cardinality(Stored(cut))
  BY <1>7, MaxOfTwo
<1>9. /\ left \in SeriesType /\ left.chunks = RetainNonEmpty(cut)
      /\ left.retention = base.retention
      /\ left.total_samples = Cardinality(Stored(left.chunks))
  <2>1. left = [base EXCEPT !.chunks = RetainNonEmpty(cut),
                            !.total_samples = Cardinality(Stored(cut))]
    BY Zenon, <1>4, <1>8 DEF SeriesType
  <2>2. RetainNonEmpty(cut) \in Seq(Chunks)
    BY <1>6 DEF WellFormed
  <2>. HIDE DEF left
  <2>3. left \in SeriesType
    BY Zenon, <2>1, <2>2, <1>4, <1>7 DEF SeriesType
  <2>4. left.chunks = RetainNonEmpty(cut) /\ left.total_samples = Cardinality(Stored(cut))
        /\ left.retention = base.retention
    BY <2>1, <1>4 DEF SeriesType
  <2>. QED
    BY <2>3, <2>4, <1>6
<1>. HIDE DEF left, u
<1>10. CASE start > end
  BY <1>2, <1>10 DEF u
<1>11. CASE ~(start > end) /\ (from > end \/ bounds = None)
  BY <1>1, <1>2, <1>11 DEF u
<1>12. CASE ~(start > end) /\ ~(from > end \/ bounds = None)
  <2>1. u = UpdateFirstLastTimestamps(left)
    BY <1>2, <1>12
  <2>2. Ordered(left.chunks)
    BY <1>6, <1>9 DEF WellFormed
  <2>3. SeriesOK(u) /\ u.chunks = left.chunks /\ u.retention = s.retention
    BY <2>1, <2>2, <1>1, <1>9, UpdateOK
  <2>4. Stored(u.chunks) \subseteq Stored(base.chunks)
    BY <2>3, <1>5, <1>6, <1>9
  <2>. QED
    BY <2>3, <2>4, <1>1 DEF u
<1>. QED
  BY <1>10, <1>11, <1>12

LEMMA ApplyRetentionOK ==
    ASSUME NEW s, SeriesOK(s)
    PROVE  LET u == ApplyRetention(s)
           IN  /\ SeriesOK(u)
               /\ u.retention = s.retention
               /\ Stored(u.chunks) \subseteq Stored(s.chunks)
               /\ \A t \in Stored(s.chunks) : t >= GetMinTimestamp(s) => t \in Stored(u.chunks)
<1>1. CASE s.retention = 0
  BY <1>1 DEF ApplyRetention
<1>2. CASE s.retention # 0
  BY Zenon, <1>2, TrimExpiredOK DEF ApplyRetention
<1>. QED
  BY <1>1, <1>2

-----------------------------------------------------------------------------
(* The chunk searches *)

\* The greatest element of a non-empty set of naturals up to n.
LEMMA MaxUpTo ==
    ASSUME NEW n \in Nat, NEW S \in SUBSET Nat, S # {}, \A x \in S : x <= n
    PROVE  MaxOf(S) \in S /\ \A y \in S : y <= MaxOf(S)
<1>1. S \in SUBSET (0 .. n)
  OBVIOUS
<1>. QED
  BY Zenon, <1>1, MaxOfBounded

LEMMA FindStartFacts ==
    ASSUME NEW cs, WellFormed(cs), NEW ts \in Timestamps
    PROVE  LET first == FindStartChunkIndex(cs, ts)
           IN  /\ first \in 1 .. Len(cs) + 1
               /\ \A i \in DOMAIN cs : i < first => LastTimestamp(cs[i]) < ts
<1>0. DOMAIN cs = 1 .. Len(cs) /\ Len(cs) \in Nat /\ (cs # <<>> <=> Len(cs) > 0)
  BY WellFormedFacts
<1>1. CASE cs # <<>> /\ ts <= FirstTimestamp(cs[1])
  BY <1>0, <1>1 DEF FindStartChunkIndex
<1>2. CASE ~(cs # <<>> /\ ts <= FirstTimestamp(cs[1]))
  BY <1>0, <1>2, FirstReachingFacts DEF FindStartChunkIndex
<1>. QED
  BY <1>1, <1>2

\* Both ways find_last_ge_index searches: no chunk from `from` on that holds a timestamp up to ts
\* lies after the answer.
LEMMA FindLastFacts ==
    ASSUME NEW cs, WellFormed(cs), NEW ts \in Timestamps, NEW from \in DOMAIN cs
    PROVE  LET last == FindLastGeIndex(cs, from, ts)
           IN  /\ last \in Nat
               /\ \A i \in DOMAIN cs : i >= from /\ (\E t \in DOMAIN cs[i] : t <= ts) => i <= last
<1>. DEFINE A == {from} \cup {i \in from .. Len(cs) : FirstTimestamp(cs[i]) <= ts}
            B == {i \in from .. Len(cs) : LastTimestamp(cs[i]) >= ts} \cup {Len(cs) + 1}
            last == FindLastGeIndex(cs, from, ts)
<1>0. /\ DOMAIN cs = 1 .. Len(cs) /\ Len(cs) \in Nat /\ from \in Nat
      /\ \A i \in DOMAIN cs : cs[i] \in Chunks
  BY WellFormedFacts
<1>1. \A i \in DOMAIN cs : /\ FirstTimestamp(cs[i]) \in Nat /\ LastTimestamp(cs[i]) \in Nat
                           /\ DOMAIN cs[i] \in SUBSET Nat
                           /\ \A t \in DOMAIN cs[i] : FirstTimestamp(cs[i]) <= t /\ t <= LastTimestamp(cs[i])
                           /\ LastTimestamp(cs[i]) \in DOMAIN cs[i]
  BY <1>0, ChunkEnds, ChunkFacts, ConstantsAssumption DEF Timestamps
<1>2. ts \in Nat
  BY ConstantsAssumption DEF Timestamps
<1>3. CASE Len(cs) - from + 1 <= LinearScanMax
  <2>1. last = MaxOf(A)
    BY <1>3 DEF FindLastGeIndex
  <2>2. A \in SUBSET Nat /\ A # {} /\ \A x \in A : x <= Len(cs)
    BY <1>0
  <2>3. MaxOf(A) \in A /\ \A y \in A : y <= MaxOf(A)
    BY Zenon, <1>0, <2>2, MaxUpTo
  <2>4. ASSUME NEW i \in DOMAIN cs, i >= from, NEW t \in DOMAIN cs[i], t <= ts PROVE i \in A
    <3>1. FirstTimestamp(cs[i]) <= ts
      BY <1>1, <1>2, <2>4
    <3>. QED
      BY <1>0, <2>4, <3>1
  <2>. HIDE DEF A
  <2>. QED
    BY Zenon, <2>1, <2>2, <2>3, <2>4
<1>4. CASE ~(Len(cs) - from + 1 <= LinearScanMax)
  <2>1. last = MinOf(B)
    BY <1>4 DEF FindLastGeIndex
  <2>2. B \in SUBSET Nat /\ B # {}
    BY <1>0
  <2>3. MinOf(B) \in B
    BY Zenon, <2>2, MinOfNaturals
  <2>4. ASSUME NEW i \in DOMAIN cs, NEW t \in DOMAIN cs[i], t <= ts, NEW j \in B PROVE i <= j
    <3>1. CASE j = Len(cs) + 1
      BY <1>0, <3>1
    <3>2. CASE j \in DOMAIN cs /\ LastTimestamp(cs[j]) >= ts
      <4>1. ASSUME j < i PROVE FALSE
        <5>1. LastTimestamp(cs[j]) < t
          BY <1>1, <3>2, <4>1 DEF WellFormed, Ordered
        <5>2. t \in Nat /\ LastTimestamp(cs[j]) \in Nat
          BY <1>1, <3>2
        <5>. QED
          BY <1>2, <2>4, <3>2, <5>1, <5>2
      <4>. QED
        BY <1>0, <3>2, <4>1
    <3>. QED
      BY <1>0, <3>1, <3>2
  <2>. HIDE DEF B
  <2>. QED
    BY Zenon, <2>1, <2>2, <2>3, <2>4
<1>. QED
  BY <1>3, <1>4

\* get_chunk_index_bounds names every chunk that holds a sample of the range.
LEMMA BoundsFacts ==
    ASSUME NEW cs, WellFormed(cs), NEW start \in Timestamps, NEW end \in Timestamps
    PROVE  LET b == GetChunkIndexBounds(cs, start, end)
           IN  /\ b = None =>
                     \A i \in DOMAIN cs : \A t \in DOMAIN cs[i] : ~(start <= t /\ t <= end)
               /\ b # None =>
                     /\ b[1] \in 1 .. Len(cs) /\ b[2] \in 0 .. Len(cs)
                     /\ \A i \in DOMAIN cs : \A t \in DOMAIN cs[i] :
                           start <= t /\ t <= end => b[1] <= i /\ i <= b[2]
<1>. DEFINE first == FindStartChunkIndex(cs, start)
            far   == FindLastGeIndex(cs, first, end)
            last  == MinOf({far, Len(cs)})
            b     == GetChunkIndexBounds(cs, start, end)
            none  == \/ cs = <<>> \/ start > end
                     \/ first > Len(cs)
                     \/ first = last /\ FirstTimestamp(cs[first]) > end
<1>0. /\ DOMAIN cs = 1 .. Len(cs) /\ Len(cs) \in Nat /\ (cs # <<>> <=> Len(cs) > 0)
      /\ \A i \in DOMAIN cs : cs[i] \in Chunks
  BY WellFormedFacts
<1>1. start \in Nat /\ end \in Nat
  BY ConstantsAssumption DEF Timestamps
<1>2. \A i \in DOMAIN cs : /\ DOMAIN cs[i] \in SUBSET Nat
                           /\ FirstTimestamp(cs[i]) \in Nat /\ LastTimestamp(cs[i]) \in Nat
                           /\ \A t \in DOMAIN cs[i] : FirstTimestamp(cs[i]) <= t /\ t <= LastTimestamp(cs[i])
  BY <1>0, ChunkEnds, ChunkFacts, ConstantsAssumption DEF Timestamps
<1>3. b = IF none THEN None ELSE <<first, last>>
  BY DEF GetChunkIndexBounds
<1>4. first \in 1 .. Len(cs) + 1 /\ \A i \in DOMAIN cs : i < first => LastTimestamp(cs[i]) < start
  BY FindStartFacts
<1>. HIDE DEF first
<1>5. ASSUME NEW i \in DOMAIN cs, NEW t \in DOMAIN cs[i], start <= t, t <= end
      PROVE  first <= i
  <2>1. ASSUME i < first PROVE FALSE
    <3>1. LastTimestamp(cs[i]) < start /\ t <= LastTimestamp(cs[i]) /\ t \in Nat /\ LastTimestamp(cs[i]) \in Nat
      BY <1>2, <1>4, <2>1
    <3>. QED
      BY <1>1, <1>5, <3>1
  <2>. QED
    BY <1>0, <1>4, <2>1
<1>6. ASSUME first <= Len(cs)
      PROVE  /\ last \in 0 .. Len(cs)
             /\ \A i \in DOMAIN cs : \A t \in DOMAIN cs[i] : start <= t /\ t <= end => i <= last
  <2>1. first \in DOMAIN cs
    BY <1>0, <1>4, <1>6
  <2>2. /\ far \in Nat
        /\ \A i \in DOMAIN cs : i >= first /\ (\E t \in DOMAIN cs[i] : t <= end) => i <= far
    BY <2>1, FindLastFacts
  <2>. HIDE DEF far
  <2>3. last = IF far <= Len(cs) THEN far ELSE Len(cs)
    BY <1>0, <2>2, MinOfTwo
  <2>4. ASSUME NEW i \in DOMAIN cs, NEW t \in DOMAIN cs[i], start <= t, t <= end PROVE i <= far
    <3>1. first <= i
      BY <1>5, <2>4
    <3>2. i >= first
      BY <1>0, <1>4, <3>1
    <3>. QED
      BY <2>2, <2>4, <3>2
  <2>5. last \in 0 .. Len(cs)
    BY <1>0, <2>2, <2>3
  <2>6. ASSUME NEW i \in DOMAIN cs, NEW t \in DOMAIN cs[i], start <= t, t <= end PROVE i <= last
    <3>1. i <= far /\ i <= Len(cs)
      BY <1>0, <2>4, <2>6
    <3>. QED
      BY <2>3, <3>1
  <2>. HIDE DEF last
  <2>. QED
    BY <2>5, <2>6
<1>. HIDE DEF last
<1>7. CASE none
  <2>. SUFFICES ASSUME NEW i \in DOMAIN cs, NEW t \in DOMAIN cs[i], start <= t, t <= end
                PROVE  FALSE
    <3>1. b = None
      BY <1>3, <1>7
    <3>. QED
      BY <3>1
  <2>1. first <= i /\ t \in Nat /\ cs # <<>> /\ first <= Len(cs) /\ ~(start > end)
    BY <1>0, <1>1, <1>2, <1>4, <1>5
  <2>2. ~(first > Len(cs))
    BY <1>0, <1>4, <2>1
  <2>3. first = last /\ FirstTimestamp(cs[first]) > end
    BY <1>7, <2>1, <2>2
  <2>4. i <= last
    BY <1>6, <2>1
  <2>5. i = first
    BY <1>0, <1>4, <2>1, <2>3, <2>4
  <2>6. FirstTimestamp(cs[i]) <= t /\ FirstTimestamp(cs[i]) \in Nat
    BY <1>2
  <2>. QED
    BY <1>1, <2>1, <2>3, <2>5, <2>6
<1>8. CASE ~none
  <2>1. b = <<first, last>>
    BY <1>3, <1>8
  <2>2. first <= Len(cs) /\ first \in 1 .. Len(cs)
    BY <1>0, <1>4, <1>8
  <2>3. /\ last \in 0 .. Len(cs)
        /\ \A i \in DOMAIN cs : \A t \in DOMAIN cs[i] : start <= t /\ t <= end => i <= last
    BY <1>6, <2>2
  <2>4. b[1] = first /\ b[2] = last
    BY <2>1
  <2>5. <<first, last>> \in Nat \X Nat
    BY <1>0, <2>2, <2>3
  <2>6. b # None
    BY <2>1, <2>5, ConstantsAssumption
  <2>. HIDE DEF none
  <2>7. \A i \in DOMAIN cs : \A t \in DOMAIN cs[i] : start <= t /\ t <= end => first <= i
    BY <1>5
  <2>. QED
    BY <2>2, <2>3, <2>4, <2>6, <2>7
<1>. QED
  BY <1>7, <1>8

-----------------------------------------------------------------------------
(* Appends *)

\* How many samples are stored once a timestamp is added.
LEMMA StoredAfterAdd ==
    ASSUME NEW s, SeriesOK(s), NEW ts \in Timestamps
    PROVE  Cardinality(Stored(s.chunks) \cup {ts}) =
               IF ts \in Stored(s.chunks) THEN s.total_samples ELSE s.total_samples + 1
<1>1. s.total_samples = Cardinality(Stored(s.chunks)) /\ IsFiniteSet(Stored(s.chunks))
  BY SeriesOKFacts, CountStored
<1>. QED
  BY <1>1, FS_AddElement

\* An append after the newest sample keeps the invariant, whether or not it opens a chunk.
LEMMA AddSampleInternalOK ==
    ASSUME NEW s, SeriesOK(s), NEW sample \in Samples, NEW full \in BOOLEAN,
           s.last_sample # None => s.last_sample.timestamp < sample.timestamp
    PROVE  LET u == AddSampleInternal(s, sample, full)
           IN  /\ SeriesOK(u)
               /\ u.retention = s.retention
               /\ Stored(u.chunks) = Stored(s.chunks) \cup {sample.timestamp}
<1>. DEFINE old  == s.chunks
            n    == Len(old)
            ts   == sample.timestamp
            unit == [t \in {ts} |-> sample.value]
            cs   == IF n = 0 \/ full
                      THEN InsertChunk(old, n + 1, unit)
                      ELSE [old EXCEPT ![n] = ChunkUpsert(@, sample, "last")]
            u    == AddSampleInternal(s, sample, full)
<1>0. /\ WellFormed(old) /\ DOMAIN old = 1 .. n /\ n \in Nat /\ s \in SeriesType
      /\ \A i \in DOMAIN old : old[i] \in Chunks
      /\ old # <<>> <=> n > 0
  BY SeriesOKFacts, WellFormedFacts
<1>. HIDE DEF n, old
<1>1. ts \in Timestamps /\ sample.value \in Values /\ ts \in Nat
  BY ConstantsAssumption DEF Samples, Timestamps
<1>2. \A t \in Stored(old) : t < ts
  <2>. SUFFICES ASSUME NEW t \in Stored(old) PROVE t < ts
    OBVIOUS
  <2>1. old # <<>>
    BY <1>0, OrderedEnds
  <2>2. t <= s.last_sample.timestamp /\ s.last_sample.timestamp < ts
    BY <2>1, SeriesOKFacts DEF old
  <2>3. t \in Nat /\ s.last_sample.timestamp \in Nat
    BY <2>1, <1>0, SeriesOKFacts, CountStored, ConstantsAssumption DEF Timestamps, old
  <2>. QED
    BY <2>2, <2>3, <1>1
<1>3. unit \in Chunks /\ DOMAIN unit = {ts} /\ unit[ts] = sample.value
  BY <1>1, IsChunk
<1>. HIDE DEF unit
<1>4. \A i \in DOMAIN old : Below(old[i], unit)
  BY <1>2, <1>3 DEF Below, Stored
<1>5. /\ WellFormed(cs) /\ Stored(cs) = Stored(old) \cup {ts} /\ cs # <<>>
      /\ LastSample(cs[Len(cs)]) = sample
      /\ old # <<>> => FirstTimestamp(cs[1]) = FirstTimestamp(old[1])
      /\ old = <<>> => FirstTimestamp(cs[1]) = ts
  <2>1. CASE n = 0 \/ full
    <3>1. cs = InsertChunk(old, n + 1, unit)
      BY <2>1
    <3>. HIDE DEF cs
    <3>2. n + 1 \in 1 .. Len(old) + 1 /\ n = Len(old)
      BY <1>0 DEF n
    <3>3. \A i \in DOMAIN old : i < n + 1 => Below(old[i], unit)
      BY <1>4
    <3>9. \A i \in DOMAIN old : i >= n + 1 => Below(unit, old[i])
      BY <1>0
    <3>4. /\ WellFormed(cs) /\ Len(cs) = n + 1 /\ Stored(cs) = Stored(old) \cup DOMAIN unit
          /\ \A k \in 1 .. n + 1 : cs[k] = IF k < n + 1 THEN old[k]
                                           ELSE IF k = n + 1 THEN unit ELSE old[k - 1]
      <4>. DEFINE ds == InsertChunk(old, n + 1, unit)
      <4>1. /\ WellFormed(ds) /\ Len(ds) = Len(old) + 1 /\ Stored(ds) = Stored(old) \cup DOMAIN unit
            /\ \A k \in 1 .. Len(old) + 1 : ds[k] = IF k < n + 1 THEN old[k]
                                                 ELSE IF k = n + 1 THEN unit ELSE old[k - 1]
        <5>1. WellFormed(old) /\ n + 1 \in 1 .. Len(old) + 1 /\ unit \in Chunks
          BY <3>2, <1>0, <1>3
        <5>. QED
          BY <5>1, <3>3, <3>9, InsertChunkFacts
      <4>. QED
        BY <4>1, <3>1, <3>2
    <3>5. cs[n + 1] = unit /\ (n > 0 => cs[1] = old[1])
      BY <3>4, <1>0
    <3>6. FirstTimestamp(unit) = ts /\ LastTimestamp(unit) = ts
      BY <1>3, ChunkEnds
    <3>7. LastSample(unit) = sample
      BY <3>6, <1>3 DEF LastSample, Samples
    <3>8. cs # <<>>
      BY <3>4, <1>0, WellFormedFacts
    <3>. QED
      BY <3>4, <3>5, <3>6, <3>7, <3>8, <1>0, <1>3
  <2>2. CASE ~(n = 0 \/ full)
    <3>. DEFINE d == ChunkUpsert(old[n], sample, "last")
    <3>0. n \in DOMAIN old /\ old[n] \in Chunks
      BY <2>2, <1>0
    <3>1. cs = [old EXCEPT ![n] = d]
      BY <2>2
    <3>. HIDE DEF cs
    <3>2. ts \notin DOMAIN old[n] /\ \A t \in DOMAIN old[n] : t < ts
      <4>1. \A t \in DOMAIN old[n] : t < ts
        BY <3>0, <1>2 DEF Stored
      <4>2. ~(ts < ts)
        BY <1>1
      <4>. QED
        BY <4>1, <4>2
    <3>3. d \in Chunks /\ DOMAIN d = DOMAIN old[n] \cup {ts}
      BY Zenon, <3>0, <3>2, ChunkUpsertFacts
    <3>4. d[ts] = sample.value
      BY <3>2 DEF ChunkUpsert
    <3>. HIDE DEF d
    <3>5. \A j \in DOMAIN old : j < n => Below(old[j], d)
      <4>. SUFFICES ASSUME NEW j \in DOMAIN old, j < n,
                           NEW t \in DOMAIN old[j], NEW v \in DOMAIN d
                    PROVE  t < v
        BY DEF Below
      <4>1. CASE v = ts
        BY <4>1, <1>2 DEF Stored
      <4>2. CASE v \in DOMAIN old[n]
        BY <4>2, <3>0, <1>0 DEF WellFormed, Ordered
      <4>. QED
        BY <4>1, <4>2, <3>3
    <3>6. \A j \in DOMAIN old : j > n => Below(d, old[j])
      BY <1>0
    <3>7. /\ WellFormed(cs) /\ Len(cs) = n /\ cs[n] = d
          /\ \A k \in DOMAIN old : k # n => cs[k] = old[k]
          /\ Stored(cs) \cup DOMAIN old[n] = Stored(old) \cup DOMAIN d
          /\ DOMAIN d \subseteq Stored(cs)
      <4>. DEFINE ds == [old EXCEPT ![n] = d]
      <4>1. /\ WellFormed(ds) /\ Len(ds) = Len(old) /\ ds[n] = d
            /\ \A k \in DOMAIN old : k # n => ds[k] = old[k]
            /\ Stored(ds) \cup DOMAIN old[n] = Stored(old) \cup DOMAIN d
            /\ DOMAIN d \subseteq Stored(ds)
        <5>1. WellFormed(old) /\ n \in DOMAIN old /\ d \in Chunks
          BY <3>0, <3>3, <1>0
        <5>. QED
          BY ZenonT(30), <5>1, <3>5, <3>6, ReplaceChunkFacts
      <4>. QED
        BY Zenon, <4>1, <3>1 DEF n
    <3>8. Stored(cs) = Stored(old) \cup {ts}
      <4>1. DOMAIN old[n] \subseteq Stored(old)
        BY <3>0 DEF Stored
      <4>. QED
        BY <4>1, <3>3, <3>7
    <3>9. LastTimestamp(d) = ts
      <4>1. LastTimestamp(d) \in DOMAIN d /\ ts <= LastTimestamp(d)
        BY <3>3, ChunkEnds
      <4>2. LastTimestamp(d) \in Nat
        BY <3>3, ChunkEnds, ConstantsAssumption DEF Timestamps
      <4>. QED
        BY <4>1, <4>2, <3>2, <3>3, <1>1
    <3>10. LastSample(d) = sample
      BY <3>4, <3>9 DEF LastSample, Samples
    <3>11. FirstTimestamp(cs[1]) = FirstTimestamp(old[1])
      <4>1. CASE n = 1
        <5>1. FirstTimestamp(old[1]) \in DOMAIN old[1] /\ FirstTimestamp(d) \in DOMAIN d
          BY <4>1, <3>0, <3>3, ChunkEnds
        <5>2. /\ \A t \in DOMAIN d : FirstTimestamp(d) <= t
              /\ \A t \in DOMAIN old[1] : FirstTimestamp(old[1]) <= t
          BY <4>1, <3>0, <3>3, ChunkEnds
        <5>3. FirstTimestamp(d) \in Nat /\ FirstTimestamp(old[1]) \in Nat
          BY <4>1, <3>0, <3>3, ChunkEnds, ConstantsAssumption DEF Timestamps
        <5>4. FirstTimestamp(d) <= FirstTimestamp(old[1])
          BY <5>1, <5>2, <4>1, <3>3
        <5>5. FirstTimestamp(old[1]) <= FirstTimestamp(d)
          BY <5>1, <5>2, <5>3, <4>1, <3>2, <3>3, <1>1
        <5>. QED
          BY <5>3, <5>4, <5>5, <4>1, <3>7
      <4>2. CASE n # 1
        <5>1. 1 \in DOMAIN old
          BY <3>0, <1>0
        <5>. QED
          BY <5>1, <4>2, <3>7
      <4>. QED
        BY <4>1, <4>2
    <3>12. cs # <<>> /\ old # <<>>
      BY <3>0, <3>7, <1>0, WellFormedFacts
    <3>. QED
      BY <3>7, <3>8, <3>10, <3>11, <3>12
  <2>. QED
    BY Zenon, <2>1, <2>2
<1>6. u = RecordAppendedSample([s EXCEPT !.chunks = cs], sample)
  BY DEF AddSampleInternal, unit, cs, n, old
<1>. HIDE DEF cs, u
<1>7. /\ u.chunks = cs /\ u.retention = s.retention /\ u.last_sample = sample
      /\ u.total_samples = s.total_samples + 1
      /\ u.first_timestamp = IF s.total_samples = 0 THEN ts ELSE s.first_timestamp
      /\ u \in SeriesType
  <2>1. cs \in Seq(Chunks)
    BY <1>5 DEF WellFormed
  <2>2. /\ s.total_samples \in Nat /\ s.total_samples + 1 \in Nat /\ s.first_timestamp \in Timestamps
        /\ sample \in Samples
    BY SeriesOKFacts
  <2>. DEFINE f == IF s.total_samples = 0 THEN ts ELSE s.first_timestamp
  <2>3. u = [s EXCEPT !.chunks = cs, !.first_timestamp = f, !.last_sample = sample,
                      !.total_samples = s.total_samples + 1]
    BY <1>0, <1>6 DEF RecordAppendedSample, SeriesType
  <2>4. f \in Timestamps
    BY <2>2, <1>1
  <2>. HIDE DEF f
  <2>5. u \in SeriesType
    BY Zenon, <2>1, <2>2, <2>3, <2>4, <1>0 DEF SeriesType
  <2>6. /\ u.chunks = cs /\ u.retention = s.retention /\ u.last_sample = sample
        /\ u.total_samples = s.total_samples + 1 /\ u.first_timestamp = f
    BY <2>3, <1>0 DEF SeriesType
  <2>. QED
    BY <2>5, <2>6 DEF f
<1>8. s.total_samples + 1 = Cardinality(Stored(cs))
  <2>1. ts \notin Stored(old)
    BY <1>1, <1>2
  <2>. QED
    BY <2>1, <1>1, <1>5, StoredAfterAdd DEF old
<1>9. s.total_samples = 0 <=> old = <<>>
  BY <1>0, SeriesOKFacts, CountStored, FS_EmptySet, OrderedEnds DEF old
<1>10. u.first_timestamp = FirstTimestamp(cs[1])
  BY <1>5, <1>7, <1>9, SeriesOKFacts DEF old
<1>. QED
  BY Zenon, <1>5, <1>7, <1>8, <1>10 DEF SeriesOK, Described, WellFormed, u, old

\* The first and last timestamps of an ordered list are determined by what it stores.
LEMMA EndsOfStored ==
    ASSUME NEW cs, WellFormed(cs), NEW x \in Stored(cs)
    PROVE  /\ (\A t \in Stored(cs) : x <= t) => FirstTimestamp(cs[1]) = x
           /\ (\A t \in Stored(cs) : t <= x) => LastTimestamp(cs[Len(cs)]) = x
<1>1. cs # <<>>
  BY OrderedEnds
<1>2. Stored(cs) \subseteq Nat
  BY CountStored, ConstantsAssumption DEF Timestamps
<1>3. /\ FirstTimestamp(cs[1]) \in Stored(cs) /\ FirstTimestamp(cs[1]) <= x
      /\ LastTimestamp(cs[Len(cs)]) \in Stored(cs) /\ x <= LastTimestamp(cs[Len(cs)])
  BY <1>1, OrderedEnds
<1>4. ASSUME \A t \in Stored(cs) : x <= t PROVE FirstTimestamp(cs[1]) = x
  BY <1>2, <1>3, <1>4
<1>5. ASSUME \A t \in Stored(cs) : t <= x PROVE LastTimestamp(cs[Len(cs)]) = x
  BY <1>2, <1>3, <1>5
<1>. QED
  BY <1>4, <1>5
=============================================================================
