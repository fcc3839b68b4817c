------------------------------ MODULE ChunkCodec ------------------------------
(***************************************************************************)
(* The compressed chunks of a series in use: samples are appended,         *)
(* upserted, merged and deleted, chunks are split, drained into their      *)
(* predecessor by the defragmenter, saved and loaded again, and appended   *)
(* to afterwards.  Every rebuild re-encodes from the decoded samples, and  *)
(* every append goes on from the rolling state of the encoder.             *)
(*                                                                         *)
(* `held` is the ghost of the samples the chunks stand for.                *)
(***************************************************************************)
EXTENDS XorCodecs

CONSTANTS
    Timestamps, Values,     \* the samples written
    Batches,                \* the sorted batches merged into a chunk
    Policies,               \* duplicate policies: "block", "first", "last"
    MaxSize,                \* a chunk's budget in bytes
    SampleBytes,            \* size_of::<Sample>()
    MinForEstimate,         \* MIN_SAMPLES_FOR_BPS_ESTIMATE
    WireCompression,        \* WIRE_COMPRESSION_MIN_SAMPLES
    MaxParts, MaxHeld       \* bounds: chunks of a series, samples of one of each kind

VARIABLES
    parts,      \* the chunks of the series, oldest first: [kind, e, max_size]
    held,       \* ghost: the samples
    answered    \* ghost: the last write was answered as it should be

chunkVars == <<parts, held, answered>>

-----------------------------------------------------------------------------
(* A chunk *)

NewEncoder(kind, cap) == IF kind = "gorilla" THEN NewGorilla(cap) ELSE NewChimp(cap)
NewChunk(kind, size) == [kind |-> kind, e |-> NewEncoder(kind, size), max_size |-> size]

\* push_sample: Gorilla refuses a timestamp that goes back.
Refused(kind, e, s) == kind = "gorilla" /\ GorillaRefuses(e, s)
push_sample(kind, e, s) ==
    IF Refused(kind, e, s) THEN e ELSE IF kind = "gorilla" THEN GorillaAdd(e, s) ELSE ChimpAdd(e, s)

Decoded(c) == IF c.kind = "gorilla" THEN GorillaSamples(c.e) ELSE ChimpSamples(c.e)
Samples(c) == Decoded(c).out

\* A fresh encoder over the samples: compress, and the rebuilds.
RECURSIVE PushAll(_, _, _)
PushAll(kind, e, samples) ==
    IF samples = <<>> THEN e ELSE PushAll(kind, push_sample(kind, e, Head(samples)), Tail(samples))
compress(c, samples) == [c EXCEPT !.e = PushAll(c.kind, NewEncoder(c.kind, c.max_size), samples)]

len(c) == c.e.num
first_timestamp(c) == c.e.first_ts
last_timestamp(c) == c.e.last_ts
size(c) == Len(c.e.writer.stream)

bytes_per_sample(c) ==
    IF len(c) < MinForEstimate THEN SampleBytes \div 2 ELSE Max({1, size(c) \div len(c)})
estimate_remaining_sample_capacity(c) ==
    IF size(c) >= c.max_size THEN 0 ELSE (c.max_size - size(c)) \div bytes_per_sample(c)

\* The range iterator stops at the first sample past the end.
RECURSIVE UpTo(_, _)
UpTo(ss, end) ==
    IF ss = <<>> \/ Head(ss).timestamp > end THEN <<>> ELSE <<Head(ss)>> \o UpTo(Tail(ss), end)
InRange(ss, start, end) == SelectSeq(UpTo(ss, end), LAMBDA s : s.timestamp >= start)
range_iter(c, start, end) == InRange(Samples(c), start, end)

\* One pass over the samples and the sorted timestamps asked for.
samples_by_timestamps(ss, wanted) ==
    LET step(acc, s) ==
            LET skip_to == {i \in acc.index .. Len(wanted) : wanted[i] >= s.timestamp}
                i == IF acc.index > Len(wanted) THEN acc.index
                     ELSE IF skip_to = {} THEN Len(wanted) ELSE Min(skip_to)
            IN  IF i <= Len(wanted) /\ wanted[i] = s.timestamp
                  THEN [index |-> i + 1, out |-> Append(acc.out, s)]
                  ELSE [acc EXCEPT !.index = i]
    IN  IF ss = <<>> \/ wanted = <<>> THEN <<>>
        ELSE FoldLeft(step, [index |-> 1, out |-> <<>>],
                      InRange(ss, Max({wanted[1], ss[1].timestamp}),
                                  Min({wanted[Len(wanted)], ss[Len(ss)].timestamp}))).out

-----------------------------------------------------------------------------
(* Writes *)

Blocked == Sample(NoValue, 0)       \* SampleAddResult::Duplicate
Errored == Sample(NoValue, 1)       \* SampleAddResult::Error
duplicate_value(policy, old, new) ==
    CASE policy = "block" -> NoValue
      [] policy = "first" -> old
      [] policy = "last"  -> new

add_sample(c, s) == [c EXCEPT !.e = push_sample(c.kind, @, s)]

\* The samples after an upsert, or <<>> when the duplicate policy refuses it.
Upserted(old, s, policy) ==
    LET before == SelectSeq(old, LAMBDA o : o.timestamp < s.timestamp)
        after  == SubSeq(old, Len(before) + 1, Len(old))
        dup    == after # <<>> /\ after[1].timestamp = s.timestamp
        v      == duplicate_value(policy, after[1].value, s.value)
    IN  IF ~dup THEN before \o <<s>> \o after
        ELSE IF v = NoValue THEN <<>>
        ELSE before \o <<Sample(s.timestamp, v)>> \o Tail(after)

\* upsert: [chunk, size, result]
UpsertRebuilt(c, s, new) ==
    IF new = <<>> THEN [chunk |-> c, size |-> 0, result |-> Blocked]
    ELSE [chunk |-> compress(c, new), size |-> Len(new), result |-> s]
upsert_sample(c, s, policy) ==
    IF len(c) = 0 THEN [chunk |-> add_sample(c, s), size |-> 1, result |-> s]
    ELSE UpsertRebuilt(c, s, Upserted(Samples(c), s, policy))

remove_range(c, start, end) ==
    IF len(c) = 0 \/ start > last_timestamp(c) \/ end < first_timestamp(c) THEN c
    ELSE compress(c, SelectSeq(Samples(c), LAMBDA s : s.timestamp \notin start .. end))

\* SampleMergeIterator: the winning samples in order, each with whether the incoming one was blocked.
RECURSIVE Merged(_, _, _)
Merged(left, right, policy) ==
    IF left = <<>> THEN [i \in DOMAIN right |-> [sample |-> right[i], blocked |-> FALSE]]
    ELSE IF right = <<>> THEN [i \in DOMAIN left |-> [sample |-> left[i], blocked |-> FALSE]]
    ELSE LET l == Head(left)
             r == Head(right)
             v == duplicate_value(policy, l.value, r.value)
         IN  IF l.timestamp = r.timestamp
               THEN <<[sample |-> IF v = NoValue THEN l ELSE Sample(l.timestamp, v), blocked |-> v = NoValue]>>
                    \o Merged(Tail(left), Tail(right), policy)
             ELSE IF l.timestamp < r.timestamp
               THEN <<[sample |-> l, blocked |-> FALSE]>> \o Merged(Tail(left), right, policy)
             ELSE <<[sample |-> r, blocked |-> FALSE]>> \o Merged(left, Tail(right), policy)

\* merge_chunk_samples: a result for each incoming timestamp, none for the samples rewritten.
merge_chunk_samples(merged, samples) ==
    LET incoming == SelectSeq(merged, LAMBDA m : \E i \in DOMAIN samples :
                                                   samples[i].timestamp = m.sample.timestamp)
    IN  [i \in DOMAIN incoming |-> IF incoming[i].blocked THEN Blocked ELSE incoming[i].sample]

\* The samples past the chunk go in one by one; the ones the encoder refuses are reported.
append_samples(c, samples) ==
    FoldLeft(LAMBDA acc, s : [chunk   |-> add_sample(acc.chunk, s),
                              results |-> Append(acc.results, IF Refused(c.kind, acc.chunk.e, s)
                                                                THEN Errored ELSE s)],
             [chunk |-> c, results |-> <<>>], samples)

MergeRebuilt(c, samples, merged) ==
    [chunk   |-> compress(c, [i \in DOMAIN merged |-> merged[i].sample]),
     results |-> merge_chunk_samples(merged, samples)]
merge_samples(c, samples, policy) ==
    IF samples = <<>> THEN [chunk |-> c, results |-> <<>>]
    ELSE IF len(c) = 0 \/ samples[1].timestamp > last_timestamp(c) THEN append_samples(c, samples)
    ELSE MergeRebuilt(c, samples, Merged(Samples(c), samples, policy))

\* The lower half stays, the upper half goes to a chunk of the same budget.
Halves(c, all, mid) ==
    <<compress(c, SubSeq(all, 1, mid)), compress(c, SubSeq(all, mid + 1, Len(all)))>>
split(c) == IF len(c) = 0 THEN <<c, c>> ELSE Halves(c, Samples(c), len(c) \div 2)

clear(c) == [c EXCEPT !.e = [NewEncoder(c.kind, c.max_size) EXCEPT
                                !.writer = [clear_stream(c.e.writer) EXCEPT !.soft_cap = c.max_size]]]
optimize(c) == [c EXCEPT !.e.writer = shrink_to_fit(@)]

-----------------------------------------------------------------------------
(* Persistence: the RDB form, and the bytes sent between nodes.  Both carry *)
(* the rolling state, so that a loaded chunk can be appended to.            *)

\* The stream's bytes and free bits; the allocation and the budget are not saved.
StreamImage(w) == [stream |-> w.stream, count |-> w.count]
StreamValid(img) == img.count <= ByteBits /\ (img.count # 0 => img.stream # <<>>)
StreamLoaded(img, cap) ==
    [stream |-> img.stream, count |-> img.count, soft_cap |-> cap, alloc |-> Len(img.stream)]

\* serialize: timestamps and delta as unsigned varints, the window as two bytes.
GorillaImage(e) ==
    [e EXCEPT !.writer = StreamImage(@), !.leading = Low(@, WordBits), !.trailing = Low(@, WordBits),
              !.first_ts = ToUnsigned(@), !.last_ts = ToUnsigned(@), !.delta = ToUnsigned(@)]
GorillaLoaded(img, cap) ==
    [img EXCEPT !.writer = StreamLoaded(@, cap),
                !.first_ts = ToSigned(@), !.last_ts = ToSigned(@), !.delta = ToSigned(@)]

\* serialize: the signed fields are zig-zagged.
ChimpImage(e) ==
    [e EXCEPT !.writer = StreamImage(@), !.first_ts = zigzag_encode(@), !.last_ts = zigzag_encode(@),
              !.delta = zigzag_encode(@)]
ChimpLoaded(img, cap) ==
    [img EXCEPT !.writer = StreamLoaded(@, cap), !.first_ts = zigzag_decode(@),
                !.last_ts = zigzag_decode(@), !.delta = zigzag_decode(@)]

\* rdb_save and rdb_load: the signed fields as they are.
RdbImage(e) == [e EXCEPT !.writer = StreamImage(@)]
RdbLoaded(img, cap) == [img EXCEPT !.writer = StreamLoaded(@, cap)]
save_rdb(c) == [tag |-> c.kind, max_size |-> c.max_size, image |-> RdbImage(c.e)]
load_rdb(b) == [kind |-> b.tag, max_size |-> b.max_size, e |-> RdbLoaded(b.image, b.max_size)]

\* The tag of the encoding comes first.
serialize(c) ==
    [tag |-> c.kind, max_size |-> c.max_size,
     image |-> IF c.kind = "gorilla" THEN GorillaImage(c.e) ELSE ChimpImage(c.e)]
deserialize(b) ==
    [kind |-> b.tag, max_size |-> b.max_size,
     e |-> IF b.tag = "gorilla" THEN GorillaLoaded(b.image, b.max_size) ELSE ChimpLoaded(b.image, b.max_size)]

\* The chunk that carries samples to another node, and what the other side takes out of it.
samples_to_chunk(samples) ==
    IF Len(samples) >= WireCompression
      THEN [tag |-> "chimp", data |-> serialize(compress(NewChunk("chimp", MaxSize), samples))]
      ELSE [tag |-> "uncompressed", data |-> [tag |-> "uncompressed", samples |-> samples]]
samples_are_strictly_increasing(ss) == \A i \in 2 .. Len(ss) : ss[i - 1].timestamp < ss[i].timestamp
deserialize_chunk(msg) ==
    IF msg.data.tag # msg.tag THEN <<Errored>>
    ELSE IF msg.tag = "chimp" THEN Samples(deserialize(msg.data))
    ELSE IF samples_are_strictly_increasing(msg.data.samples) THEN msg.data.samples ELSE <<Errored>>

-----------------------------------------------------------------------------
(* The defragmenter *)

\* Drains src into dest as far as dest's estimated room goes: [dest, src, merged].
Drained(dest, src, samples, policy) ==
    [dest |-> merge_samples(dest, samples, policy).chunk, src |-> src, merged |-> TRUE]
DrainedPartly(dest, src, clip, n, policy) ==
    Drained(dest, compress(src, SubSeq(clip, n + 1, Len(clip))), SubSeq(clip, 1, n), policy)
merge_by_capacity(dest, src, floor, policy) ==
    LET count == len(src)
        room  == estimate_remaining_sample_capacity(dest)
        clip  == range_iter(src, Max({first_timestamp(src), floor}), last_timestamp(src))
    IN  IF count = 0 THEN [dest |-> dest, src |-> src, merged |-> FALSE]
        ELSE IF room >= count THEN Drained(dest, clear(src), Samples(src), policy)
        ELSE IF room > count \div 4
          THEN DrainedPartly(dest, src, clip, Min({room, Len(clip)}), policy)
        ELSE [dest |-> dest, src |-> src, merged |-> FALSE]

\* One turn of the two loops: `at` drains into `dest`; unless it drained completely it is the
\* next destination, and so is an empty chunk reached from the inner loop.
DefragStep(st, floor, policy) ==
    LET src == st.all[st.at]
        Turned(m, drained) ==
            [all   |-> [[st.all EXCEPT ![st.dest] = m.dest] EXCEPT ![st.at] = m.src],
             dest  |-> IF drained /\ st.at < Len(st.all) THEN st.dest ELSE st.at,
             at    |-> st.at + 1,
             inner |-> drained]
        Turn(m) == Turned(m, m.merged /\ len(m.src) = 0)
    IN  IF len(src) = 0 /\ ~st.inner THEN [st EXCEPT !.at = @ + 1]
        ELSE Turn(merge_by_capacity(st.all[st.dest], src, floor, policy))

Optimized(kept) == [i \in DOMAIN kept |-> IF i < Len(kept) THEN optimize(kept[i]) ELSE kept[i]]
defrag_series(all, floor, policy) ==
    IF Len(all) < 2 THEN all
    ELSE Optimized(SelectSeq(FoldLeft(LAMBDA st, i : DefragStep(st, floor, policy),
                                      [all |-> all, dest |-> 1, at |-> 2, inner |-> FALSE],
                                      [i \in 1 .. Len(all) - 1 |-> i]).all,
                             LAMBDA c : len(c) > 0))

-----------------------------------------------------------------------------
(* The series' chunks in use *)

Room == MaxHeld[parts[1].kind]

ChunkInit ==
    /\ \E kind \in {"gorilla", "chimp"} : parts = <<NewChunk(kind, MaxSize)>>
    /\ held = <<>>
    /\ answered = TRUE

\* The chunk an older timestamp belongs to: the last that starts at or before it.
Home(ts) ==
    LET starts == {i \in DOMAIN parts : first_timestamp(parts[i]) <= ts}
    IN  IF starts = {} THEN 1 ELSE Max(starts)

\* remove_range on each chunk; the series layer drops the ones that were emptied, all but one.
RECURSIVE Cut(_, _, _)
Cut(all, start, end) ==
    LET Kept(cut) == IF Len(all) = 1 THEN <<cut>>
                     ELSE (IF len(cut) = 0 THEN <<>> ELSE <<cut>>) \o Cut(Tail(all), start, end)
    IN  Kept(remove_range(Head(all), start, end))
DropLastEmpty(all) ==
    IF Len(all) > 1 /\ len(all[Len(all)]) = 0 THEN SubSeq(all, 1, Len(all) - 1) ELSE all

\* The ghost of an upsert: the samples and what the writer is told.
Meant(s, policy) ==
    LET new == Upserted(held, s, policy)
        at  == {i \in DOMAIN held : held[i].timestamp = s.timestamp}
    IN  IF at # {} /\ policy = "block" THEN held ELSE new
Told(s, policy) ==
    IF policy = "block" /\ \E i \in DOMAIN held : held[i].timestamp = s.timestamp THEN Blocked ELSE s

\* A new last sample goes to the last chunk.
AddSample(s) ==
    /\ Len(held) < Room
    /\ held # <<>> => s.timestamp > held[Len(held)].timestamp
    /\ parts' = [parts EXCEPT ![Len(parts)] = add_sample(@, s)]
    /\ held' = Append(held, s)
    /\ answered' = TRUE

Upsert(s, policy) ==
    /\ held' = Meant(s, policy)
    /\ Len(held') <= Room
    /\ \E i \in {Home(s.timestamp)} : \E u \in {upsert_sample(parts[i], s, policy)} :
           /\ parts' = [parts EXCEPT ![i] = u.chunk]
           /\ answered' = /\ u.result = Told(s, policy)
                          /\ u.size = IF u.result = Blocked THEN 0
                                      ELSE Cardinality({j \in DOMAIN held' : Home(held'[j].timestamp) = i})

RemoveRange(start, end) ==
    /\ held # <<>>
    /\ \E cut \in {Cut(parts, start, end)} : parts' = DropLastEmpty(cut)
    /\ held' = SelectSeq(held, LAMBDA s : s.timestamp \notin start .. end)
    /\ answered' = TRUE

\* A batch all of whose samples belong to one chunk.
MergeSamples(batch, policy) ==
    LET i == Home(batch[1].timestamp)
        taken == FoldLeft(LAMBDA ss, s : IF policy = "block" /\ \E j \in DOMAIN ss : ss[j].timestamp = s.timestamp
                                           THEN ss ELSE Upserted(ss, s, policy), held, batch)
        at(ts) == CHOOSE j \in DOMAIN taken : taken[j].timestamp = ts
    IN  /\ Len(taken) <= Room
        /\ \A k \in DOMAIN batch : Home(batch[k].timestamp) = i
        /\ \E m \in {merge_samples(parts[i], batch, policy)} :
              /\ parts' = [parts EXCEPT ![i] = m.chunk]
              /\ answered' = (m.results = [k \in DOMAIN batch |->
                                              IF Told(batch[k], policy) = Blocked THEN Blocked
                                              ELSE taken[at(batch[k].timestamp)]])
        /\ held' = taken

Split(i) ==
    /\ Len(parts) < MaxParts /\ len(parts[i]) > 1
    /\ parts' = SubSeq(parts, 1, i - 1) \o split(parts[i]) \o SubSeq(parts, i + 1, Len(parts))
    /\ UNCHANGED held
    /\ answered' = TRUE

Defrag(policy) ==
    /\ Len(parts) > 1
    /\ parts' = defrag_series(parts, 0, policy)
    /\ UNCHANGED held
    /\ answered' = TRUE

\* A restart, and a chunk that reaches a replica or another node in serialized form.
Reload ==
    /\ parts' = [i \in DOMAIN parts |-> load_rdb(save_rdb(parts[i]))]
    /\ UNCHANGED held
    /\ answered' = TRUE
Transfer ==
    /\ parts' = [i \in DOMAIN parts |-> deserialize(serialize(parts[i]))]
    /\ UNCHANGED held
    /\ answered' = TRUE

\* The policy is only looked at for timestamps the series holds.
PoliciesFor(ts) == IF \E i \in DOMAIN held : held[i].timestamp \in ts THEN Policies ELSE {"last"}
AllSamples == {Sample(t, v) : t \in Timestamps, v \in Values}
ChunkNext ==
    \/ \E s \in AllSamples : AddSample(s)
    \/ \E s \in AllSamples : \E p \in PoliciesFor({s.timestamp}) : Upsert(s, p)
    \/ \E a \in Timestamps, b \in Timestamps : a <= b /\ RemoveRange(a, b)
    \/ \E batch \in Batches : \E p \in PoliciesFor({batch[k].timestamp : k \in DOMAIN batch}) :
          MergeSamples(batch, p)
    \/ \E i \in DOMAIN parts : Split(i)
    \/ Defrag("block")
    \/ Reload
    \/ Transfer

-----------------------------------------------------------------------------
(* Properties *)

\* Whatever was done to the chunks, in whatever order, decoding them one after the other gives
\* back exactly the samples written, in timestamp order; each chunk's own count, first and last
\* sample agree with its stream, and the stream is one that a load accepts.
ChunksDecodeExact ==
    /\ held = FlattenSeq([i \in DOMAIN parts |-> Samples(parts[i])])
    /\ \A i \in DOMAIN parts :
          \E c \in {parts[i]} : \E d \in {Decoded(c)} :
              /\ ~d.r.err
              /\ StreamValid(StreamImage(c.e.writer))
              /\ Len(d.out) = len(c)
              /\ len(c) > 0 => /\ first_timestamp(c) = d.out[1].timestamp
                               /\ Sample(last_timestamp(c), c.e.last_value) = d.out[Len(d.out)]

\* An encoder that was rebuilt, cleared or loaded goes on exactly as one that had seen the same
\* samples from the start: its rolling state and its bits are those of a fresh encoding.
RollingStateCanonical ==
    \A i \in DOMAIN parts :
        LET bare(c) == [c EXCEPT !.e.writer.alloc = 0]
        IN  bare(parts[i]) = bare(compress(parts[i], Samples(parts[i])))

\* A write into a chunk is answered sample by sample as the duplicate policy says.
WritesAnsweredExact == answered

InOrder == SetToSortSeq(Timestamps, <)
Asked(ts) == SelectSeq(InOrder, LAMBDA t : t \in ts)

\* A range read and a read at given timestamps return the samples asked for and no others,
\* straight from the chunk or after the chunk was sent to another node.
ReadsExact ==
    \A i \in DOMAIN parts :
        \E ss \in {Samples(parts[i])} :
            /\ \A a \in Timestamps, b \in Timestamps :
                  InRange(ss, a, b) = SelectSeq(ss, LAMBDA s : s.timestamp \in a .. b)
            /\ \A ts \in SUBSET Timestamps :
                  samples_by_timestamps(ss, Asked(ts)) = SelectSeq(ss, LAMBDA s : s.timestamp \in ts)
            /\ deserialize_chunk(samples_to_chunk(ss)) = ss

\* The chunks hold what was written to them, say so to the writer and to the reader, and go on
\* from any saved, split or merged state as if nothing had happened.
ChunksExact == ChunksDecodeExact /\ RollingStateCanonical /\ WritesAnsweredExact /\ ReadsExact
=============================================================================
