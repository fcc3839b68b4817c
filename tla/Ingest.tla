------------------------------- MODULE Ingest -------------------------------
(***************************************************************************)
(* Keys that hold series, the commands that write to them (TS.ADD,         *)
(* TS.INCRBY/TS.DECRBY, TS.MADD, TS.ADDBULK, TS.ALTER, TS.DEL, DEL, SET)    *)
(* and the clients that wait for samples (TS.READ ... BLOCK).  A command    *)
(* runs to its end before another starts; the server wakes the clients of  *)
(* a signalled key some time after the command that signalled it.          *)
(*                                                                         *)
(* Batches of samples into one series (TS.MADD, TS.ADDBULK): normalising    *)
(* the batch, grouping it by chunk, merging each group, splitting what      *)
(* grew too large.  Where the outcome depends on encoded sizes an operator  *)
(* yields the set of the outcomes those sizes allow.                        *)
(***************************************************************************)
EXTENDS SeriesOps, SequencesExt

Sample(ts, v) == [timestamp |-> ts, value |-> v]

\* SampleAddResult, with the timestamp the client is told.
Result(kind, ts) == [kind |-> kind, ts |-> ts]
Refused(kind)    == Result(kind, None)

\* What the client sees: an added and an ignored sample are both a timestamp.
Shown(r) == IF r.kind = "ignored" THEN Result("ok", r.ts) ELSE r

MapSeq(Op(_), s) == FoldLeft(LAMBDA acc, x : Append(acc, Op(x)), <<>>, s)

Ceil(n, d) == (n + d - 1) \div d

-----------------------------------------------------------------------------
(* Normalising *)

\* retention_gate: in input order, against the newest timestamp at or before the item.
RetentionGate(s, items) ==
    LET old(acc, x) ==
            /\ s.retention # 0 /\ acc.max # None
            /\ x.timestamp < acc.max - s.retention
        step(acc, x) ==
            [max  |-> IF old(acc, x) THEN acc.max
                      ELSE IF acc.max = None THEN x.timestamp
                      ELSE Max({acc.max, x.timestamp}),
             mask |-> Append(acc.mask, old(acc, x))]
    IN  FoldLeft(step, [max |-> IF s.last_sample = None THEN None ELSE s.last_sample.timestamp,
                        mask |-> <<>>], items).mask

\* The positions of a batch in timestamp order, ties in input order.
SortedOrder(items) ==
    SortSeq([i \in DOMAIN items |-> i],
            LAMBDA i, j : \/ items[i].timestamp < items[j].timestamp
                          \/ items[i].timestamp = items[j].timestamp /\ i < j)

\* normalize_batch: the positions to insert, in timestamp order, and the results settled here.
NormalizeBatch(s, items, policy) ==
    LET tooOld == RetentionGate(s, items)
        settle(acc, i, r) == [acc EXCEPT !.results[i] = r, !.prev = items[i].timestamp]
        step(acc, i) ==
            LET x == items[i]
            IN  IF acc.prev = x.timestamp THEN settle(acc, i, Refused("duplicate"))
                ELSE IF tooOld[i] THEN settle(acc, i, Refused("too_old"))
                ELSE IF acc.last # None /\ IsDuplicate(x, acc.last, policy)
                  THEN settle(acc, i, Result("ignored", acc.last.timestamp))
                ELSE [acc EXCEPT !.prev   = x.timestamp,
                                 !.insert = Append(@, i),
                                 !.last   = IF @ = None THEN x
                                            ELSE IF x.timestamp >= @.timestamp THEN x ELSE @]
    IN  FoldLeft(step, [prev |-> None, last |-> s.last_sample, insert |-> <<>>,
                        results |-> MapSeq(LAMBDA x : Refused("error"), items)],
                 SortedOrder(items))

-----------------------------------------------------------------------------
(* Grouping by chunk *)

Slices(samples, size) ==
    MapSeq(LAMBDA k : SubSeq(samples, (k - 1) * size + 1, Min({k * size, Len(samples)})),
           [k \in 1 .. Ceil(Len(samples), size) |-> k])

\* tail_take: how many of the samples past the tail chunk it is given.
TailTakes(c, rest) ==
    IF Compressed THEN 0 .. rest
    ELSE {Min({rest, Max({0, ChunkCapacity - ChunkLen(c)})})}

\* add_chunks_for_appends: the size of the new chunks past the end.
AppendSizes(n) == IF n = 0 THEN {1} ELSE IF Compressed THEN 1 .. n ELSE {ChunkCapacity}

\* add_chunks_for_backfill: an even share, with one chunk fewer when that overfills by at most
\* an eighth.  Sizes in bytes, 16 a sample.
BackfillShare(n) ==
    LET hard  == Max({ChunkCapacity, (16 * ChunkCapacity + 2 * ChunkCapacity) \div 16})
        fewer == n \div ChunkCapacity
        count == IF fewer > 0 /\ Ceil(n, Max({fewer, 1})) <= hard THEN fewer ELSE Ceil(n, ChunkCapacity)
    IN  Ceil(n, count)

BackfillSizes(n) == IF n = 0 THEN {1} ELSE IF Compressed THEN 1 .. n ELSE {BackfillShare(n)}

\* The existing chunk that takes a sample not past the end: the first that reaches it, so a gap
\* goes to the chunk after it.
OwnerChunk(cs, ts) == FirstReaching(cs, ts)

\* group_samples_by_chunk: per existing chunk its samples, and the samples of each new chunk, for
\* every answer the size estimates may give.
Groupings(s, samples) ==
    LET cs    == s.chunks
        n     == Len(cs)
        older == IF n = 0 THEN <<>>
                 ELSE SelectSeq(samples, LAMBDA x : x.timestamp < FirstTimestamp(cs[1]))
        newer == IF n = 0 THEN samples
                 ELSE SelectSeq(samples, LAMBDA x : x.timestamp > LastTimestamp(cs[n]))
        own(i) == SelectSeq(samples, LAMBDA x : /\ x.timestamp >= FirstTimestamp(cs[1])
                                                /\ OwnerChunk(cs, x.timestamp) = i)
        tails == IF n = 0 THEN {0} ELSE TailTakes(cs[n], Len(newer))
    IN  {[existing |-> MapSeq(LAMBDA i : IF i = n THEN own(i) \o SubSeq(newer, 1, tail) ELSE own(i),
                              [i \in 1 .. n |-> i]),
          new |-> Slices(older, back)
                  \o Slices(SubSeq(newer, tail + 1, Len(newer)), front)] :
            tail \in tails, back \in BackfillSizes(Len(older)), front \in AppendSizes(Len(newer))}

-----------------------------------------------------------------------------
(* Merging *)

EmptyChunk == [t \in {} |-> 0]

\* merge_chunk_samples and append_samples: the chunk with the samples folded in, and per sample
\* whether the duplicate policy refused it.
MergeChunk(c, samples, policy) ==
    FoldLeft(LAMBDA acc, x :
                IF UpsertRefused(acc.chunk, x, policy)
                  THEN [acc EXCEPT !.results = Append(@, Refused("duplicate"))]
                  ELSE [chunk   |-> ChunkUpsert(acc.chunk, x, policy),
                        results |-> Append(acc.results, Result("ok", x.timestamp))],
             [chunk |-> c, results |-> <<>>], samples)

\* The new chunks among the existing ones, in order of first timestamp.
WithNewChunks(cs, new) ==
    FoldLeft(LAMBDA acc, c :
                LET at == FirstStartingAfter(acc, FirstTimestamp(c))
                IN  SubSeq(acc, 1, at - 1) \o <<c>> \o SubSeq(acc, at, Len(acc)),
             cs, new)

\* merge_samples_into_series: metadata is recomputed, results go back to input positions.
MergeSamplesIntoSeries(s, items, policy) ==
    LET norm    == NormalizeBatch(s, items, policy)
        samples == MapSeq(LAMBDA i : items[i], norm.insert)
        merged(g) ==
            LET old  == MapSeq(LAMBDA i : MergeChunk(s.chunks[i], g.existing[i], policy),
                               [i \in DOMAIN s.chunks |-> i])
                new  == MapSeq(LAMBDA xs : MergeChunk(EmptyChunk, xs, policy), g.new)
                cs   == WithNewChunks(MapSeq(LAMBDA m : m.chunk, old), MapSeq(LAMBDA m : m.chunk, new))
                done == FoldLeft(LAMBDA acc, m : acc \o m.results, <<>>, old \o new)
                at   == FoldLeft(LAMBDA acc, xs : acc \o xs, <<>>, g.existing \o g.new)
                pick(i) == done[CHOOSE k \in DOMAIN at : at[k].timestamp = items[i].timestamp]
            IN  [series  |-> UpdateFirstLastTimestamps(
                                [s EXCEPT !.chunks = cs, !.total_samples = SampleCount(cs)]),
                 results |-> FoldLeft(LAMBDA acc, i : [acc EXCEPT ![i] = pick(i)],
                                      norm.results, norm.insert)]
    IN  IF norm.insert = <<>> THEN {[series |-> s, results |-> norm.results]}
        ELSE {merged(g) : g \in Groupings(s, samples)}

\* The possible answers of needs_split: more than a quarter over the size limit.
NeedsSplit(c) ==
    IF Compressed
      THEN IF ChunkLen(c) < MinFullLen THEN {FALSE} ELSE BOOLEAN
      ELSE {ChunkLen(c) >= ChunkCapacity /\ 16 * ChunkLen(c) > 16 * ChunkCapacity + 4 * ChunkCapacity}

\* split_chunks_if_needed: every chunk due is halved in place.
SplitChunksIfNeeded(s) ==
    LET may  == {i \in DOMAIN s.chunks : TRUE \in NeedsSplit(s.chunks[i])}
        must == {i \in DOMAIN s.chunks : NeedsSplit(s.chunks[i]) = {TRUE}}
        split(due) ==
            FoldLeft(LAMBDA acc, i :
                        acc \o (IF i \in due THEN <<LowerHalf(s.chunks[i]), UpperHalf(s.chunks[i])>>
                                ELSE <<s.chunks[i]>>),
                     <<>>, [i \in DOMAIN s.chunks |-> i])
    IN  {[s EXCEPT !.chunks = split(due)] : due \in {d \in SUBSET may : must \subseteq d}}

MergeSamples(s, items, policy) ==
    UNION {{[r EXCEPT !.series = t] : t \in SplitChunksIfNeeded(r.series)} :
              r \in MergeSamplesIntoSeries(s, items, policy)}

-----------------------------------------------------------------------------
(* One item, and the items of one series of a TS.MADD *)

AddOutcomes(s, x, policy) ==
    {LET r == AddDeferringRetention(s, x, policy, full, split)
     IN  [series |-> r.series,
          result |-> CASE r.result = "ok"      -> Result("ok", x.timestamp)
                       [] r.result = "ignored" -> Result("ignored", s.last_sample.timestamp)
                       [] OTHER                -> Refused(r.result)] :
        full \in FullOutcomes(s), split \in SplitOutcomes(s, x.timestamp)}

\* Mutant: a batch that repeats a timestamp is merged like any other.
NoInBatchDuplicate(items) == FALSE

HasInBatchDuplicate(items) == Cardinality({x.timestamp : x \in ToSet(items)}) < Len(items)

\* add_group_sequentially.
AddGroupSequentially(s, items, policy) ==
    FoldLeft(LAMBDA S, x : UNION {{[series  |-> r.series, results |-> Append(o.results, r.result)] :
                                      r \in AddOutcomes(o.series, x, policy)} : o \in S},
             {[series |-> s, results |-> <<>>]}, items)

\* add_samples_internal: retention is left to the caller.
AddSamplesInternal(s, items, policy) ==
    IF Len(items) = 1 \/ HasInBatchDuplicate(items) THEN AddGroupSequentially(s, items, policy)
    ELSE MergeSamples(s, items, policy)

-----------------------------------------------------------------------------

CONSTANTS
    Keys,           \* the keys of the database
    MaxWrites,      \* the number of write commands in a behaviour (bound)
    InputKeys,      \* the keys that commands other than TS.MADD name (bound)
    Clients,        \* the clients that issue TS.READ
    Foreign,        \* a value of another type
    Bad,            \* an argument that does not parse
    Retentions,     \* the retention periods given to new and altered series
    KeyPolicies,    \* the assignments of DUPLICATE_POLICY to keys to start from
    InputSamples,   \* the samples TS.ADD is given
    InputBatches,   \* TS.MADD: sequences of [key, timestamp, value], each argument possibly Bad
    InputBulks,     \* TS.ADDBULK: sequences of samples
    InputIncrements,\* TS.INCRBY: [timestamp, value] with timestamp possibly None
    InputRemovals,  \* TS.DEL: pairs <<start, end>>
    InputRequests   \* TS.READ: see RequestType

VARIABLES
    db,             \* per key None, Foreign or a series
    policy,         \* per key the duplicate policy of its series
    clients,        \* per client None, or the PendingRead it is blocked with
    ready,          \* the signalled keys the server has yet to process
    writes,         \* the write commands so far
    answer          \* the replies the last command or callback sent, None once delivered

vars == <<db, policy, clients, ready, writes, answer>>

\* spec: a timestamp, "-", "+" or "$" as a record; condition: the values CONDITION accepts.
RequestType ==
    [spec : [sort : {"literal", "earliest", "latest", "next"}, ts : Timestamps],
     block : BOOLEAN, min_count : Nat \ {0}, max_count : Nat \ {0},
     finite : BOOLEAN, condition : SUBSET Values]

PendingType == [key : Keys, cursor : Timestamps \cup {None}, request : RequestType]

IsSeries(k) == db[k] \notin {None, Foreign}

-----------------------------------------------------------------------------
(* The server's block-on-keys machinery *)

\* A signal for a key nobody is blocked on is dropped.
Signalled(ks) == ready \cup {k \in ks : \E c \in Clients : clients[c] # None /\ clients[c].key = k}

\* Creating, replacing by another type and deleting a key signal by themselves.
Store(k, value, signal) ==
    /\ db' = [db EXCEPT ![k] = value]
    /\ ready' = Signalled(IF \/ signal \/ db[k] = None \/ value \in {None, Foreign}
                            THEN {k} ELSE {})

-----------------------------------------------------------------------------
(* Writers *)

Quiet == answer = None

\* Writes are capped.
Writing == Quiet /\ writes < MaxWrites /\ writes' = writes + 1

NothingSaid == answer' = None

\* The series a write starts from: the existing one, or the one it creates.
Targets(k) == IF db[k] = None THEN {EmptySeries(r) : r \in Retentions} ELSE {db[k]}

\* ts_create_cmd.
Create(k, r) ==
    /\ Writing /\ db[k] = None
    /\ Store(k, EmptySeries(r), FALSE)
    /\ NothingSaid /\ UNCHANGED <<policy, clients>>

\* Mutant: the insert is looked for after the retention trim.
AddTrimmedCount(k, x) ==
    /\ Writing /\ db[k] # Foreign
    /\ \E s \in Targets(k) : \E o \in AddOutcomes(s, x, policy[k]) :
          LET t == IF o.result.kind = "ok" THEN ApplyRetention(o.series) ELSE o.series
          IN  /\ FoldIsBounded(s, x, policy[k])
              /\ Store(k, t, t.total_samples > s.total_samples)
    /\ NothingSaid /\ UNCHANGED <<policy, clients>>

\* ts_add_cmd and handle_add: readers are signalled when a sample was inserted, whatever the
\* retention trim then drops.
Add(k, x) ==
    /\ Writing /\ db[k] # Foreign
    /\ \E s \in Targets(k) : \E o \in AddOutcomes(s, x, policy[k]) :
          /\ FoldIsBounded(s, x, policy[k])
          /\ Store(k, IF o.result.kind = "ok" THEN ApplyRetention(o.series) ELSE o.series,
                   o.series.total_samples > s.total_samples)
    /\ NothingSaid /\ UNCHANGED <<policy, clients>>

\* increment_sample_value and handle_update of TS.INCRBY and TS.DECRBY.  A refused increment of
\* a missing key leaves the series it created.
Incr(k, inc) ==
    /\ Writing /\ db[k] # Foreign
    /\ \E s \in Targets(k) :
          LET last == s.last_sample
              ts   == IF inc.timestamp # None THEN inc.timestamp
                      ELSE IF last = None THEN 0 ELSE last.timestamp
              x    == Sample(ts, (IF last = None THEN 0 ELSE last.value) + inc.value)
          IN  IF last # None /\ (last.value = NaN \/ ts < last.timestamp)
                THEN Store(k, s, FALSE)
                ELSE \E o \in AddOutcomes(s, x, "last") :
                        /\ x.value \in Values
                        /\ Store(k, IF o.result.kind = "ok" THEN ApplyRetention(o.series) ELSE o.series,
                                 o.result.kind = "ok" /\ (last = None \/ ts > last.timestamp))
    /\ NothingSaid /\ UNCHANGED <<policy, clients>>

\* The positions of the items of a batch that reach the series of k.
Group(b, k) ==
    SelectSeq([i \in DOMAIN b |-> i],
              LAMBDA i : b[i].key = k /\ b[i].timestamp # Bad /\ b[i].value # Bad)

GroupItems(b, k) == MapSeq(LAMBDA i : Sample(b[i].timestamp, b[i].value), Group(b, k))

\* Bound: what a batch stores stays among the modelled values.
Bounded(s) == \A i \in DOMAIN s.chunks : \A t \in DOMAIN s.chunks[i] : s.chunks[i][t] \in Values

PlainMap(s) ==
    LET seen == GetRange(s, 0, MaxTimestamp)
    IN  [t \in {x.timestamp : x \in seen} |-> (CHOOSE x \in seen : x.timestamp = t).value]

\* ts_madd_cmd: parse_args, handle_update, multi_series_merge_samples.  A missing or foreign key
\* and an unparsable argument are per-item errors; readers are signalled before the trim.
Madd(b) ==
    LET named == {k \in Keys : IsSeries(k) /\ \E i \in DOMAIN b : b[i].key = k}
        outs(k) == IF Group(b, k) = <<>> THEN {[series |-> db[k], results |-> <<>>]}
                   ELSE AddSamplesInternal(db[k], GroupItems(b, k), policy[k])
    IN  /\ Writing
        /\ \E o \in {f \in [named -> UNION {outs(k) : k \in named}] : \A k \in named : f[k] \in outs(k)} :
              LET reply(i) == IF b[i].key \notin named \/ ~Contains(Group(b, b[i].key), i)
                                THEN Refused("error")
                                ELSE o[b[i].key].results[SelectInSeq(Group(b, b[i].key), LAMBDA j : j = i)]
              IN  /\ \A k \in named : Bounded(o[k].series)
                  /\ db' = [k \in Keys |-> IF k \in named THEN ApplyRetention(o[k].series) ELSE db[k]]
                  /\ ready' = Signalled({k \in named : o[k].series.total_samples > db[k].total_samples})
                  /\ answer' = [kind |-> "madd", items |-> b,
                                before |-> [k \in named |-> [map |-> PlainMap(db[k]), retention |-> db[k].retention]],
                                replies |-> MapSeq(reply, [i \in DOMAIN b |-> i])]
    /\ UNCHANGED <<policy, clients>>

\* from_json_lines: the batch of TS.ADDBULK is sorted first, stably.
FromJsonLines(items) == MapSeq(LAMBDA i : items[i], SortedOrder(items))

\* ts_addbulk_cmd and bulk_insert_samples: never the sequential path, so a repeated timestamp is
\* refused.
AddBulk(k, items) ==
    /\ Writing /\ db[k] # Foreign
    /\ \E s \in Targets(k) : \E o \in MergeSamples(s, FromJsonLines(items), policy[k]) :
          /\ Bounded(o.series)
          /\ Store(k, ApplyRetention(o.series), o.series.total_samples > s.total_samples)
          /\ answer' = [kind |-> "addbulk", key |-> k, items |-> items,
                        before |-> [map |-> PlainMap(s), retention |-> s.retention],
                        added |-> Len(SelectSeq(o.results, LAMBDA r : r.kind = "ok"))]
    /\ UNCHANGED <<policy, clients>>

\* ts_alter_cmd with RETENTION.
Alter(k, r) ==
    /\ Writing /\ IsSeries(k) /\ r # db[k].retention
    /\ Store(k, ApplyRetention([db[k] EXCEPT !.retention = r]), FALSE)
    /\ NothingSaid /\ UNCHANGED <<policy, clients>>

\* ts_del_cmd.
DeleteRange(k, start, end) ==
    /\ Writing /\ IsSeries(k)
    /\ Store(k, RemoveRange(db[k], start, end), FALSE)
    /\ NothingSaid /\ UNCHANGED <<policy, clients>>

\* DEL, expiry or eviction; and SET over the key.
DropKey(k, value) ==
    /\ Writing /\ db[k] # value /\ value \in {None, Foreign}
    /\ Store(k, value, TRUE)
    /\ NothingSaid /\ UNCHANGED <<policy, clients>>

-----------------------------------------------------------------------------
(* TS.READ *)

\* Cursor::resolve: None stands for PastMax.
Resolve(spec, value) ==
    IF value = None \/ value.total_samples = 0
      THEN IF spec.sort = "literal" THEN spec.ts ELSE 0
    ELSE CASE spec.sort = "literal"  -> spec.ts
           [] spec.sort = "earliest" -> VisibleFirstTimestamp(value)
           [] spec.sort = "latest"   -> value.last_sample.timestamp
           [] spec.sort = "next"     -> IF value.last_sample.timestamp = MaxTimestamp THEN None
                                        ELSE value.last_sample.timestamp + 1

ByTime(S) ==
    LET at == {x.timestamp : x \in S}
    IN  MapSeq(LAMBDA i : CHOOSE x \in S : Cardinality({t \in at : t < x.timestamp}) = i - 1,
               [i \in 1 .. Cardinality(S) |-> i])

\* Mutant: the scan stops at max_count samples before the condition is applied.
CollectSamplesTakeFirst(s, cursor, req) ==
    LET min     == IF req.block THEN req.min_count ELSE 1
        limit   == Max({req.max_count, min})
        eligible == IF cursor = None THEN <<>> ELSE ByTime(GetRange(s, cursor, MaxTimestamp))
        taken   == SelectSeq(SubSeq(eligible, 1, Min({limit, Len(eligible)})),
                             LAMBDA x : x.value \in req.condition)
    IN  [met |-> Len(taken) >= min, samples |-> SubSeq(taken, 1, Min({req.max_count, Len(taken)}))]

\* collect_samples: whether min_count is met, and the samples of the reply.
CollectSamples(s, cursor, req) ==
    LET min     == IF req.block THEN req.min_count ELSE 1
        limit   == Max({req.max_count, min})
        matches == IF cursor = None THEN <<>>
                   ELSE ByTime({x \in GetRange(s, cursor, MaxTimestamp) : x.value \in req.condition})
        taken   == SubSeq(matches, 1, Min({limit, Len(matches)}))
    IN  [met |-> Len(taken) >= min, samples |-> SubSeq(taken, 1, Min({req.max_count, Len(taken)}))]

\* read_current on a key that is not of another type.
ReadCurrent(k, cursor, req) ==
    IF db[k] = None THEN [met |-> FALSE, samples |-> <<>>] ELSE CollectSamples(db[k], cursor, req)

Reply(how, p, samples) == [how |-> how, pending |-> p, samples |-> samples]
ErrorReply(p)          == Reply("error", p, <<>>)

Say(replies) == answer' = [kind |-> "read", to |-> replies]

\* ts_read_cmd: what is there, or an error where blocking is denied, or block.
Read(c, k, req) ==
    LET cursor == Resolve(req.spec, IF db[k] = Foreign THEN None ELSE db[k])
        p      == [key |-> k, cursor |-> cursor, request |-> req]
        now    == ReadCurrent(k, cursor, req)
    IN  /\ Quiet /\ clients[c] = None
        /\ \/ /\ db[k] = Foreign
              /\ Say(c :> Reply("error", None, <<>>)) /\ UNCHANGED clients
           \/ /\ db[k] # Foreign /\ (~req.block \/ now.met)
              /\ Say(c :> Reply("now", p, now.samples)) /\ UNCHANGED clients
           \/ /\ db[k] # Foreign /\ req.block /\ ~now.met
              /\ Say(c :> ErrorReply(p)) /\ UNCHANGED clients
           \/ /\ db[k] # Foreign /\ req.block /\ ~now.met
              /\ clients' = [clients EXCEPT ![c] = p] /\ NothingSaid
        /\ UNCHANGED <<db, policy, ready, writes>>

\* on_ready: the reply, or None to stay blocked.  A deleted key ends the wait with nothing, a
\* key of another type with an error.
OnReady(p) ==
    LET now == ReadCurrent(p.key, p.cursor, p.request)
    IN  IF db[p.key] = Foreign THEN ErrorReply(p)
        ELSE IF db[p.key] = None THEN Reply("gone", p, <<>>)
        ELSE IF now.met THEN Reply("ready", p, now.samples)
        ELSE None

\* The server processes a signalled key: every client blocked on it is offered its callback.
ServeReady(k) ==
    LET offers == {c \in Clients : clients[c] # None /\ clients[c].key = k}
        served == {c \in offers : OnReady(clients[c]) # None}
    IN  /\ k \in ready
        /\ ready' = ready \ {k}
        /\ clients' = [c \in Clients |-> IF c \in served THEN None ELSE clients[c]]
        /\ IF served = {} THEN NothingSaid ELSE Say([c \in served |-> OnReady(clients[c])])
        /\ UNCHANGED <<db, policy, writes>>

\* on_timeout: also CLIENT UNBLOCK.  Whatever qualifies now.
OnTimeout(c) ==
    /\ clients[c] # None
    /\ Say(c :> IF db[clients[c].key] = Foreign THEN ErrorReply(clients[c])
                ELSE Reply("timeout", clients[c],
                           ReadCurrent(clients[c].key, clients[c].cursor, clients[c].request).samples))
    /\ clients' = [clients EXCEPT ![c] = None]
    /\ UNCHANGED <<db, policy, ready, writes>>

Timeout(c)   == clients[c] # None /\ clients[c].request.finite /\ OnTimeout(c)

\* free_privdata with no reply.
Disconnect(c) ==
    /\ clients[c] # None
    /\ clients' = [clients EXCEPT ![c] = None]
    /\ NothingSaid /\ UNCHANGED <<db, policy, ready, writes>>

Deliver == answer # None /\ answer' = None /\ UNCHANGED <<db, policy, clients, ready, writes>>

-----------------------------------------------------------------------------
Init ==
    /\ db = [k \in Keys |-> IF k \in InputKeys THEN None ELSE EmptySeries(0)]
    /\ policy \in KeyPolicies
    /\ clients = [c \in Clients |-> None]
    /\ ready = {}
    /\ writes = 0
    /\ answer = None

Next ==
    \/ \E k \in InputKeys, r \in Retentions : Create(k, r) \/ Alter(k, r)
    \/ \E k \in InputKeys, x \in InputSamples : Add(k, x)
    \/ \E k \in InputKeys, x \in InputIncrements : Incr(k, x)
    \/ \E b \in InputBatches : Madd(b)
    \/ \E k \in InputKeys, b \in InputBulks : AddBulk(k, b)
    \/ \E k \in InputKeys, p \in InputRemovals : DeleteRange(k, p[1], p[2])
    \/ \E k \in InputKeys, v \in {None, Foreign} : DropKey(k, v)
    \/ \E c \in Clients, k \in InputKeys, q \in InputRequests : Read(c, k, q)
    \/ \E k \in InputKeys : ServeReady(k)
    \/ \E c \in Clients : Timeout(c) \/ Disconnect(c)
    \/ Deliver

Spec == Init /\ [][Next]_vars

-----------------------------------------------------------------------------
(* What the commands promise, on a plain map from timestamps to values *)

RefLast(m) == IF m = <<>> THEN None ELSE Sample(Max(DOMAIN m), m[Max(DOMAIN m)])

\* One TS.ADD on a plain map.
RefAdd(m, retention, x, pol) ==
    LET last == RefLast(m)
    IN  IF last # None /\ retention # 0 /\ x.timestamp < last.timestamp - retention
          THEN [map |-> m, result |-> Refused("too_old")]
        ELSE IF last # None /\ IsDuplicate(x, last, pol)
          THEN [map |-> m, result |-> Result("ignored", last.timestamp)]
        ELSE IF x.timestamp \in DOMAIN m /\ DuplicateValue(pol, m[x.timestamp], x.value) = None
          THEN [map |-> m, result |-> Refused("duplicate")]
        ELSE [map |-> (x.timestamp :> IF x.timestamp \in DOMAIN m
                                        THEN DuplicateValue(pol, m[x.timestamp], x.value)
                                        ELSE x.value) @@ m,
              result |-> Result("ok", x.timestamp)]

RefAddAll(start, items, pol) ==
    FoldLeft(LAMBDA acc, x : LET r == RefAdd(acc.map, start.retention, x, pol)
                             IN  [map |-> r.map, results |-> Append(acc.results, r.result)],
             [map |-> start.map, results |-> <<>>], items)

\* What reads of the map may return.
RefVisible(m, retention) ==
    IF m = <<>> \/ retention = 0 THEN m
    ELSE Restrict(m, {t \in DOMAIN m : t >= Max(DOMAIN m) - retention})

\* After TS.MADD every reply, and every series, is what the same items sent as TS.ADD one after
\* the other would have given, whatever their order, however the merge groups, sizes and splits
\* chunks, and although the retention trim comes last.
MaddExact ==
    answer # None /\ answer.kind = "madd" =>
        \A k \in DOMAIN answer.before :
            LET ref == RefAddAll(answer.before[k], GroupItems(answer.items, k), policy[k])
                got == MapSeq(LAMBDA i : Shown(answer.replies[i]), Group(answer.items, k))
            IN  /\ got = MapSeq(LAMBDA r : Shown(r), ref.results)
                /\ IsSeries(k) => PlainMap(db[k]) = RefVisible(ref.map, answer.before[k].retention)

\* The items of a bulk that count: in timestamp order, the first of each timestamp.
FirstOfEach(items) ==
    FoldLeft(LAMBDA acc, x : IF acc # <<>> /\ Last(acc).timestamp = x.timestamp THEN acc ELSE Append(acc, x),
             <<>>, MapSeq(LAMBDA i : items[i], SortedOrder(items)))

\* TS.ADDBULK stores, and counts as added, what TS.ADD of its items in timestamp order would,
\* a repeated timestamp left out.
BulkExact ==
    answer # None /\ answer.kind = "addbulk" =>
        LET ref == RefAddAll(answer.before, FirstOfEach(answer.items), policy[answer.key])
        IN  /\ answer.added = Len(SelectSeq(ref.results, LAMBDA r : r.kind = "ok"))
            /\ IsSeries(answer.key) =>
                  PlainMap(db[answer.key]) = RefVisible(ref.map, answer.before.retention)

\* Whatever mix of single writes and batches built a series, its chunks are in order and
\* disjoint, its metadata is theirs, and no chunk is past the size at which it is split.
SeriesSound ==
    \A k \in Keys : IsSeries(k) =>
        LET s == db[k]
        IN  /\ \A i \in 1 .. Len(s.chunks) - 1 : LastTimestamp(s.chunks[i]) < FirstTimestamp(s.chunks[i + 1])
            /\ s.total_samples = SampleCount(s.chunks)
            /\ [s EXCEPT !.total_samples = SampleCount(s.chunks)] = UpdateFirstLastTimestamps(s)
            /\ Compressed \/ \A i \in DOMAIN s.chunks : 4 * ChunkLen(s.chunks[i]) <= 5 * ChunkCapacity + 4

\* Every way of writing several samples at once stores, and answers, what single writes would
\* have, and leaves chunks that later reads and writes can rely on.
WritesExact == MaddExact /\ BulkExact /\ SeriesSound

\* A blocked client whose threshold stored data meets.  Only growth signals, so a client with a
\* CONDITION may also be satisfied by a rewrite, which the documentation leaves to its timeout.
Satisfied(c) ==
    /\ clients[c] # None /\ clients[c].request.condition = Values
    /\ \/ db[clients[c].key] \in {None, Foreign}
       \/ ReadCurrent(clients[c].key, clients[c].cursor, clients[c].request).met

\* Nobody sleeps through what it waits for: a blocked TS.READ without CONDITION whose min_count
\* is met, or whose key became another type, has its key signalled, whichever command did it and
\* whatever the retention trim of that command dropped.  A key that was missing when the client
\* blocked stays unsignalled while it is missing.
NoLostWakeup ==
    \A c \in Clients :
        Satisfied(c) /\ db[clients[c].key] # None => clients[c].key \in ready

\* A reply to TS.READ holds the oldest visible samples from the client's cursor on that meet its
\* CONDITION, at most max_count; on a ready key at least min_count; never one older than what a
\* client that asked with `$` had been able to see.
ReadsExact ==
    answer # None /\ answer.kind = "read" =>
        \A c \in DOMAIN answer.to :
            LET r == answer.to[c]
                p == r.pending
                m == IF IsSeries(p.key) THEN PlainMap(db[p.key]) ELSE <<>>
                match == {t \in DOMAIN m : p.cursor # None /\ t >= p.cursor /\ m[t] \in p.request.condition}
            IN  r.how # "error" =>
                  /\ Len(r.samples) = Min({p.request.max_count, Cardinality(match)})
                  /\ \A i \in DOMAIN r.samples :
                        LET t == r.samples[i].timestamp
                        IN  t \in match /\ m[t] = r.samples[i].value
                            /\ Cardinality({u \in match : u < t}) = i - 1
                  /\ r.how = "ready" => Len(r.samples) >= p.request.min_count
                  /\ r.how = "gone" => db[p.key] = None
=============================================================================
