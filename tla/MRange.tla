------------------------------- MODULE MRange ------------------------------
(***************************************************************************)
(* A clustered TS.MRANGE: the coordinator latches what its configuration    *)
(* allows, sends every shard the same request, folds the answers in as they *)
(* arrive, and replies.  Meanwhile the configuration may be changed,        *)
(* samples written, and some shards may run the release from before         *)
(* push-down.                                                               *)
(*                                                                         *)
(* seen is a history variable: the series each shard answered from.         *)
(***************************************************************************)
EXTENDS Query

CONSTANTS Shards,
          Home,         \* Home[key]: the shard that owns a key
          Databases,    \* the databases the cluster may hold
          MRangeQueries, Pivots,
          LateValues,   \* values written while a query is under way
          MaxLate

VARIABLES db, enabled, legacy, cmd, waiting, failed, seen, reply, late

mrangeVars == <<db, enabled, legacy, cmd, waiting, failed, seen, reply, late>>

MRangeInit ==
    /\ db \in Databases
    /\ enabled \in BOOLEAN
    /\ legacy \in SUBSET Shards
    /\ cmd = None /\ waiting = {} /\ failed = FALSE
    /\ seen = <<>> /\ reply = None /\ late = 0

(* The metas a shard's index answers the selector with, in key order.       *)
Local(shard) == SelectSeq(db, LAMBDA m : Home[m.key] = shard)

SetConfig ==
    /\ waiting # {} /\ cmd.series = <<>> /\ cmd.partials = <<>>
    /\ enabled' = ~enabled
    /\ UNCHANGED <<db, legacy, cmd, waiting, failed, seen, reply, late>>

(* A sample is written behind the last one of a series.                     *)
Write(i, v) ==
    LET s == db[i].series
        n == Len(s.chunks)
    IN  /\ waiting # {} /\ waiting # Shards /\ late < MaxLate
        /\ db' = [db EXCEPT ![i].series.chunks =
                     [@ EXCEPT ![n] = Append(@, Sample(LastTimestamp(s) + 1, v))]]
        /\ late' = late + 1
        /\ UNCHANGED <<enabled, legacy, cmd, waiting, failed, seen, reply>>

AskShards(q) ==
    /\ cmd = None /\ reply = None
    /\ cmd' = NewCommand(q, enabled)
    /\ waiting' = Shards
    /\ UNCHANGED <<db, enabled, legacy, failed, seen, reply, late>>

(* A shard answers what it holds now; on_response takes it in.              *)
Answer(shard) ==
    /\ shard \in waiting
    /\ \E resp \in {LocalResponse(Local(shard), AsRead(shard \in legacy, GenerateRequest(cmd)))} :
        /\ cmd' = IF resp = None THEN cmd ELSE IngestResponse(cmd, resp)
        /\ failed' = (failed \/ resp = None)
    /\ waiting' = waiting \ {shard}
    /\ seen' = seen \o Local(shard)
    /\ UNCHANGED <<db, enabled, legacy, reply, late>>

(* One shard's error fails the command; otherwise the answers are combined. *)
Reply ==
    /\ cmd # None /\ waiting = {} /\ reply = None
    /\ reply' = [q |-> cmd.q, pivot |-> FALSE,
                 results |-> IF failed THEN None ELSE ProcessResponses(cmd)]
    /\ UNCHANGED <<db, enabled, legacy, cmd, waiting, failed, seen, late>>

(* TS.NRANGE over keys of one node.                                         *)
NRange(q) ==
    /\ cmd = None /\ reply = None
    /\ reply' = [q |-> q, pivot |-> TRUE,
                 results |-> NRangeReply(MapSeq(LAMBDA m : m.series, db), q)]
    /\ UNCHANGED <<db, enabled, legacy, cmd, waiting, failed, seen, late>>

MRangeNext ==
    \/ SetConfig
    \/ \E i \in DOMAIN db, v \in LateValues : Write(i, v)
    \/ \E q \in MRangeQueries : AskShards(q)
    \/ \E q \in Pivots : NRange(q)
    \/ \E shard \in Shards : Answer(shard)
    \/ Reply

MRangeSpec == MRangeInit /\ [][MRangeNext]_vars

--------------------------------------------------------------------------
(* What the client reads of a result.                                       *)
Displayed(results) ==
    MapSeq(LAMBDA r : [key |-> r.key, labels |-> r.labels, sources |-> r.sources,
                       items |-> r.data.items], results)

Combined == reply # None /\ ~reply.pivot

(* The series the shards answered from, as one node would hold them.        *)
SeenByKey == MapSeq(LAMBDA k : seen[CHOOSE i \in DOMAIN seen : seen[i].key = k], KeysOf(seen))

(* EMPTY outside interior gaps needs the series itself, which only a shard  *)
(* that buckets has; increase and irate depend on the order of the series.  *)
Comparable(q) ==
    /\ q.agg # None /\ q.agg.empty => cmd.pushdown /\ legacy = {}
    /\ q.group # None => q.group.config.kind \notin {"increase", "irate"}

(* CLUSTER AGREES.  Whatever order the answers arrive in, whichever shards  *)
(* push down, and however the configuration moves meanwhile, the clustered  *)
(* reply is the reply of one node holding the same series.                  *)
ClusterAgrees ==
    Combined /\ Comparable(reply.q) =>
        /\ reply.results # None
        /\ Displayed(reply.results) = Displayed(ProcessMRange(SeenByKey, reply.q))

(* The reducer over one timestamp of a group.                               *)
RefGroupValue(config, vs) ==
    LET samples == MapSeq(LAMBDA v : Sample(0, v), vs)
    IN  IF \E s \in ToSet(samples) : Counts(config, s) THEN RefValue(config, 0, samples)
        ELSE IF config.kind \in ReducesEmptyToZero THEN Zero ELSE NaN

AsRows(items, q) == IF IsMulti(q) THEN items ELSE MapSeq(LAMBDA s : Row(s.ts, <<s.v>>), items)

RefReduced(all, q) ==
    LET at(ts, c) == MapSeq(LAMBDA r : r.vs[c], SelectSeq(all, LAMBDA r : r.ts = ts))
    IN  Cut(q, MapSeq(LAMBDA ts : Row(ts, MapSeq(LAMBDA c : RefGroupValue(q.group.config, at(ts, c)),
                                                 Columns(ColumnCount(q)))),
                      Ascending({r.ts : r \in ToSet(all)})))
RefGroup(metas, q) ==
    RefReduced(Concat(MapSeq(LAMBDA m : AsRows(RefUncut(m.series, q), q), metas)), q)

(* GROUP EXACT.  A grouped reply has one result per value of the label, and *)
(* at each timestamp the reducer's value over the members' own buckets.     *)
GroupExact ==
    Combined /\ Comparable(reply.q) /\ reply.q.group # None =>
        LET q       == reply.q
            members(v) == SelectSeq(SeenByKey, LAMBDA m : LabelValue(m, q.group.label) = v)
            values  == {LabelValue(m, q.group.label) : m \in ToSet(seen)} \ {None}
        IN  /\ reply.results # None
            /\ MapSeq(LAMBDA r : r.key, reply.results) = Ascending(values)
            /\ \A r \in ToSet(reply.results) :
                  AsRows(r.data.items, q) = RefGroup(members(r.key), q)

RefPivot(own, q) ==
    LET wide        == IF q.agg = None THEN 1 ELSE Len(q.agg.configs)
        cell(rows)  == IF rows = <<>> THEN MapSeq(LAMBDA c : NaN, Columns(wide)) ELSE rows[1].vs
        cells(ts)   == MapSeq(LAMBDA rows : cell(SelectSeq(rows, LAMBDA r : r.ts = ts)), own)
        times       == UNION {{r.ts : r \in ToSet(rows)} : rows \in ToSet(own)}
    IN  Cut(q, MapSeq(LAMBDA ts : Row(ts, Concat(cells(ts))), Ascending(times)))

(* PIVOT EXACT.  A TS.NRANGE row carries each key's own value at that       *)
(* timestamp in the key's columns, NaN where the key has none; COUNT cuts   *)
(* the joined rows in the requested order.                                  *)
PivotExact ==
    reply # None /\ reply.pivot =>
        reply.results = RefPivot(MapSeq(LAMBDA m : AsRows(RefUncut(m.series, reply.q), reply.q), db),
                                 reply.q)

(* Every reply over several series is exact: a combined one is that of one  *)
(* node, a grouped one reduces the members of each group, and a pivoted one *)
(* has a cell for each key and timestamp.                                   *)
MultiRangeExact == ClusterAgrees /\ GroupExact /\ PivotExact
============================================================================
