----------------------------- MODULE MRangeOps -----------------------------
(***************************************************************************)
(* TS.MRANGE and TS.MREVRANGE: the standalone query over many series, and   *)
(* the pieces of its clustered form: the request on the wire, what a shard  *)
(* answers, and what the coordinator makes of the answers.                  *)
(*                                                                         *)
(* A meta is a series with its key and its labels.  Keys and label values   *)
(* are numbers so that sorting is visible; label value 0 is the empty       *)
(* string.  A query adds to the fields of a range query: group (None or a   *)
(* label name and a reducer), withLabels, selected and excludeEmpty.        *)
(***************************************************************************)
EXTENDS QueryOps

CONSTANTS WireWidth,        \* 2^32: COUNT and the bucket duration travel as u32
          MaxAggregations   \* MAX_AGGREGATIONS

EmptyString == 0

RECURSIVE Ascending(_)
Ascending(S) ==
    IF S = {} THEN <<>>
    ELSE LET m == CHOOSE x \in S : \A y \in S : x <= y IN <<m>> \o Ascending(S \ {m})

(* Series::label_value                                                      *)
LabelValue(meta, name) ==
    LET hits == SelectSeq(meta.labels, LAMBDA l : l.name = name)
    IN  IF hits = <<>> THEN None ELSE hits[1].value

(* convert_labels: a selected label the series lacks is reported empty.     *)
ConvertLabels(meta, q) ==
    CASE ~q.withLabels /\ q.selected = <<>> -> <<>>
      [] q.selected = <<>> -> meta.labels
      [] OTHER -> MapSeq(LAMBDA name : [name |-> name,
                             value |-> IF LabelValue(meta, name) = None THEN EmptyString
                                       ELSE LabelValue(meta, name)], q.selected)

(* build_mrange_grouped_labels                                              *)
GroupedLabels(q, label, sources) ==
    IF ~q.withLabels THEN <<>>
    ELSE << [name |-> q.group.label, value |-> label],
            [name |-> "__reducer__", value |-> q.group.config.kind],
            [name |-> "__source__", value |-> sources] >>

Chunk(samples) == [rows |-> FALSE, items |-> samples]
Rows(rows) == [rows |-> TRUE, items |-> rows]

(* get_latest: an open bucket the value filter rejects is not reported.     *)
LatestMatching(meta, q) == IfPassing(q, LatestSample(meta.series, q))

(* SampleLimit::apply                                                       *)
ApplyLimit(limit, stream) ==
    CASE limit = None -> stream
      [] limit.at = "head" -> Take(stream, limit.n)
      [] limit.at = "tail" -> TailIter(stream, limit.n)

--------------------------------------------------------------------------
(* Standalone.                                                              *)

(* One series: handle_non_grouped's closure.                                *)
Bucketwise(series, q, latest, reverse) ==
    IF IsMulti(q) THEN Rows(RowIterator(series, q, latest, reverse))
    ELSE Chunk(RangeIterator(series, q, latest, reverse))
Limited(limit, data) == [data EXCEPT !.items = ApplyLimit(limit, @)]
SeriesData(meta, q, limit) ==
    Limited(limit, Bucketwise(meta.series, q, LatestMatching(meta, q), q.reverse))

HandleNonGrouped(metas, q, limit, groupOf(_)) ==
    MapSeq(LAMBDA m : [key |-> m.key, group |-> groupOf(m), labels |-> ConvertLabels(m, q),
                       sources |-> <<>>, data |-> SeriesData(m, q, limit)],
           metas)

(* group_series_by_label: a series without the label is in no group.        *)
GroupSeriesByLabel(metas, q) ==
    LET values == {LabelValue(metas[i], q.group.label) : i \in DOMAIN metas} \ {None}
    IN  MapSeq(LAMBDA v : [label  |-> v,
                           series |-> SelectSeq(metas, LAMBDA m : LabelValue(m, q.group.label) = v)],
               Ascending(values))

KeysOf(list) == Ascending({list[i].key : i \in DOMAIN list})

(* get_grouped_samples and get_grouped_rows: each series is bucketed on its *)
(* own, ascending, then merged and reduced; COUNT and direction come last.  *)
GroupedSamples(metas, q, count) ==
    Finish(SampleReducer(
               MultiSeriesSampleIter(MapSeq(LAMBDA m : RangeIterator(m.series, q, LatestMatching(m, q),
                                                                     FALSE), metas)),
               q.group.config),
           q.reverse, count)

GroupedRows(metas, q, count) ==
    Finish(RowReducer(
               MultiSeriesRowIter(MapSeq(LAMBDA m : RowIterator(m.series, q, LatestMatching(m, q),
                                                                FALSE), metas)),
               q.group.config, Len(q.agg.configs)),
           q.reverse, count)

HandleGrouping(metas, q) ==
    LET uncut == [q EXCEPT !.count = None]
    IN  MapSeq(LAMBDA g :
                 [key |-> g.label, group |-> g.label, sources |-> KeysOf(g.series),
                  labels |-> GroupedLabels(q, g.label, KeysOf(g.series)),
                  data |-> IF IsMulti(q) THEN Rows(GroupedRows(g.series, uncut, q.count))
                           ELSE Chunk(GroupedSamples(g.series, uncut, q.count))],
               GroupSeriesByLabel(metas, q))

NonEmpty(results) == SelectSeq(results, LAMBDA r : r.data.items # <<>>)
Kept(q, results) == IF q.excludeEmpty THEN NonEmpty(results) ELSE results

(* sort_mrange_results                                                      *)
SortResults(results, grouped) ==
    LET by(r) == IF grouped THEN r.group ELSE r.key
    IN  MapSeq(LAMBDA k : results[CHOOSE i \in DOMAIN results : by(results[i]) = k],
               Ascending({by(results[i]) : i \in DOMAIN results}))

(* process_mrange, not clustered.                                           *)
ProcessMRange(metas, q) ==
    SortResults(Kept(q, IF q.group # None THEN HandleGrouping(metas, q)
                        ELSE HandleNonGrouped(metas, q, None, LAMBDA m : None)),
                q.group # None)

--------------------------------------------------------------------------
(* The request on the wire.  None of an optional number is 0, an absent     *)
(* timestamp list is empty.                                                 *)

(* From<&AggregationOptions> and back; a duration of 0 is refused.          *)
EncodeAggregation(agg) ==
    IF agg = None THEN None ELSE [agg EXCEPT !.duration = @ % WireWidth]
AggregationDecodes(agg) ==
    \/ agg = None
    \/ /\ agg.configs # <<>> /\ Len(agg.configs) <= MaxAggregations
       /\ \A i, j \in DOMAIN agg.configs : i # j => agg.configs[i].kind # agg.configs[j].kind
       /\ \A i \in DOMAIN agg.configs : ValidConfig(agg.configs[i])
       /\ agg.duration # 0

(* From<&RangeOptions> for RangeRequest                                     *)
EncodeRange(q) ==
    [q EXCEPT !.count = IF @ = None THEN 0 ELSE @ % WireWidth,
              !.tsFilter = IF @ = None THEN <<>> ELSE @,
              !.agg = EncodeAggregation(@)]

(* TryFrom<&RangeRequest> for RangeOptions                                  *)
DecodeRange(r) ==
    [r EXCEPT !.count = IF @ = 0 THEN None ELSE @,
              !.tsFilter = IF @ = <<>> THEN None ELSE @]

(* generate_request: the options and the latched push-down flags.           *)
GenerateRequest(cmd) ==
    [range |-> EncodeRange(cmd.q), applyAggregation |-> cmd.pushdown,
     applyGroupReduce |-> cmd.pushGroup, applyCount |-> cmd.pushCount]

--------------------------------------------------------------------------
(* The response on the wire.                                                *)

(* serialize_rows: one chunk per column; no rows, no columns.               *)
SerializeRows(rows) ==
    IF rows = <<>> THEN <<>>
    ELSE MapSeq(LAMBDA c : MapSeq(LAMBDA r : Sample(r.ts, r.vs[c]), rows),
                Columns(Len(rows[1].vs)))

DeserializeRows(columns) ==
    MapSeq(LAMBDA i : Row(columns[1][i].ts, MapSeq(LAMBDA col : col[i].v, columns)),
           Columns(Len(columns[1])))

(* TryFrom<MRangeSeriesResult> for SeriesRangeResponse and back.            *)
EncodeSeries(r) ==
    [key |-> r.key, group |-> IF r.group = None THEN EmptyString ELSE r.group,
     labels |-> r.labels,
     columns |-> IF r.data.rows THEN SerializeRows(r.data.items) ELSE <<r.data.items>>]

DecodeSeries(w) ==
    [key |-> w.key, group |-> w.group, labels |-> w.labels, sources |-> <<>>,
     data |-> CASE Len(w.columns) = 0 -> Rows(<<>>)
                [] Len(w.columns) = 1 -> Chunk(w.columns[1])
                [] OTHER -> Rows(DeserializeRows(w.columns))]

(* The symbol table: label names and values of a response as indices into   *)
(* two dictionaries, each entry assigned where it is first met.             *)
FirstMet(seq) == FoldLeft(LAMBDA seen, x : IF x \in ToSet(seen) THEN seen ELSE Append(seen, x),
                          <<>>, seq)
IndexIn(table, x) == CHOOSE i \in DOMAIN table : table[i] = x

InternLabels(series) ==
    LET all    == Concat(MapSeq(LAMBDA s : s.labels, series))
        names  == FirstMet(MapSeq(LAMBDA l : l.name, all))
        values == FirstMet(MapSeq(LAMBDA l : l.value, all))
    IN  [names |-> names, values |-> values,
         series |-> MapSeq(LAMBDA s : [s EXCEPT !.labels =
                        MapSeq(LAMBDA l : <<IndexIn(names, l.name), IndexIn(values, l.value)>>, @)],
                    series)]

ResolveLabels(resp) ==
    MapSeq(LAMBDA s : [s EXCEPT !.labels =
               MapSeq(LAMBDA ref : [name |-> resp.names[ref[1]], value |-> resp.values[ref[2]]], @)],
           resp.series)

--------------------------------------------------------------------------
(* A shard.                                                                 *)

ColumnCount(q) == IF IsMulti(q) THEN Len(q.agg.configs) ELSE 1

(* process_mrange_group_partials: local members of each group, bucketed one *)
(* by one, merged, and reduced to one partial state per timestamp.          *)
PartialStates(q, merged) ==
    IF IsMulti(q) THEN PartialRowReducer(merged, ForConfig(q.group.config), ColumnCount(q))
    ELSE PartialSampleReducer(merged, ForConfig(q.group.config))
GroupPartials(metas, q, limit) ==
    MapSeq(LAMBDA g :
             [label |-> g.label, sources |-> KeysOf(g.series), columns |-> ColumnCount(q),
              states |-> ApplyLimit(limit, PartialStates(q, KWayMerge(
                  MapSeq(LAMBDA m : Bucketwise(m.series, q, LatestMatching(m, q), FALSE).items,
                         g.series), <<>>)))],
           GroupSeriesByLabel(metas, q))

(* process_mrange on a shard: grouping only tags each series.               *)
ShardSeries(metas, q, limit) ==
    Kept(q, HandleNonGrouped(metas, [q EXCEPT !.group = None], limit,
                LAMBDA m : IF q.group = None THEN None ELSE LabelValue(m, q.group.label)))

(* get_local_response.  Direction and COUNT are taken off the query; COUNT  *)
(* comes back as a head or tail limit when the coordinator asked for it.    *)
SeriesResponse(wire, bucketed) ==
    [series |-> wire.series, names |-> wire.names, values |-> wire.values,
     bucketed |-> bucketed, partials |-> <<>>]
LocalResponse(metas, req) ==
    LET full  == DecodeRange(req.range)
        limit == IF req.applyCount /\ full.count # None
                 THEN [at |-> IF full.reverse THEN "tail" ELSE "head", n |-> full.count]
                 ELSE None
        bare  == [full EXCEPT !.count = None, !.reverse = FALSE]
        q     == IF req.applyAggregation THEN bare ELSE [bare EXCEPT !.agg = None]
    IN  IF ~AggregationDecodes(full.agg) THEN None
        ELSE IF req.applyGroupReduce /\ full.group # None
        THEN [series |-> <<>>, names |-> <<>>, values |-> <<>>, bucketed |-> TRUE,
              partials |-> GroupPartials(metas, bare, limit)]
        ELSE SeriesResponse(InternLabels(MapSeq(EncodeSeries, ShardSeries(metas, q, limit))),
                            req.applyAggregation)

(* A peer from before push-down ignores the three flags and EXCLUDEEMPTY.   *)
AsRead(old, req) ==
    IF ~old THEN req
    ELSE [req EXCEPT !.applyAggregation = FALSE, !.applyGroupReduce = FALSE,
                     !.applyCount = FALSE, !.range.excludeEmpty = FALSE]

--------------------------------------------------------------------------
(* The coordinator.                                                         *)

(* MRangeFanoutCommand::new latches what the configuration allows.          *)
NewCommand(q, enabled) ==
    LET push == enabled /\ q.agg # None
    IN  [q |-> q, pushdown |-> push,
         pushGroup |-> enabled /\ q.group # None /\ ForConfig(q.group.config) # None,
         pushCount |-> enabled /\ q.count # None /\ (q.agg = None \/ push),
         series |-> <<>>, partials |-> <<>>]

(* on_response: labels resolved, each series tagged with the shard's echo.  *)
IngestResponse(cmd, resp) ==
    [cmd EXCEPT !.series = @ \o MapSeq(LAMBDA s : [s |-> s, bucketed |-> resp.bucketed],
                                       ResolveLabels(resp)),
                !.partials = @ \o resp.partials]

(* normalize_response_series: raw samples of a shard that did not bucket    *)
(* are bucketed here, EMPTY filling interior gaps only.                     *)
BucketHere(r, q) ==
    [r EXCEPT !.data = Chunk(SampleAdapter(@.items, [q EXCEPT !.count = None], None, FALSE, NoFill))]
NormalizeSeries(cmd, q) ==
    MapSeq(LAMBDA x : DecodeSeries(IF x.bucketed \/ ~cmd.pushdown \/ IsMulti(q) THEN x.s
                                   ELSE EncodeSeries(BucketHere(DecodeSeries(x.s), q))),
           cmd.series)

(* series_rows_ascending: rows as they came, or raw samples bucketed here.  *)
RowsAscending(r, q) ==
    IF r.data.rows THEN r.data.items ELSE AggregateRows(r.data.items, q, NoFill)

(* construct_group_map                                                      *)
GroupMap(results) ==
    MapSeq(LAMBDA v : [label |-> v, series |-> SelectSeq(results, LAMBDA r : r.group = v)],
           Ascending({results[i].group : i \in DOMAIN results} \ {None}))

(* compensate_group_partials                                                *)
CompensatePartials(results, q) ==
    MapSeq(LAMBDA g :
             [label |-> g.label, sources |-> KeysOf(g.series), columns |-> ColumnCount(q),
              states |-> PartialStates(q,
                  IF IsMulti(q)
                  THEN MultiSeriesRowIter(MapSeq(LAMBDA r : RowsAscending(r, q), g.series))
                  ELSE MultiSeriesSampleIter(MapSeq(LAMBDA r : r.data.items, g.series)))],
           GroupMap(results))

(* handle_group_partials: states of equal timestamps merged across shards   *)
(* in arrival order, then finalized.  The column count was checked (Fits).  *)
Fits(partials, q) == \A i \in DOMAIN partials : partials[i].columns = ColumnCount(q)

HandlePartials(partials, q) ==
    LET kind == PartialKind(q.group.config)
        of(label) == SelectSeq(partials, LAMBDA p : p.label = label)
        rows(label) == Concat(MapSeq(LAMBDA p : p.states, of(label)))
        merged(label, ts) ==
            MapSeq(LAMBDA c : PartialFinalize(kind,
                       FoldLeft(LAMBDA acc, r : IF r.ts = ts THEN PartialMerge(kind, acc, r.vs[c])
                                                ELSE acc, EmptyPartial, rows(label))),
                   Columns(ColumnCount(q)))
        out(label) == MapSeq(LAMBDA ts : Row(ts, merged(label, ts)),
                             Ascending({r.ts : r \in ToSet(rows(label))}))
        sources(label) == Ascending(UNION {ToSet(p.sources) : p \in ToSet(of(label))})
    IN  MapSeq(LAMBDA label :
                 [key |-> label, group |-> label, sources |-> sources(label),
                  labels |-> GroupedLabels(q, label, sources(label)),
                  data |-> IF IsMulti(q) THEN Rows(Finish(out(label), q.reverse, q.count))
                           ELSE Chunk(Take(IF q.reverse THEN Reverse(AsSamples(out(label)))
                                           ELSE AsSamples(out(label)), q.count))],
               Ascending({p.label : p \in ToSet(partials)}))

(* process_series_list: descending raw samples by a stable sort.            *)
Descending(samples) ==
    LET all == Reverse(Ascending({s.ts : s \in ToSet(samples)}))
    IN  Concat(MapSeq(LAMBDA ts : SelectSeq(samples, LAMBDA s : s.ts = ts), all))

ProcessList(list, q) ==
    LET streams == MapSeq(LAMBDA r : r.data.items, list)
        reducer == IF q.group = None THEN None ELSE q.group.config
        base    == IF q.agg = None /\ q.reverse THEN Descending(Concat(streams))
                   ELSE IF Len(list) = 1 THEN streams[1] ELSE MultiSeriesSampleIter(streams)
    IN  SampleAdapter(base, q, reducer, q.agg # None /\ q.reverse, NoFill)

(* reduce_aggregated_group                                                  *)
ReduceAggregated(list, q) ==
    Finish(SampleReducer(
               MultiSeriesSampleIter(MapSeq(LAMBDA r : BucketHere(r, q).data.items, list)),
               q.group.config),
           q.reverse, q.count)

(* process_group                                                            *)
ProcessGroup(g, q) ==
    [key |-> g.label, group |-> g.label, sources |-> KeysOf(g.series),
     labels |-> GroupedLabels(q, g.label, KeysOf(g.series)),
     data |-> CASE IsMulti(q) ->
                     Rows(Finish(RowReducer(MultiSeriesRowIter(
                                                MapSeq(LAMBDA r : RowsAscending(r, q), g.series)),
                                            q.group.config, ColumnCount(q)),
                                 q.reverse, q.count))
                [] ~IsMulti(q) /\ q.agg # None -> Chunk(ReduceAggregated(g.series, q))
                [] OTHER -> Chunk(ProcessList(g.series, q))]

(* process_series_samples                                                   *)
ProcessSeries(r, q) ==
    [r EXCEPT !.data = IF IsMulti(q) THEN Rows(Finish(RowsAscending(r, q), q.reverse, q.count))
                       ELSE Chunk(ProcessList(<<r>>, q))]

(* reply: the filters were applied by the shards and are cleared; once      *)
(* every series is bucketed so is a single aggregation.                     *)
FromPartials(parts, q) ==
    IF ~Fits(parts, q) THEN None ELSE SortResults(HandlePartials(parts, q), TRUE)
Assemble(cmd, results, q) ==
    IF cmd.pushGroup THEN FromPartials(cmd.partials \o CompensatePartials(results, q), q)
    ELSE SortResults(IF q.group # None
                     THEN MapSeq(LAMBDA g : ProcessGroup(g, q), GroupMap(results))
                     ELSE Kept(q, MapSeq(LAMBDA r : ProcessSeries(r, q), results)),
                     q.group # None)
ProcessResponses(cmd) ==
    LET plain == [cmd.q EXCEPT !.latest = FALSE, !.tsFilter = None, !.valueFilter = None]
    IN  Assemble(cmd, NormalizeSeries(cmd, plain),
                 IF cmd.pushdown /\ ~IsMulti(plain) THEN [plain EXCEPT !.agg = None] ELSE plain)
============================================================================
