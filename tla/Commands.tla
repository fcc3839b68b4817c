------------------------------ MODULE Commands ------------------------------
(***************************************************************************)
(* A client puts reading commands together from clauses; the server parses  *)
(* them in the compatibility mode of the moment and, in a cluster, ships    *)
(* them to a shard.  Beside it, what each clause means on its own.          *)
(*                                                                         *)
(* The requests of the clustered commands between the coordinator that      *)
(* parsed them and the shard that carries them out: fanout_codec and the    *)
(* generate_request / get_local_response pair of each command.  Selectors   *)
(* travel as they are here; their own coding is in LabelFilters.            *)
(***************************************************************************)
EXTENDS SeriesSettings

--------------------------------------------------------------------------
(* map_enum!: one table per enum, read in both directions.  A number with   *)
(* no row, 0 (Unspecified) among them, is refused.                          *)
OperatorRows == <<"==", "!=", ">", ">=", "<", "<=">>
BucketRows == <<"start", "end", "mid">>
AlignRows == <<"default", "start", "end", "timestamp">>
AggregationRows ==
    <<"all", "any", "avg", "count", "countall", "countif", "countnan", "first", "increase", "irate",
      "last", "max", "min", "none", "range", "rate", "share", "std.p", "std.s", "sum", "sumif",
      "var.p", "var.s">>

ToWire(rows, v) == CHOOSE i \in DOMAIN rows : rows[i] = v
FromWire(rows, n) == IF n \in DOMAIN rows THEN rows[n] ELSE None

(* FanoutAggregatorConfig                                                   *)
WireConfig(c) ==
    [type |-> ToWire(AggregationRows, c.kind),
     filter |-> IF c.filter = None THEN None
                ELSE [op |-> ToWire(OperatorRows, c.filter.op), value |-> c.filter.value]]
ReadConfig(w) ==
    LET kind == FromWire(AggregationRows, w.type)
        op == IF w.filter = None THEN None ELSE FromWire(OperatorRows, w.filter.op)
        c == [kind |-> kind,
              filter |-> IF w.filter = None THEN None ELSE [op |-> op, value |-> w.filter.value]]
    IN  IF kind = None \/ (w.filter # None /\ op = None) THEN Fail
        ELSE IF ValidConfig(c) THEN Ok(<<>>, c) ELSE Fail

(* FanoutAggregationOptions: the timestamp of the alignment travels beside  *)
(* its kind, and is 0 for the kinds that have none.                         *)
WireAggregation(agg) ==
    IF agg = None THEN None
    ELSE [EncodeAggregation(agg) EXCEPT
            !.configs = MapSeq(WireConfig, @),
            !.bucketTs = ToWire(BucketRows, @),
            !.align = [at |-> ToWire(AlignRows, @.at),
                       ts |-> IF @.at = "timestamp" THEN @.ts ELSE 0]]
ReadAggregation(w) ==
    IF w = None THEN Ok(<<>>, None)
    ELSE LET each == MapSeq(ReadConfig, w.configs)
             agg == [w EXCEPT !.configs = MapSeq(LAMBDA r : r.val, each),
                              !.bucketTs = FromWire(BucketRows, @),
                              !.align = [at |-> FromWire(AlignRows, @.at), ts |-> @.ts]]
         IN  IF /\ \A i \in DOMAIN each : each[i].ok
                /\ agg.bucketTs # None /\ agg.align.at # None
             THEN IF AggregationDecodes(agg) THEN Ok(<<>>, agg) ELSE Fail
             ELSE Fail

(* FanoutGroupingOptions                                                    *)
WireGrouping(g) == IF g = None THEN None ELSE [g EXCEPT !.config = WireConfig(@)]
ReadGrouping(w) ==
    IF w = None THEN Ok(<<>>, None)
    ELSE Then(ReadConfig(w.config), LAMBDA c : Ok(<<>>, [w EXCEPT !.config = c.val]))

--------------------------------------------------------------------------
(* DateRange: the coordinator resolves the bounds against its clock, and    *)
(* the shard takes them as given.                                           *)
AtTime(ts) == [at |-> "specific", ts |-> ts]
WireWindow(o, now) ==
    LET w == GetTimestamps(o, now)
    IN  [from |-> AtTime(w.start), to |-> AtTime(w.end)]

(* TryFrom<&MRangeOptions> for MultiRangeRequest, and back.  The hash tags  *)
(* are for the choice of the targets and stay behind.                       *)
WireMRange(o, now) ==
    LET w == WireWindow(o, now)
    IN  [EncodeRange([o EXCEPT !.agg = None]) EXCEPT
            !.from = w.from, !.to = w.to, !.agg = WireAggregation(o.agg),
            !.group = WireGrouping(@), !.tags = <<>>]
ReadMRange(w) ==
    Then(ReadAggregation(w.agg), LAMBDA a :
      Then(ReadGrouping(w.group), LAMBDA g :
        Ok(<<>>, [DecodeRange(w) EXCEPT !.agg = a.val, !.group = g.val])))

(* MGetFanoutCommand                                                        *)
WireMGet(o) ==
    [withLabels |-> o.withLabels, filters |-> o.filters, selected |-> o.selected,
     latest |-> o.latest]
ReadMGet(w) ==
    [NoOptions EXCEPT !.withLabels = w.withLabels, !.filters = w.filters,
                      !.selected = w.selected, !.latest = w.latest]

(* serialize_match_filter_options: no limit, which the coordinator keeps.   *)
WireMatch(o) == [dates |-> o.dates, filters |-> o.filters]
ReadMatch(w) == [NoOptions EXCEPT !.dates = w.dates, !.filters = w.filters]

(* LabelStatsFanoutCommand                                                  *)
WireStats(o) == [limit |-> o.limit % WireWidth, label |-> o.label, filters |-> o.filters]
ReadStats(w) ==
    [NoOptions EXCEPT !.limit = w.limit, !.label = w.label, !.filters = w.filters]

(* QueryLabelsFanoutCommand: the subtype travels beside the label.          *)
SubtypeRows == <<"labels", "values">>
WireLabels(o) ==
    [subtype |-> ToWire(SubtypeRows, IF o.label = None THEN "labels" ELSE "values"),
     label |-> IF o.label = None THEN "" ELSE o.label, filters |-> o.filters]
ReadLabels(w) ==
    LET subtype == FromWire(SubtypeRows, w.subtype)
    IN  IF subtype = None THEN Fail
        ELSE Ok(<<>>, [NoOptions EXCEPT !.filters = w.filters,
                         !.label = IF subtype = "labels" \/ w.label = "" THEN None ELSE w.label])

(* MDelFanoutCommand: the window is resolved when the command is made.      *)
WireMDel(o, now) ==
    LET w == WireWindow(o, now)
    IN  [range |-> IF o.from = None THEN None ELSE w, filters |-> o.filters]
ReadMDel(w) ==
    IF w.range = None THEN [NoOptions EXCEPT !.filters = w.filters]
    ELSE [NoOptions EXCEPT !.filters = w.filters, !.from = w.range.from, !.to = w.range.to]

(* What the shard makes of the request of a command.                        *)
Shipped(cmd, o, now) ==
    CASE cmd = "mrange" -> ReadMRange(WireMRange(o, now))
      [] cmd = "mget" -> Ok(<<>>, ReadMGet(WireMGet(o)))
      [] cmd \in {"metadata", "index"} -> Ok(<<>>, ReadMatch(WireMatch(o)))
      [] cmd = "stats" -> Ok(<<>>, ReadStats(WireStats(o)))
      [] cmd = "labels" -> ReadLabels(WireLabels(o))
      [] cmd = "mdel" -> Ok(<<>>, ReadMDel(WireMDel(o, now)))

-----------------------------------------------------------------------------

(* A clause is its words, whether it is well formed, and the field of the   *)
(* options it gives a value.  A head is the words before the clauses, and   *)
(* what they give.                                                          *)
CONSTANTS CommandClauses(_),   \* the clauses a command is asked with, in a list
          Heads(_),
          MaxClauses

VARIABLES strict,              \* ts-compatibility-mode
          asking,              \* the command being answered and its options
          shard                \* what a shard read of the request

commandVars == <<strict, asking, shard>>

Commanded == {"range", "nrange", "mrange", "mget", "join", "metadata", "stats",
              "index", "labels", "mdel", "read"}
Clustered == {"mrange", "mget", "metadata", "stats", "index", "labels", "mdel"}

CommandsInit == strict = FALSE /\ asking = None /\ shard = None

Parse(cmd, words) ==
    CASE cmd = "range" -> ParseRangeOptions(words, strict)
      [] cmd = "nrange" -> ParseNRangeOptions(words, strict)
      [] cmd = "mrange" -> ParseMRangeOptions(words, strict)
      [] cmd = "mget" -> ParseMGetOptions(words)
      [] cmd = "join" -> ParseJoinArgs(words)
      [] cmd = "metadata" -> ParseMetadataArgs(words, TRUE)
      [] cmd = "stats" -> ParseStatsArgs(words)
      [] cmd = "index" -> ParseQueryIndexArgs(words)
      [] cmd = "labels" -> ParseQueryLabelsArgs(words)
      [] cmd = "mdel" -> ParseMDelArgs(words)
      [] cmd = "read" -> ParseReadOptions(words)

(* The head and the clauses of a command, parsed.                           *)
Issue(cmd, head, line) ==
    /\ asking = None
    /\ \E r \in {Parse(cmd, head.words \o FlattenSeq([i \in DOMAIN line |-> line[i].words]))} :
         asking' = [cmd |-> cmd, head |-> head, line |-> line, strict |-> strict,
                    ok |-> r.ok, val |-> r.val]
    /\ UNCHANGED <<strict, shard>>

(* The request goes to a shard, whose clock may be ahead.                   *)
Ship ==
    /\ asking # None /\ asking.ok /\ asking.cmd \in Clustered /\ shard = None
    /\ shard' = Shipped(asking.cmd, asking.val, Clock)
    /\ UNCHANGED <<strict, asking>>

Answered ==
    /\ asking # None
    /\ asking' = None /\ shard' = None
    /\ UNCHANGED strict

(* CONFIG SET ts-compatibility-mode                                         *)
CompatibilityMode(word) ==
    /\ asking = None
    /\ strict' = ConfigSet([DefaultConfig EXCEPT !.strict = strict],
                           "ts-compatibility-mode", word).val.strict
    /\ UNCHANGED <<asking, shard>>

CommandsNext ==
    \/ \E cmd \in Commanded : \E head \in Heads(cmd), n \in 0 .. MaxClauses :
         \E at \in [1 .. n -> DOMAIN CommandClauses(cmd)] :
             Issue(cmd, head, [i \in 1 .. n |-> CommandClauses(cmd)[at[i]]])
    \/ Ship \/ Answered
    \/ \E word \in {"strict", "extended"} : CompatibilityMode(word)

--------------------------------------------------------------------------
(* What a line of clauses says, clause by clause.                           *)

Name(c) == c.words[1]
NamedIn(line, names) == {i \in DOMAIN line : Name(line[i]) \in names}
Adjoining(line, before, after) ==
    \E i \in 1 .. Len(line) - 1 : Name(line[i]) \in before /\ Name(line[i + 1]) \in after

(* Lists that do not end where the next clause begins: an AGGREGATION takes *)
(* a following ALIGN for its own; a FILTER of the commands whose filter     *)
(* list is their last part takes every word after it.                       *)
OpenEnded(cmd, line) ==
    CASE cmd \in {"range", "nrange", "mrange"} ->
           Adjoining(line, {"ALIGN", "AGGREGATION"}, {"ALIGN"})
      [] cmd = "metadata" -> Adjoining(line, {"FILTER"}, {"FILTER"})
      [] cmd = "stats" -> Adjoining(line, {"FILTER"}, {"FILTER", "LABEL", "LIMIT"})
      [] cmd \in {"labels", "mdel"} -> NamedIn(line, {"FILTER"}) \ {Len(line)} # {}
      [] cmd = "index" -> \/ Cardinality(NamedIn(line, {"HASHTAG", "FILTER_BY_RANGE"})) > 2
                          \/ Adjoining(line, {"a=b"}, {"HASHTAG", "FILTER_BY_RANGE"})
      [] OTHER -> FALSE

(* The order that the commands with a fixed shape ask for.                  *)
InShape(cmd, line) ==
    LET Order == CASE cmd = "labels" -> <<{"LABELS", "VALUES"}, {"HASHTAG"}, {"FILTER"}>>
                   [] cmd = "mdel" -> <<{"2"}, {"HASHTAG"}, {"FILTER"}>>
        Place(i) == CHOOSE p \in 1 .. 3 : Name(line[i]) \in Order[p]
    IN  CASE cmd = "index" -> line # <<>> /\ NamedIn(line, {"a=b"}) # {}
          [] cmd = "labels" -> /\ line # <<>> /\ Place(1) = 1
                               /\ \A i \in 1 .. Len(line) - 1 : Place(i) < Place(i + 1)
          [] cmd = "mdel" -> /\ NamedIn(line, {"FILTER"}) # {}
                             /\ \A i \in 1 .. Len(line) - 1 : Place(i) < Place(i + 1)
          [] OTHER -> TRUE

(* What may be said once.                                                   *)
Once(cmd, line) ==
    CASE cmd = "join" -> Cardinality(NamedIn(line, JoinTypes)) <= 1
      [] cmd = "mget" -> Cardinality(NamedIn(line, {"FILTER"})) <= 1
      [] cmd = "read" -> \A i, j \in DOMAIN line : i # j => Name(line[i]) # Name(line[j])
      [] OTHER -> TRUE

(* What the options must satisfy together.                                  *)
Sound(cmd, o) ==
    CASE cmd = "range" -> AlignFits(o, o.agg)
      [] cmd = "nrange" -> \A i \in DOMAIN o.aggs : AlignFits(o, o.aggs[i])
      [] cmd = "mrange" -> /\ AlignFits(o, o.agg) /\ o.filters # <<>>
                           /\ o.withLabels => o.selected = <<>>
                           /\ o.excludeEmpty => o.group = None
      [] cmd = "mget" -> o.filters # <<>> /\ (o.withLabels => o.selected = <<>>)
      [] cmd = "join" -> IF o.type.kind \in {"semi", "anti"} THEN o.reducer = None
                         ELSE o.agg # None => o.reducer # None
      [] cmd = "metadata" -> o.filters # <<>>
      [] cmd = "read" -> \/ o.block = None \/ o.maxCount = None
                         \/ o.block.minCount <= o.maxCount
      [] OTHER -> TRUE

Base(cmd, head) ==
    CASE cmd = "read" -> NoRead
      [] cmd = "stats" -> [NoOptions EXCEPT !.limit = DefaultLimit]
      [] OTHER -> [NoOptions EXCEPT !.keys = head.keys, !.from = head.from, !.to = head.to]

(* The line's options: a field is that of the one clause that counts.       *)
Meaning(a) ==
    LET of(f) == {i \in DOMAIN a.line : a.line[i].field = f}
        first == a.strict /\ a.cmd \in {"range", "nrange", "mrange"}
        counts(f) == IF first THEN Min(of(f)) ELSE Max(of(f))
        base == Base(a.cmd, a.head)
        plain == [f \in DOMAIN base |->
                    CASE of(f) = {} -> base[f]
                      [] f = "filters" /\ a.cmd \in {"metadata", "index"} ->
                           FlattenSeq(MapSeq(LAMBDA c : c.val,
                                SelectSeq(a.line, LAMBDA c : c.field = "filters")))
                      [] OTHER -> a.line[counts(f)].val]
        ranged == IF a.cmd = "mdel" /\ of("range") # {}
                THEN [plain EXCEPT !.from = a.line[1].val.from, !.to = a.line[1].val.to] ELSE plain
    IN  IF a.cmd \in {"range", "nrange", "mrange"} THEN Clipped(ranged) ELSE ranged

(* A command made of well-formed clauses, in any order and with any         *)
(* repetition, is accepted exactly when every clause is good on its own and *)
(* nothing is said that may not be, and then each option has the value its  *)
(* clause gives it: of a repeated one the first in strict compatibility     *)
(* mode and the last otherwise.  No clause is swallowed by the list before  *)
(* it, even with a label, a key or a tag spelled like a keyword             *)
(* (parse_range_options and its siblings, for_each_arg_until_stop,          *)
(* RepeatedOptions).                                                        *)
ClausesCompose ==
    asking # None /\ ~OpenEnded(asking.cmd, asking.line) =>
        LET line == asking.line
            good == /\ \A i \in DOMAIN line : line[i].ok
                    /\ Once(asking.cmd, line) /\ InShape(asking.cmd, line)
            m == Meaning(asking)
        IN  IF good THEN IF Sound(asking.cmd, m) THEN asking.ok /\ asking.val = m ELSE ~asking.ok
            ELSE ~asking.ok

(* The values the wire carries: what does not fit its 32 bits is cut, an    *)
(* empty timestamp filter is taken for none, and an empty label too.        *)
Carried(o) ==
    /\ o.count # None => o.count < WireWidth
    /\ o.agg # None => o.agg.duration < WireWidth
    /\ o.tsFilter # <<>> /\ o.label # ""

(* The shard carries out the command the coordinator parsed, with every     *)
(* clause it needs and with the window the coordinator's clock gave it,     *)
(* however late the request is read; the hash tags, and the LIMIT of the    *)
(* metadata commands, stay with the coordinator (fanout_codec/conversions.rs*)
(* and the request of each command).                                        *)
ShardReadsRequest ==
    shard # None /\ Carried(asking.val) =>
        LET o == asking.val
            same == IF asking.cmd \in {"metadata", "index"}
                    THEN [o EXCEPT !.limit = None, !.tags = <<>>] ELSE [o EXCEPT !.tags = <<>>]
            window(x, now) == IF x.from = None THEN None ELSE GetTimestamps(x, now)
            unsaid(x) == [x EXCEPT !.from = None, !.to = None]
        IN  /\ shard.ok
            /\ unsaid(shard.val) = unsaid(same)
            /\ window(shard.val, Clock + 3) = window(o, Clock)

(* What is carried out, here or on a shard, is the command as it was        *)
(* written (the parsers of command_parser.rs and the request codec).        *)
CommandsExact == ClausesCompose /\ ShardReadsRequest
=============================================================================
