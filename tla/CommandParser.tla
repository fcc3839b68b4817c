--------------------------- MODULE CommandParser ---------------------------
(***************************************************************************)
(* The argument parsers of the reading commands: how a flat list of words   *)
(* becomes the options of TS.RANGE, TS.NRANGE, TS.MRANGE, TS.MGET, TS.MDEL, *)
(* TS.JOIN, TS.READ, TS.LABELSTATS, TS.QUERYLABELS, TS.QUERYINDEX and the   *)
(* FILTER-keyed metadata commands.                                          *)
(*                                                                         *)
(* A word is a string; what it reads as (a number, a duration, a selector)  *)
(* is given by Reading(kind, word), None when the word is not of that kind. *)
(* A parser takes the words that are left and returns ok, what is then left *)
(* and a value.  The wording of an error is left out.                       *)
(***************************************************************************)
EXTENDS Join

CONSTANTS Reading(_, _),
          MaxTsValues,         \* MAX_TS_VALUES_FILTER
          MaxLabels,           \* MAX_LABELS_PER_SERIES
          MaxLimit,            \* MAX_STATS_RESULTS_LIMIT
          DefaultLimit,        \* DEFAULT_STATS_RESULTS_LIMIT
          Clock                \* current_time_millis while the command runs

Fail == [ok |-> FALSE, rest |-> <<>>, val |-> None]
Ok(rest, v) == [ok |-> TRUE, rest |-> rest, val |-> v]

(* CommandArgToken.  Keywords are matched whatever their case; the words of *)
(* the model are spelled one way.                                           *)
Tokens ==
    { "AGGREGATION", "ALIGN", "ALLOW_EXACT_MATCH", "ANTI", "ASOF", "BUCKETTIMESTAMP",
      "CHUNK_SIZE", "COMPRESSED", "COMPRESSION", "COUNT", "DECIMAL_DIGITS", "DIRECTION",
      "DUPLICATE_POLICY", "EMPTY", "ENCODING", "END", "EXCLUDEEMPTY", "FALSE", "FILTER",
      "FILTER_BY_TS", "FILTER_BY_VALUE", "FILTER_BY_RANGE", "FULL", "GROUPBY", "IGNORE",
      "INNER", "LABEL", "LABELS", "LATEST", "LEFT", "LIMIT", "MATCH", "METRIC", "METHOD",
      "NAME", "NEAREST", "NEXT", "NOT", "ON_DUPLICATE", "OUTPUT", "PREVIOUS", "PRIOR",
      "REDUCE", "RETENTION", "RIGHT", "ROUNDING", "SEASONALITY", "SELECTED_LABELS", "SEMI",
      "SIGNIFICANT_DIGITS", "START", "STEP", "HASHTAG", "TIMESTAMP", "TRUE", "UNCOMPRESSED",
      "WITHLABELS" }

(* parse_command_arg_token, with the default for a word that is no keyword. *)
TokenOf(word) == IF word \in Tokens THEN word ELSE "INVALID"
Peeks(args, tokens) == args # <<>> /\ Head(args) \in tokens

(* One operand of a kind: a missing or unreadable word fails the command.   *)
Operand(kind, args) ==
    IF args = <<>> THEN Fail
    ELSE LET v == Reading(kind, Head(args))
         IN  IF v = None THEN Fail ELSE Ok(Tail(args), v)
Word(args) == IF args = <<>> THEN Fail ELSE Ok(Tail(args), Head(args))
Such(r, Test(_)) == IF ~r.ok THEN Fail ELSE IF Test(r.val) THEN r ELSE Fail
Then(r, Go(_)) == IF r.ok THEN Go(r) ELSE Fail

(* expect_next_token                                                        *)
Expect(args, token) == IF Peeks(args, {token}) THEN Ok(Tail(args), token) ELSE Fail

--------------------------------------------------------------------------
(* Single operands.                                                         *)

ParseCount(args) == Such(Operand("integer", args), LAMBDA n : n >= 1)
ParseLimit(args) == Such(Operand("integer", args), LAMBDA n : n >= 1 /\ n <= MaxLimit)

(* parse_bucket_duration_arg: a bare integer is milliseconds.  Zero would   *)
(* reach the bucket arithmetic, so either spelling of it is refused here.   *)
ParseBucketDuration(args) ==
    LET int == Operand("integer", args)
    IN  IF int.ok THEN Such(int, LAMBDA n : n > 0)
        ELSE Such(Operand("duration", args), LAMBDA n : n # 0)

(* parse_value_filter: NaN bounds are refused, inverted ones are not.       *)
ParseValueFilter(args) ==
    LET number(a) == Such(Operand("number", a), LAMBDA x : x # NaN)
    IN  Then(number(args), LAMBDA lo :
          Then(number(lo.rest), LAMBDA hi : Ok(hi.rest, [min |-> lo.val, max |-> hi.val])))

(* parse_timestamp_range: an absent end is `+`; no order is required.       *)
LatestBound == [at |-> "latest", ts |-> 0]
ParseTimestampRange(args) ==
    Then(Operand("bound", args), LAMBDA from :
        IF from.rest = <<>> THEN Ok(<<>>, [from |-> from.val, to |-> LatestBound])
        ELSE Then(Operand("bound", from.rest), LAMBDA to :
               Ok(to.rest, [from |-> from.val, to |-> to.val])))

--------------------------------------------------------------------------
(* Variable-length lists: they end at a stop token or at the last word.     *)

(* is_stop_token_or_end *)
StopsAt(args, stop) == args = <<>> \/ Peeks(args, stop)

RECURSIVE Until(_, _, _)
(* for_each_arg_until_stop: the readings of the words up to the stop.       *)
Until(kind, args, stop) ==
    IF StopsAt(args, stop) THEN Ok(args, <<>>)
    ELSE Then(Operand(kind, args), LAMBDA one :
           Then(Until(kind, one.rest, stop), LAMBDA more : Ok(more.rest, <<one.val>> \o more.val)))

ParseTimestampFilter(args, stop) ==
    Such(Until("timestamp", args, stop), LAMBDA l : l # <<>> /\ Len(l) <= MaxTsValues)

(* parse_label_list: the requested order is kept, a repeated name refused.  *)
ParseLabelList(args, stop) ==
    Such(Until("label", args, stop),
         LAMBDA l : Len(l) <= MaxLabels /\ Cardinality(ToSet(l)) = Len(l))

(* validate_selector_list: some selector bounds the keys to look at.        *)
BoundedList(l) == \E i \in DOMAIN l : l[i].bounded
ParseSelectorList(args, stop) == Such(Until("selector", args, stop), BoundedList)

(* parse_hash_tags: one word, split at commas; no tag may be empty.         *)
ParseHashTags(args) ==
    Such(Operand("tags", args), LAMBDA tags : \A i \in DOMAIN tags : tags[i] # "")

(* parse_filter_by_range_options: the range is resolved against the clock.  *)
ParseFilterByRange(args) ==
    LET exclude == Peeks(args, {"NOT"})
    IN  Then(ParseTimestampRange(IF exclude THEN Tail(args) ELSE args), LAMBDA r :
          Ok(r.rest, [exclude |-> exclude, dates |-> GetTimestamps(r.val, Clock)]))

--------------------------------------------------------------------------
(* AGGREGATION.                                                             *)

(* A part of the comma list: its name, and what follows it as symbols.  An  *)
(* operator of two symbols is tried before one of one.                      *)
Operators == {"==", "!=", ">", ">=", "<", "<="}
OperatorOf(symbols) ==
    LET two == IF Len(symbols) >= 2 THEN symbols[1] \o symbols[2] ELSE ""
    IN  CASE two \in Operators -> [op |-> two, rest |-> SubSeq(symbols, 3, Len(symbols))]
          [] symbols[1] \in Operators -> [op |-> symbols[1], rest |-> Tail(symbols)]
          [] OTHER -> [op |-> "", rest |-> symbols]

(* split_aggregator_condition and parse_inline_condition.                   *)
Condition(op, v) == IF v = None THEN Fail ELSE Ok(<<>>, [op |-> op, value |-> v])
InlineCondition(at) ==
    IF at.op = "" \/ Len(at.rest) # 1 THEN Fail ELSE Condition(at.op, Reading("float", at.rest[1]))
ParseCondition(symbols) == InlineCondition(OperatorOf(symbols))

ParseAggregator(part) ==
    IF part.name \notin Kinds THEN Fail
    ELSE IF part.cond = <<>> THEN Ok(<<>>, [kind |-> part.name, filter |-> None])
    ELSE Then(ParseCondition(part.cond), LAMBDA c :
           Ok(<<>>, [kind |-> part.name, filter |-> c.val]))

(* parse_aggregation_list, with the checks of build_aggregator_configs.     *)
BuildConfigs(each, rest) ==
    IF /\ \A i \in DOMAIN each : each[i].ok
       /\ \A i, j \in DOMAIN each : i # j => each[i].val.kind # each[j].val.kind
       /\ Len(each) <= MaxAggregations
       /\ \A i \in DOMAIN each : ValidConfig(each[i].val)
    THEN Ok(rest, MapSeq(LAMBDA r : r.val, each)) ELSE Fail
ParseAggregationList(args) ==
    Then(Operand("aggregators", args), LAMBDA list :
        BuildConfigs(MapSeq(ParseAggregator, list.val), list.rest))

(* parse_aggregation_modifiers: up to three, in any order, the last of a    *)
(* kind counting.                                                           *)
RECURSIVE Modifiers(_, _, _)
Modifiers(args, agg, more) ==
    IF more = 0 \/ ~Peeks(args, {"ALIGN", "EMPTY", "BUCKETTIMESTAMP"}) THEN Ok(args, agg)
    ELSE CASE Head(args) = "EMPTY" -> Modifiers(Tail(args), [agg EXCEPT !.empty = TRUE], more - 1)
           [] Head(args) = "ALIGN" ->
                Then(Operand("align", Tail(args)), LAMBDA a :
                    Modifiers(a.rest, [agg EXCEPT !.align = a.val], more - 1))
           [] Head(args) = "BUCKETTIMESTAMP" ->
                Then(Operand("bucketTs", Tail(args)), LAMBDA b :
                    Modifiers(b.rest, [agg EXCEPT !.bucketTs = b.val], more - 1))

Bucketing(duration) ==
    [configs |-> <<>>, duration |-> duration, align |-> [at |-> "default", ts |-> 0],
     bucketTs |-> "start", empty |-> FALSE]

(* One aggregator list per key, then the duration and the modifiers that    *)
(* every key shares.                                                        *)
RECURSIVE Lists(_, _)
Lists(args, n) ==
    IF n = 0 THEN Ok(args, <<>>)
    ELSE Then(ParseAggregationList(args), LAMBDA one :
           Then(Lists(one.rest, n - 1), LAMBDA more : Ok(more.rest, <<one.val>> \o more.val)))

ParseNRangeAggregation(args, keyCount) ==
    Then(Lists(args, keyCount), LAMBDA lists :
      Then(ParseBucketDuration(lists.rest), LAMBDA d :
        Then(Modifiers(d.rest, Bucketing(d.val), 3), LAMBDA shared :
          Ok(shared.rest, MapSeq(LAMBDA l : [shared.val EXCEPT !.configs = l], lists.val)))))

(* parse_aggregation_options                                                *)
ParseAggregation(args) ==
    Then(ParseNRangeAggregation(args, 1), LAMBDA a : Ok(a.rest, a.val[1]))

(* ALIGN before AGGREGATION: its alignment replaces that of the clause.     *)
ParseAlignForNRange(args, keyCount) ==
    Then(Operand("align", args), LAMBDA a :
      Then(Expect(a.rest, "AGGREGATION"), LAMBDA t :
        Then(ParseNRangeAggregation(t.rest, keyCount), LAMBDA aggs :
          Ok(aggs.rest, MapSeq(LAMBDA g : [g EXCEPT !.align = a.val], aggs.val)))))
ParseAlignForAggregation(args) ==
    Then(ParseAlignForNRange(args, 1), LAMBDA a : Ok(a.rest, a.val[1]))

(* validate_align_against_bounds                                            *)
AlignFits(range, agg) ==
    agg # None => /\ ~(range.from.at = "earliest" /\ agg.align.at = "start")
                  /\ ~(range.to.at = "latest" /\ agg.align.at = "end")

(* GROUPBY label REDUCE reducer: first, last and rate do not reduce.        *)
ParseGrouping(args) ==
    Then(Word(args), LAMBDA label :
      Then(Expect(label.rest, "REDUCE"), LAMBDA r :
        Then(Operand("aggregators", r.rest), LAMBDA list :
          IF Len(list.val) # 1 THEN Fail
          ELSE Then(ParseAggregator(list.val[1]), LAMBDA c :
                 IF c.val.kind \notin {"first", "last", "rate"} /\ ValidConfig(c.val)
                 THEN Ok(list.rest, [label |-> label.val, config |-> c.val]) ELSE Fail))))

--------------------------------------------------------------------------
(* The option list.  One record holds the options of every command; a       *)
(* command reads and writes the fields it has.                              *)
InnerJoin == [kind |-> "inner", strategy |-> "previous", tolerance |-> None, exact |-> TRUE]
NoOptions ==
    [keys |-> <<>>, from |-> None, to |-> None, count |-> None, agg |-> None, aggs |-> <<>>,
     tsFilter |-> None, valueFilter |-> None, latest |-> FALSE, filters |-> <<>>, group |-> None,
     withLabels |-> FALSE, selected |-> <<>>, excludeEmpty |-> FALSE, tags |-> <<>>,
     type |-> InnerJoin, reducer |-> None, limit |-> None, dates |-> None, label |-> None]

JoinKinds == [ANTI |-> "anti", FULL |-> "full", INNER |-> "inner", LEFT |-> "left",
              RIGHT |-> "right", SEMI |-> "semi"]
Strategies == [PREVIOUS |-> "previous", NEXT |-> "next", NEAREST |-> "nearest"]

RangeClauses == {"ALIGN", "AGGREGATION", "COUNT", "FILTER_BY_VALUE", "FILTER_BY_TS", "LATEST"}
MGetClauses == {"SELECTED_LABELS", "FILTER", "LATEST", "WITHLABELS", "HASHTAG"}
JoinClauses == DOMAIN JoinKinds \cup {"AGGREGATION", "ASOF", "COUNT", "FILTER_BY_VALUE",
                                      "FILTER_BY_TS", "REDUCE"}

(* The clauses a command takes, and the tokens its lists stop at.           *)
Clauses(cmd) ==
    CASE cmd \in {"range", "nrange"} -> RangeClauses
      [] cmd = "mrange" -> RangeClauses \cup MGetClauses \cup {"EXCLUDEEMPTY", "GROUPBY"}
      [] cmd = "mget" -> MGetClauses
      [] cmd = "join" -> JoinClauses
      [] cmd = "metadata" -> {"FILTER_BY_RANGE", "FILTER", "LIMIT", "HASHTAG"}
      [] cmd = "stats" -> {"LABEL", "LIMIT", "HASHTAG", "FILTER"}

StopTokensNoLatest(cmd) ==
    CASE cmd \in {"range", "nrange"} -> (RangeClauses \ {"LATEST"}) \cup {"BUCKETTIMESTAMP"}
      [] cmd = "mrange" -> (Clauses("mrange") \ {"LATEST"}) \cup {"BUCKETTIMESTAMP", "REDUCE"}
      [] cmd = "metadata" -> {"FILTER_BY_RANGE", "LIMIT", "HASHTAG"}
      [] cmd = "stats" -> {"HASHTAG"}
      [] OTHER -> Clauses(cmd)

StopTokens(cmd) ==
    CASE cmd \in {"range", "nrange"} -> RangeClauses \cup {"BUCKETTIMESTAMP"}
      [] cmd = "mrange" -> Clauses("mrange") \cup {"BUCKETTIMESTAMP", "REDUCE"}
      [] cmd = "metadata" -> {"FILTER_BY_RANGE", "LIMIT", "HASHTAG"}
      [] cmd = "stats" -> {"HASHTAG"}
      [] OTHER -> Clauses(cmd)

(* parse_asof_join_options: ASOF [PREVIOUS | NEXT | NEAREST] [tolerance]    *)
(* [ALLOW_EXACT_MATCH [TRUE | FALSE]]; a word starting with a digit is the  *)
(* tolerance.                                                               *)
ParseAsof(args) ==
    LET named == Peeks(args, DOMAIN Strategies)
        at    == IF named THEN Tail(args) ELSE args
        timed == at # <<>> /\ Reading("digit", Head(at)) # None
        tol   == IF timed THEN Operand("duration", at) ELSE Ok(at, None)
    IN  Then(tol, LAMBDA t :
          LET exact == Peeks(t.rest, {"ALLOW_EXACT_MATCH"})
              after == IF exact THEN Tail(t.rest) ELSE t.rest
              told  == exact /\ Peeks(after, {"TRUE", "FALSE"})
          IN  Ok(IF told THEN Tail(after) ELSE after,
                 [kind |-> "asof", strategy |-> IF named THEN Strategies[Head(args)] ELSE "previous",
                  tolerance |-> t.val, exact |-> ~(told /\ Head(after) = "FALSE")]))

(* The operands of one clause, and the options with its value in place.     *)
Clause(cmd, o, token, args) ==
    LET Put(r, Into(_)) == Then(r, LAMBDA v : Ok(v.rest, Into(v.val)))
        Flag(p) == Ok(args, p)
        stop == StopTokens(cmd)
    IN  CASE token = "ALIGN" /\ cmd = "nrange" ->
               Put(ParseAlignForNRange(args, Len(o.keys)), LAMBDA v : [o EXCEPT !.aggs = v])
          [] token = "ALIGN" /\ cmd # "nrange" ->
               Put(ParseAlignForAggregation(args), LAMBDA v : [o EXCEPT !.agg = v])
          [] token = "AGGREGATION" /\ cmd = "nrange" ->
               Put(ParseNRangeAggregation(args, Len(o.keys)), LAMBDA v : [o EXCEPT !.aggs = v])
          [] token = "AGGREGATION" /\ cmd # "nrange" ->   \* a join takes one aggregator
               Put(Such(ParseAggregation(args), LAMBDA v : cmd = "join" => Len(v.configs) = 1),
                   LAMBDA v : [o EXCEPT !.agg = v])
          [] token = "COUNT" -> Put(ParseCount(args), LAMBDA v : [o EXCEPT !.count = v])
          [] token = "LIMIT" -> Put(ParseLimit(args), LAMBDA v : [o EXCEPT !.limit = v])
          [] token = "LABEL" -> Put(Word(args), LAMBDA v : [o EXCEPT !.label = v])
          [] token = "FILTER_BY_VALUE" ->
               Put(ParseValueFilter(args), LAMBDA v : [o EXCEPT !.valueFilter = v])
          [] token = "FILTER_BY_TS" ->
               Put(ParseTimestampFilter(args, stop), LAMBDA v : [o EXCEPT !.tsFilter = v])
          [] token = "FILTER_BY_RANGE" ->
               Put(ParseFilterByRange(args), LAMBDA v : [o EXCEPT !.dates = v])
          [] token = "FILTER" ->          \* the metadata commands gather every FILTER
               Put(ParseSelectorList(args, stop), LAMBDA v :
                   [o EXCEPT !.filters = IF cmd = "metadata" THEN @ \o v ELSE v])
          [] token = "GROUPBY" -> Put(ParseGrouping(args), LAMBDA v : [o EXCEPT !.group = v])
          [] token = "SELECTED_LABELS" ->
               Put(Such(ParseLabelList(args, stop), LAMBDA l : l # <<>>),
                   LAMBDA v : [o EXCEPT !.selected = v])
          [] token = "HASHTAG" ->         \* only TS.MGET refuses an option as the tag
               IF cmd = "mget" /\ Peeks(args, stop) THEN Fail
               ELSE Put(ParseHashTags(args), LAMBDA v : [o EXCEPT !.tags = v])
          [] token = "ASOF" -> Put(ParseAsof(args), LAMBDA v : [o EXCEPT !.type = v])
          [] token = "REDUCE" -> Put(Operand("reducer", args), LAMBDA v : [o EXCEPT !.reducer = v])
          [] token \in DOMAIN JoinKinds ->
               Flag([o EXCEPT !.type = [InnerJoin EXCEPT !.kind = JoinKinds[token]]])
          [] token = "LATEST" -> Flag([o EXCEPT !.latest = TRUE])
          [] token = "WITHLABELS" -> Flag([o EXCEPT !.withLabels = TRUE])
          [] token = "EXCLUDEEMPTY" -> Flag([o EXCEPT !.excludeEmpty = TRUE])

(* RepeatedOptions: in strict compatibility mode the first of a repeated    *)
(* option is kept, otherwise the last; the operands are read either way.    *)
(* ALIGN takes the AGGREGATION after it along, so it fills both slots.      *)
Slots(token) == IF token = "ALIGN" THEN {"ALIGN", "AGGREGATION"} ELSE {token}
AcceptsLast(strict, seen, token) == TRUE
Accepts(strict, seen, token) == strict => Slots(token) \cap seen = {}

(* What may not be said twice: a join type, and the FILTER of TS.MGET.      *)
JoinTypes == DOMAIN JoinKinds \cup {"ASOF"}
SaidTwice(cmd, token, seen) ==
    \/ cmd = "join" /\ token \in JoinTypes /\ JoinTypes \cap seen # {}
    \/ cmd = "mget" /\ token = "FILTER" /\ token \in seen

RECURSIVE Options(_, _, _, _, _)
Options(cmd, strict, args, o, seen) ==
    IF args = <<>> THEN Ok(<<>>, o)
    ELSE LET token == Head(args)
         IN  IF token \notin Clauses(cmd) \/ SaidTwice(cmd, token, seen) THEN Fail
             ELSE Then(Clause(cmd, o, token, Tail(args)), LAMBDA r :
                    Options(cmd, strict, r.rest,
                            IF Accepts(strict, seen, token) THEN r.val ELSE o,
                            seen \cup Slots(token)))

Ranged(r, keys) == [NoOptions EXCEPT !.keys = keys, !.from = r.val.from, !.to = r.val.to]

(* Timestamps of the filter outside the range are dropped.                  *)
Clipped(o) ==
    LET w == GetTimestamps(o, Clock)
    IN  IF o.tsFilter = None THEN o
        ELSE [o EXCEPT !.tsFilter = SelectSeq(@, LAMBDA t : w.start <= t /\ t <= w.end)]
Finished(r, Test(_)) == Then(Such(r, Test), LAMBDA v : Ok(<<>>, Clipped(v.val)))

ParseRangeOptions(args, strict) ==
    Then(ParseTimestampRange(args), LAMBDA r :
        Finished(Options("range", strict, r.rest, Ranged(r, <<>>), {}),
                 LAMBDA o : AlignFits(o, o.agg)))

(* numkeys, that many keys, and at least the two words of the range.        *)
ParseNumkeysAndKeys(args) ==
    Then(Operand("integer", args), LAMBDA n :
        IF n.val < 1 \/ Len(n.rest) < n.val + 2 THEN Fail
        ELSE Ok(SubSeq(n.rest, n.val + 1, Len(n.rest)), SubSeq(n.rest, 1, n.val)))

ParseNRangeOptions(args, strict) ==
    Then(ParseNumkeysAndKeys(args), LAMBDA k :
      Then(ParseTimestampRange(k.rest), LAMBDA r :
        Finished(Options("nrange", strict, r.rest, Ranged(r, k.val), {}),
                 LAMBDA o : o.aggs # <<>> => AlignFits(o, o.aggs[1]))))

ParseMRangeOptions(args, strict) ==
    Then(ParseTimestampRange(args), LAMBDA r :
        Finished(Options("mrange", strict, r.rest, Ranged(r, <<>>), {}),
                 LAMBDA o : /\ o.filters # <<>>
                            /\ AlignFits(o, o.agg)
                            /\ ~(o.selected # <<>> /\ o.withLabels)
                            /\ ~(o.excludeEmpty /\ o.group # None)))

ParseMGetOptions(args) ==
    Such(Options("mget", FALSE, args, NoOptions, {}),
         LAMBDA o : o.filters # <<>> /\ ~(o.selected # <<>> /\ o.withLabels))

(* parse_join_args, after the range.                                        *)
ParseJoinArgs(args) ==
    Then(ParseTimestampRange(args), LAMBDA r :
        Such(Options("join", FALSE, r.rest, Ranged(r, <<>>), {}), Accepted))

ParseMetadataArgs(args, requireMatchers) ==
    Such(Options("metadata", FALSE, args, NoOptions, {}),
         LAMBDA o : requireMatchers => o.filters # <<>>)

ParseStatsArgs(args) ==
    Options("stats", FALSE, args, [NoOptions EXCEPT !.limit = DefaultLimit], {})

(* TS.QUERYINDEX: FILTER_BY_RANGE and HASHTAG, two at most, come before the *)
(* first selector; a word after it is a selector.                           *)
RECURSIVE Leading(_, _, _)
Leading(args, o, more) ==
    IF more = 0 \/ ~Peeks(args, {"FILTER_BY_RANGE", "HASHTAG"}) THEN Ok(args, o)
    ELSE Then(Clause("metadata", o, Head(args), Tail(args)), LAMBDA r :
           Leading(r.rest, r.val, more - 1))

ParseQueryIndexArgs(args) ==
    Then(Leading(args, NoOptions, 2), LAMBDA r :
      Then(ParseSelectorList(r.rest, {}), LAMBDA l : Ok(<<>>, [r.val EXCEPT !.filters = l.val])))

(* [HASHTAG tags] FILTER selector..., the tail of TS.QUERYLABELS and of     *)
(* TS.MDEL.                                                                 *)
Tagged(args, o) ==
    IF Peeks(args, {"HASHTAG"}) THEN Clause("metadata", o, "HASHTAG", Tail(args)) ELSE Ok(args, o)
Filtered(args, o) ==
    Then(Expect(args, "FILTER"), LAMBDA f :
      Then(ParseSelectorList(f.rest, {}), LAMBDA l : Ok(<<>>, [o EXCEPT !.filters = l.val])))

(* TS.QUERYLABELS LABELS | VALUES label, then the tail, FILTER optional.    *)
ParseQueryLabelsArgs(args) ==
    LET subtype == CASE Peeks(args, {"LABELS"}) -> Ok(Tail(args), None)
                     [] Peeks(args, {"VALUES"}) -> Word(Tail(args))
                     [] OTHER -> Fail
    IN  Then(subtype, LAMBDA s :
          Then(Tagged(s.rest, [NoOptions EXCEPT !.label = s.val]), LAMBDA t :
            IF t.rest = <<>> THEN t ELSE Filtered(t.rest, t.val)))

(* TS.MDEL: whole series with FILTER first or after HASHTAG, otherwise a    *)
(* range, whose end may not be left out, then [HASHTAG] FILTER.             *)
ParseMDelArgs(args) ==
    Then(Tagged(args, NoOptions), LAMBDA t :
        IF Peeks(t.rest, {"FILTER"}) THEN Filtered(t.rest, t.val)
        ELSE IF t.val.tags # <<>> \/ Len(args) < 2 THEN Fail
        ELSE Then(ParseTimestampRange(args), LAMBDA r :
               Then(Tagged(r.rest, Ranged(r, <<>>)), LAMBDA u : Filtered(u.rest, u.val))))

--------------------------------------------------------------------------
(* TS.READ: each clause once, in any order.                                 *)
NoRead == [block |-> None, maxCount |-> None, condition |-> None]

(* CursorSpec::parse: only a plain integer is a literal timestamp here.     *)
ParseCursor(args) ==
    IF Peeks(args, {"-", "+", "$"}) THEN Ok(Tail(args), Head(args))
    ELSE Such(Operand("integer", args), LAMBDA n : n >= 0)

ParsePositive(args) == Such(Operand("integer", args), LAMBDA n : n > 0)
ParseBlock(args) ==
    LET int == Operand("integer", args)
        timeout == IF int.ok THEN Such(int, LAMBDA n : n >= 0) ELSE Operand("duration", args)
    IN  Then(timeout, LAMBDA t :
          Then(ParsePositive(t.rest), LAMBDA n :
            Ok(n.rest, [timeout |-> t.val, minCount |-> n.val])))
ParseReadCondition(args) ==
    Then(Such(Word(args), LAMBDA w : w \in Operators), LAMBDA op :
      Then(Operand("float", op.rest), LAMBDA v : Ok(v.rest, [op |-> op.val, value |-> v.val])))

RECURSIVE ReadClauses(_, _)
ReadClauses(args, o) ==
    CASE args = <<>> -> Ok(<<>>, o)
      [] Peeks(args, {"BLOCK"}) /\ o.block = None ->
           Then(ParseBlock(Tail(args)), LAMBDA b : ReadClauses(b.rest, [o EXCEPT !.block = b.val]))
      [] Peeks(args, {"MAX_COUNT"}) /\ o.maxCount = None ->
           Then(ParsePositive(Tail(args)), LAMBDA n :
               ReadClauses(n.rest, [o EXCEPT !.maxCount = n.val]))
      [] Peeks(args, {"CONDITION"}) /\ o.condition = None ->
           Then(ParseReadCondition(Tail(args)), LAMBDA c :
               ReadClauses(c.rest, [o EXCEPT !.condition = c.val]))
      [] OTHER -> Fail

ParseReadOptions(args) ==
    Such(ReadClauses(args, NoRead),
         LAMBDA o : (o.block # None /\ o.maxCount # None) => o.block.minCount <= o.maxCount)
============================================================================
