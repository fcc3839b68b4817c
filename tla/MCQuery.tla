------------------------------ MODULE MCQuery ------------------------------
(* Bounds for Query, Join and MRange, and one run for them and for          *)
(* SeriesSettings and Commands.  They share no state: a behaviour is of one *)
(* part and leaves the others as they began.                                *)
EXTENDS Commands, MRange

VARIABLE part

QueryIdle ==
    /\ series = [chunks |-> <<>>, retention |-> 0, compressed |-> TRUE, open |-> None]
    /\ running = [c \in Configs |-> CreateAggregator(c, Window)] /\ asked = None
JoinIdle == left = NewSide(0) /\ right = NewSide(0) /\ joined = None
MRangeIdle ==
    /\ db = (CHOOSE d \in Databases : TRUE) /\ enabled = FALSE /\ legacy = {} /\ cmd = None
    /\ waiting = {} /\ failed = FALSE /\ seen = <<>> /\ reply = None /\ late = 0

MCInit ==
    /\ SettingsInit /\ CommandsInit
    /\ \/ part = "range" /\ Init /\ JoinIdle /\ MRangeIdle
       \/ part = "join" /\ JoinInit /\ QueryIdle /\ MRangeIdle
       \/ part = "mrange" /\ MRangeInit /\ QueryIdle /\ JoinIdle
       \/ part \in {"settings", "commands"} /\ QueryIdle /\ JoinIdle /\ MRangeIdle

MCNext ==
    /\ UNCHANGED part
    /\ \/ /\ part = "range" /\ Next
          /\ UNCHANGED <<joinVars, mrangeVars, settingsVars, commandVars>>
       \/ /\ part = "join" /\ JoinNext
          /\ UNCHANGED <<vars, mrangeVars, settingsVars, commandVars>>
       \/ /\ part = "mrange" /\ MRangeNext
          /\ UNCHANGED <<vars, joinVars, settingsVars, commandVars>>
       \/ /\ part = "settings" /\ SettingsNext
          /\ UNCHANGED <<vars, joinVars, mrangeVars, commandVars>>
       \/ /\ part = "commands" /\ CommandsNext
          /\ UNCHANGED <<vars, joinVars, mrangeVars, settingsVars>>

MCSpec == MCInit /\ [][MCNext]_<<part, vars, joinVars, mrangeVars, settingsVars, commandVars>>

Plain(kind) == [kind |-> kind, filter |-> None]
If(kind, op, v) == [kind |-> kind, filter |-> [op |-> op, value |-> v]]

MCConfigs ==
    {Plain(k) : k \in Kinds \ IsFiltered}
    \cup {If(k, ">", Num(1)) : k \in IsFiltered \cup HasFilteredVariant}
    \cup {If("countif", "!=", NaN), If("all", "==", NaN), If("share", "<=", Num(1))}

MCValues == {Num(1), Num(4), NaN}

Raw(start, end) ==
    [start |-> start, end |-> end, count |-> None, agg |-> None, tsFilter |-> None,
     valueFilter |-> None, latest |-> FALSE, reverse |-> FALSE]

Bucketed(configs, duration, at, bucketTs, empty) ==
    [configs |-> configs, duration |-> duration, align |-> [at |-> at, ts |-> 1],
     bucketTs |-> bucketTs, empty |-> empty]

Windows == {<<0, 12>>, <<5, 7>>}
Directed(Q) == Q \cup {[q EXCEPT !.reverse = TRUE] : q \in Q}
Counted(Q) == Q \cup {[q EXCEPT !.count = 1] : q \in Q}

RawQueries ==
    LET plain == {Raw(w[1], w[2]) : w \in Windows}
    IN  Directed(Counted(plain)
            \cup {[q EXCEPT !.latest = TRUE] : q \in plain}
            \cup {[q EXCEPT !.valueFilter = [min |-> Num(1), max |-> Num(2)]] : q \in plain}
            \cup {[q EXCEPT !.tsFilter = <<1, 3, 4, 7, 20>>] : q \in plain})

Aggregations ==
    {Bucketed(<<Plain("sum")>>, 2, "default", "start", FALSE),
     Bucketed(<<Plain("max"), Plain("countnan")>>, 3, "end", "end", FALSE)}

Filled ==
    {Bucketed(<<Plain("last")>>, 2, "default", "start", TRUE),
     Bucketed(<<Plain("min"), Plain("last")>>, 3, "timestamp", "mid", TRUE)}

BucketQueries(aggs) == {[Raw(w[1], w[2]) EXCEPT !.agg = a] : w \in Windows, a \in aggs}

AggregateQueries ==
    Directed(BucketQueries(Aggregations \cup Filled))
    \cup {[q EXCEPT !.count = 1, !.reverse = TRUE] : q \in BucketQueries(Aggregations \cup Filled)}
    \cup {[q EXCEPT !.latest = TRUE] : q \in BucketQueries(Aggregations)}
    \cup {[q EXCEPT !.valueFilter = [min |-> Num(2), max |-> Num(5)]]
            : q \in BucketQueries(Aggregations \cup Filled)}
    \cup {[q EXCEPT !.tsFilter = <<1, 3, 4, 7, 20>>] : q \in BucketQueries(Filled)}

MCQueries == RawQueries \cup AggregateQueries

MCSettings == {[retention |-> 0, compressed |-> TRUE], [retention |-> 3, compressed |-> FALSE]}
MCOpenValues == {Num(4)}

--------------------------------------------------------------------------
(* Joins.                                                                   *)

At(k, ts) == [at |-> k, ts |-> ts]
Positional(k) == [kind |-> k, strategy |-> "previous", tolerance |-> None, exact |-> TRUE]
Asof(s, tol, eq) == [kind |-> "asof", strategy |-> s, tolerance |-> tol, exact |-> eq]
Joining(type) ==
    [from |-> At("earliest", 0), to |-> At("latest", 0), type |-> type, tsFilter |-> None,
     valueFilter |-> None, count |-> None, reducer |-> None, agg |-> None]
JoinWindows ==
    {<<At("specific", 2), At("specific", 4)>>, <<At("relative", -6), At("relative", 3)>>,
     <<At("specific", 5), At("latest", 0)>>, <<At("earliest", 0), At("now", 0)>>}
BucketedBy(kind, d, empty, at) ==
    [configs |-> <<Plain(kind)>>, duration |-> d, align |-> [at |-> at, ts |-> 1],
     bucketTs |-> "start", empty |-> empty]

Types ==
    {Positional(k) : k \in {"inner", "left", "right", "full", "semi", "anti"}}
    \cup {Asof(s, tol, eq) : s \in {"previous", "next", "nearest"}, tol \in {None, 1},
                             eq \in BOOLEAN}
Full == Joining(Positional("full"))
MCJoins ==
    {Joining(t) : t \in Types}
    \cup {[Joining(t) EXCEPT !.count = 1] : t \in Types}
    \cup {[Joining(t) EXCEPT !.from = w[1], !.to = w[2]]
             : t \in {Positional("full"), Asof("previous", None, TRUE)}, w \in JoinWindows}
    \cup {[Full EXCEPT !.tsFilter = <<4, 2, 3, 2, 9>>],
          [Joining(Positional("left")) EXCEPT !.valueFilter = [min |-> Num(2), max |-> Num(2)]]}
    \cup {[Full EXCEPT !.reducer = op] : op \in Reducers}
    \cup {[Full EXCEPT !.reducer = "coalesce", !.agg = BucketedBy("sum", 2, e, at), !.count = c]
             : e \in BOOLEAN, at \in {"default", "start"}, c \in {None, 1}}
    \cup {[Joining(Positional("anti")) EXCEPT !.agg = BucketedBy("countall", 3, FALSE, "timestamp")],
          [Joining(Positional("semi")) EXCEPT !.agg = BucketedBy("last", 2, FALSE, "default")]}
MCLeft == {Num(2)}
MCRight == {Num(3)}

--------------------------------------------------------------------------
(* Three series on two shards.                                              *)

MCHome == <<1, 2, 1>>

OneChunk(samples) == [chunks |-> <<samples>>, retention |-> 0, compressed |-> FALSE, open |-> None]
Meta(key, g, samples) ==
    [key |-> key, series |-> OneChunk(samples),
     labels |-> IF g = 0 THEN <<[name |-> "a", value |-> key]>>
                ELSE <<[name |-> "a", value |-> 7], [name |-> "g", value |-> g]>>]

Mixed == <<Sample(1, Num(1)), Sample(2, Num(5)), Sample(6, Num(2))>>
Contents ==
    {Mixed,
     <<Sample(2, Num(3)), Sample(3, NaN)>>,
     <<Sample(1, NaN), Sample(6, Num(4)), Sample(7, Num(4))>>}

Fixed == <<Sample(2, Num(2)), Sample(7, Num(9))>>

MCDatabases ==
    {<<Meta(1, 1, x), Meta(2, 1, Fixed), Meta(3, 2, Fixed)>> : x \in Contents}
    \cup {<<Meta(1, 2, Fixed), Meta(2, 1, Mixed), Meta(3, 1, Mixed)>>}

InTwos(configs, empty) ==
    [configs |-> configs, duration |-> 2, align |-> [at |-> "default", ts |-> 0],
     bucketTs |-> "start", empty |-> empty]

Whole == [start |-> 1, end |-> 6, count |-> None, agg |-> None, tsFilter |-> None,
         valueFilter |-> None, latest |-> FALSE, reverse |-> FALSE, group |-> None,
         withLabels |-> FALSE, selected |-> <<>>, excludeEmpty |-> FALSE]

By(c) == [label |-> "g", config |-> c]

One == InTwos(<<Plain("max")>>, FALSE)
Two == InTwos(<<Plain("sum"), Plain("countnan")>>, FALSE)
Fill == InTwos(<<Plain("last")>>, TRUE)
FillTwo == InTwos(<<Plain("last"), Plain("count")>>, TRUE)

GroupReducers == {Plain("avg"), Plain("var.s"), Plain("countnan"), If("sumif", ">", Num(2))}

Ungrouped ==
    {[Whole EXCEPT !.agg = a, !.count = n, !.reverse = r, !.withLabels = r,
                  !.excludeEmpty = (n = None)]
        : a \in {None, One, Two, Fill, FillTwo}, n \in {None, 1}, r \in BOOLEAN}
    \cup {[Whole EXCEPT !.tsFilter = <<2, 6>>, !.selected = <<"g", "z">>],
          [Whole EXCEPT !.valueFilter = [min |-> Num(2), max |-> Num(4)], !.agg = One,
                       !.excludeEmpty = TRUE]}

Grouped ==
    {[Whole EXCEPT !.agg = a, !.group = By(c)] : a \in {None, One, Two}, c \in GroupReducers}
    \cup {[Whole EXCEPT !.agg = a, !.group = By(c), !.count = 1, !.reverse = r, !.withLabels = TRUE]
            : a \in {None, One, Two}, c \in {Plain("range"), If("any", ">", Num(3))}, r \in BOOLEAN}
    \cup {[Whole EXCEPT !.agg = a, !.group = By(Plain("sum"))] : a \in {Fill, FillTwo}}

MCMRangeQueries == Ungrouped \cup Grouped
MCPivots == {q \in Ungrouped : ~q.excludeEmpty \/ ~q.reverse}
MCLateValues == {Num(5)}

--------------------------------------------------------------------------
(* Words and clauses for SeriesSettings and Commands.                       *)

(* What each word reads as; a word reads as no kind it is not listed under. *)
Numbers == [i \in {"0", "2", "3", "5", "7"} |->
              CASE i = "0" -> 0 [] i = "2" -> 2 [] i = "3" -> 3 [] i = "5" -> 5 [] i = "7" -> 7]
           @@ ("100" :> 100) @@ ("128" :> 128)
Bounds == ("-" :> [at |-> "earliest", ts |-> 0]) @@ ("+" :> [at |-> "latest", ts |-> 0])
          @@ ("*" :> [at |-> "now", ts |-> 0]) @@ ("+5" :> [at |-> "relative", ts |-> 5])
Aligns == ("-" :> [at |-> "start", ts |-> 0]) @@ ("+" :> [at |-> "end", ts |-> 0])
Selector(w) == [text |-> w, bounded |-> w # "a!=b"]
AggWords == ("max" :> <<[name |-> "max", cond |-> <<>>]>>)
            @@ ("sum" :> <<[name |-> "sum", cond |-> <<>>]>>)
            @@ ("last" :> <<[name |-> "last", cond |-> <<>>]>>)
            @@ ("avg,avg" :> <<[name |-> "avg", cond |-> <<>>], [name |-> "avg", cond |-> <<>>]>>)
            @@ ("max,countif(>=2)" :> <<[name |-> "max", cond |-> <<>>],
                                        [name |-> "countif", cond |-> <<">", "=", "2">>]>>)
            @@ ("countif" :> <<[name |-> "countif", cond |-> <<>>]>>)
MCReading(kind, w) ==
    CASE kind \in {"integer", "amount", "duration", "timestamp"} /\ w \in DOMAIN Numbers -> Numbers[w]
      [] kind \in {"number", "float"} /\ w \in DOMAIN Numbers -> Num(Numbers[w])
      [] kind \in {"number", "float"} /\ w = "nan" -> NaN
      [] kind = "bound" /\ w \in DOMAIN Bounds -> Bounds[w]
      [] kind = "bound" /\ w \in DOMAIN Numbers -> AtTime(Numbers[w])
      [] kind = "align" /\ w \in DOMAIN Aligns -> Aligns[w]
      [] kind = "align" /\ w \in DOMAIN Numbers -> [at |-> "timestamp", ts |-> Numbers[w]]
      [] kind = "bucketTs" /\ w \in {"start", "end", "mid"} -> w
      [] kind = "digit" /\ w \in DOMAIN Numbers -> TRUE
      [] kind = "label" -> w
      [] kind = "selector" /\ w \notin DOMAIN Numbers -> Selector(w)
      [] kind = "tags" -> IF w = "t,u" THEN <<"t", "u">> ELSE IF w = "t," THEN <<"t", "">> ELSE <<w>>
      [] kind = "aggregators" /\ w \in DOMAIN AggWords -> AggWords[w]
      [] kind = "reducer" /\ w \in {"sum", "max"} -> w
      [] kind = "metric" /\ w \notin DOMAIN Numbers -> << <<"__name__", w>> >>
      [] OTHER -> None

MCSeriesClauses ==
    { <<"RETENTION", "5">>, <<"RETENTION", "x">>, <<"ENCODING", "gorilla">>, <<"COMPRESSED">>,
      <<"UNCOMPRESSED">>, <<"CHUNK_SIZE", "128">>, <<"CHUNK_SIZE", "100">>,
      <<"DECIMAL_DIGITS", "2">>, <<"SIGNIFICANT_DIGITS", "3">>, <<"SIGNIFICANT_DIGITS", "0">>,
      <<"DUPLICATE_POLICY", "last">>, <<"DUPLICATE_POLICY", "sum">>, <<"ON_DUPLICATE", "min">>,
      <<"METRIC", "LABELS">>, <<"METRIC", "TIMESTAMP">>, <<"IGNORE", "3", "2">>,
      <<"TIMESTAMP", "7">>, <<"LABELS", "l", "TIMESTAMP">>, <<"LABELS">>, <<"LABELS", "l">> }
MCConfigWords ==
    { <<"ts-duplicate-policy", "sum">>, <<"ts-encoding", "uncompressed">>,
      <<"ts-chunk-size-bytes", "128">>, <<"ts-chunk-size-bytes", "100">>,
      <<"ts-retention-policy", "5">>, <<"ts-retention-policy", "100">>,
      <<"ts-ignore-max-time-diff", "3">>, <<"ts-ignore-max-val-diff", "2">>,
      <<"ts-compatibility-mode", "strict">>,
      <<"ts-decimal-digits", "none">>, <<"ts-decimal-digits", "0">>,
      <<"ts-significant-digits", "none">>, <<"ts-significant-digits", "0">>,
      <<"ts-significant-digits", "3">> }

--------------------------------------------------------------------------
(* The clauses, each with what it says.                                     *)
Gives(words, field, val) == [words |-> words, field |-> field, val |-> val, ok |-> TRUE]
Wrong(words) == [words |-> words, field |-> "", val |-> None, ok |-> FALSE]
Plainly(kind) == [kind |-> kind, filter |-> None]
BucketsOf(configs, d) == [Bucketing(d) EXCEPT !.configs = configs]
AtLeastTwo == [kind |-> "countif", filter |-> [op |-> ">=", value |-> Num(2)]]

CountWords == <<Gives(<<"COUNT", "2">>, "count", 2), Gives(<<"COUNT", "3">>, "count", 3),
           Wrong(<<"COUNT", "0">>)>>
Samplings ==
    <<Gives(<<"FILTER_BY_VALUE", "5", "2">>, "valueFilter", [min |-> Num(5), max |-> Num(2)]),
     Wrong(<<"FILTER_BY_VALUE", "nan", "2">>),
     Gives(<<"FILTER_BY_TS", "3">>, "tsFilter", <<3>>),
     Gives(<<"FILTER_BY_TS", "7", "0">>, "tsFilter", <<7, 0>>),
     Wrong(<<"FILTER_BY_TS">>)>>
Buckets ==
    <<Gives(<<"AGGREGATION", "max", "2">>, "agg", BucketsOf(<<Plainly("max")>>, 2)),
     Gives(<<"AGGREGATION", "max,countif(>=2)", "5", "BUCKETTIMESTAMP", "mid", "EMPTY">>, "agg",
           [BucketsOf(<<Plainly("max"), AtLeastTwo>>, 5) EXCEPT !.bucketTs = "mid", !.empty = TRUE]),
     Gives(<<"ALIGN", "-", "AGGREGATION", "sum", "3">>, "agg",
           [BucketsOf(<<Plainly("sum")>>, 3) EXCEPT !.align = Aligns["-"]]),
     Wrong(<<"AGGREGATION", "sum", "0">>), Wrong(<<"AGGREGATION", "avg,avg", "2">>),
     Wrong(<<"AGGREGATION", "countif", "2">>)>>
Latest == Gives(<<"LATEST">>, "latest", TRUE)
Filters == <<Gives(<<"FILTER", "a=b">>, "filters", <<Selector("a=b")>>),
            Gives(<<"FILTER", "a!=b", "c=d">>, "filters", <<Selector("a!=b"), Selector("c=d")>>),
            Wrong(<<"FILTER", "a!=b">>)>>
Labelings == <<Gives(<<"WITHLABELS">>, "withLabels", TRUE),
              Gives(<<"SELECTED_LABELS", "l", "m">>, "selected", <<"l", "m">>),
              Wrong(<<"SELECTED_LABELS", "l", "l">>)>>
Tags == <<Gives(<<"HASHTAG", "t,u">>, "tags", <<"t", "u">>), Wrong(<<"HASHTAG", "t,">>)>>
Groups == <<Gives(<<"GROUPBY", "COUNT", "REDUCE", "max">>, "group",
                 [label |-> "COUNT", config |-> Plainly("max")]),
           Wrong(<<"GROUPBY", "l", "REDUCE", "last">>),
           Gives(<<"EXCLUDEEMPTY">>, "excludeEmpty", TRUE)>>
Dates == <<Gives(<<"FILTER_BY_RANGE", "2", "7">>, "dates",
                [exclude |-> FALSE, dates |-> [start |-> 2, end |-> 7]]),
          Gives(<<"FILTER_BY_RANGE", "NOT", "3", "*">>, "dates",
                [exclude |-> TRUE, dates |-> [start |-> 3, end |-> Clock]])>>
Limits == <<Gives(<<"LIMIT", "3">>, "limit", 3), Gives(<<"LIMIT", "5">>, "limit", 5),
           Wrong(<<"LIMIT", "7">>)>>
JoinWords ==
    <<Gives(<<"LEFT">>, "type", [InnerJoin EXCEPT !.kind = "left"]),
     Gives(<<"SEMI">>, "type", [InnerJoin EXCEPT !.kind = "semi"]),
     Gives(<<"ASOF", "NEAREST", "2", "ALLOW_EXACT_MATCH", "FALSE">>, "type",
           [kind |-> "asof", strategy |-> "nearest", tolerance |-> 2, exact |-> FALSE]),
     Gives(<<"ASOF">>, "type", [InnerJoin EXCEPT !.kind = "asof"]),
     Gives(<<"REDUCE", "sum">>, "reducer", "sum"),
     Gives(<<"AGGREGATION", "max", "2">>, "agg", BucketsOf(<<Plainly("max")>>, 2)),
     Wrong(<<"AGGREGATION", "max,countif(>=2)", "5">>)>>
PerKey(a, b, d) == <<BucketsOf(<<Plainly(a)>>, d), BucketsOf(<<Plainly(b)>>, d)>>
Keyed == <<Gives(<<"AGGREGATION", "max", "sum", "2">>, "aggs", PerKey("max", "sum", 2)),
          Gives(<<"ALIGN", "7", "AGGREGATION", "sum", "max", "3">>, "aggs",
                MapSeq(LAMBDA g : [g EXCEPT !.align = [at |-> "timestamp", ts |-> 7]],
                       PerKey("sum", "max", 3))),
          Wrong(<<"AGGREGATION", "max", "2">>)>>

MCCommandClauses(c) ==
    CASE c = "range" -> CountWords \o Samplings \o Buckets \o <<Latest>>
      [] c = "nrange" -> CountWords \o Samplings \o Keyed \o <<Latest>>
      [] c = "mrange" -> CountWords \o Samplings \o Buckets \o <<Latest>> \o Filters
                            \o Labelings \o Tags \o Groups
      [] c = "mget" -> Filters \o Labelings \o Tags \o <<Latest>>
      [] c = "join" -> CountWords \o Samplings \o JoinWords
      [] c = "metadata" -> Filters \o Dates \o Limits \o Tags
      [] c = "stats" -> Filters \o Limits \o Tags \o <<Gives(<<"LABEL", "l">>, "label", "l")>>
      [] c = "index" -> Dates \o Tags \o <<Gives(<<"a=b">>, "filters", <<Selector("a=b")>>)>>
      [] c = "labels" -> Filters \o Tags \o <<Gives(<<"LABELS">>, "label", None),
                              Gives(<<"VALUES", "FILTER">>, "label", "FILTER"),
                              Gives(<<"VALUES", "">>, "label", "")>>
      [] c = "mdel" -> Filters \o Tags
                         \o <<Gives(<<"2", "+5">>, "range", [from |-> AtTime(2), to |-> Bounds["+5"]])>>
      [] c = "read" -> <<Gives(<<"BLOCK", "0", "3">>, "block", [timeout |-> 0, minCount |-> 3]),
                          Wrong(<<"BLOCK", "7", "0">>), Gives(<<"MAX_COUNT", "2">>, "maxCount", 2),
                          Gives(<<"MAX_COUNT", "5">>, "maxCount", 5),
                          Gives(<<"CONDITION", ">=", "2">>, "condition", [op |-> ">=", value |-> Num(2)]),
                          Wrong(<<"CONDITION", "=", "2">>)>>

NoHead == [words |-> <<>>, keys |-> <<>>, from |-> None, to |-> None]
Between(a, b) == [NoHead EXCEPT !.words = <<a, b>>, !.from = MCReading("bound", a),
                                !.to = MCReading("bound", b)]
MCHeads(c) ==
    CASE c \in {"range", "mrange", "join"} -> {Between("-", "*"), Between("2", "+5")}
      [] c = "nrange" -> {[Between("2", "+") EXCEPT !.words = <<"2", "LATEST", "k">> \o @,
                                                       !.keys = <<"LATEST", "k">>]}
      [] OTHER -> {NoHead}
============================================================================
