--------------------------- MODULE SeriesSettings ---------------------------
(***************************************************************************)
(* One key whose series is created, altered, written to and deleted while   *)
(* the module configuration changes, beside what the option list of each    *)
(* command promises, said clause by clause.                                 *)
(*                                                                         *)
(* The settings of a series: the module configuration they default to       *)
(* (CONFIG SET), the option list of TS.CREATE, TS.ADD, TS.INCRBY and        *)
(* TS.ALTER, and what a series keeps of both.                               *)
(***************************************************************************)
EXTENDS CommandParser

CONSTANTS MinChunkSize, MaxChunkSize,
          MaxDecimalDigits, MaxSignificantDigits,
          MaxRetention

--------------------------------------------------------------------------
(* Rounding: None, or a kind and a digit count.  The configuration holds it *)
(* packed in one number, the kind in the high byte.                         *)
RoundingKinds == <<"decimal", "significant">>
KindByte(kind) == CHOOSE i \in DOMAIN RoundingKinds : RoundingKinds[i] = kind

EncodeRounding(r) == IF r = None THEN 0 ELSE 256 * KindByte(r.kind) + r.digits
DecodeRounding(packed) ==
    LET kind == packed \div 256
    IN  IF kind \in DOMAIN RoundingKinds
        THEN [kind |-> RoundingKinds[kind], digits |-> packed % 256] ELSE None

(* A digit count an argument or a configuration value may give.             *)
DigitsFit(kind, n) ==
    IF kind = "decimal" THEN n \in 0 .. MaxDecimalDigits ELSE n \in 1 .. MaxSignificantDigits

--------------------------------------------------------------------------
(* The module configuration.                                                *)
DefaultConfig ==
    [retention |-> 0, encoding |-> "chimp", chunkSize |-> 4096, duplicate |-> "block",
     ignoreTime |-> 0, ignoreValue |-> 0, rounding |-> 0, strict |-> FALSE]

Policies == {"block", "first", "last", "min", "max", "sum"}

(* ChunkEncoding::try_from                                                  *)
Encodings == [compressed |-> "chimp", uncompressed |-> "uncompressed", gorilla |-> "gorilla",
              chimp |-> "chimp"]
ParseEncoding(args) ==
    Then(Such(Word(args), LAMBDA w : w \in DOMAIN Encodings),
         LAMBDA w : Ok(w.rest, Encodings[w.val]))
ParsePolicy(args) == Such(Word(args), LAMBDA w : w \in Policies)

ChunkSizeFits(n) == n \in MinChunkSize .. MaxChunkSize /\ n % 8 = 0
ParseChunkSize(args) == Such(Operand("amount", args), ChunkSizeFits)

(* update_rounding: `none` clears rounding of this kind only, and a digit   *)
(* count is refused while the other kind is active.                         *)
UpdateRounding(packed, kind, word) ==
    LET n == Operand("amount", <<word>>)
        active == DecodeRounding(packed)
        ours == active = None \/ active.kind = kind
    IN  IF word = "none" THEN Ok(<<>>, IF ours THEN 0 ELSE packed)
        ELSE IF ~n.ok \/ ~ours THEN Fail
        ELSE IF ~DigitsFit(kind, n.val) THEN Fail
        ELSE Ok(<<>>, EncodeRounding([kind |-> kind, digits |-> n.val]))

(* The update_* callback of a parameter: the configuration with the value   *)
(* stored, or Fail and nothing stored.                                      *)
ConfigSet(c, name, word) ==
    LET Store(r, Into(_)) == Then(r, LAMBDA v : Ok(<<>>, Into(v.val)))
        args == <<word>>
    IN  CASE name = "ts-duplicate-policy" ->
               Store(ParsePolicy(args), LAMBDA v : [c EXCEPT !.duplicate = v])
          [] name = "ts-encoding" ->
               Store(ParseEncoding(args), LAMBDA v : [c EXCEPT !.encoding = v])
          [] name = "ts-chunk-size-bytes" ->
               Store(ParseChunkSize(args), LAMBDA v : [c EXCEPT !.chunkSize = v])
          [] name = "ts-compatibility-mode" ->
               Store(Such(Word(args), LAMBDA w : w \in {"strict", "extended"}),
                     LAMBDA w : [c EXCEPT !.strict = (w = "strict")])
          [] name = "ts-retention-policy" ->
               Store(Such(Operand("duration", args), LAMBDA d : d <= MaxRetention),
                     LAMBDA d : [c EXCEPT !.retention = d])
          [] name = "ts-ignore-max-time-diff" ->
               Store(Operand("duration", args), LAMBDA d : [c EXCEPT !.ignoreTime = d])
          [] name = "ts-ignore-max-val-diff" ->
               Store(Such(Operand("amount", args), LAMBDA n : n # NaN /\ n >= 0),
                     LAMBDA n : [c EXCEPT !.ignoreValue = n])
          [] name = "ts-decimal-digits" ->
               Store(UpdateRounding(c.rounding, "decimal", word),
                     LAMBDA r : [c EXCEPT !.rounding = r])
          [] name = "ts-significant-digits" ->
               Store(UpdateRounding(c.rounding, "significant", word),
                     LAMBDA r : [c EXCEPT !.rounding = r])

(* read_decimal_digits and read_significant_digits: what CONFIG GET shows.  *)
ReadDigits(c, kind) ==
    LET r == DecodeRounding(c.rounding)
    IN  IF r # None /\ r.kind = kind THEN r.digits ELSE None

--------------------------------------------------------------------------
(* TimeSeriesOptions, before a command's own options.                       *)
Empty ==
    [retention |-> None, encoding |-> "chimp", chunkSize |-> None, duplicate |-> None,
     ignore |-> None, labels |-> None, rounding |-> None, onDuplicate |-> None]
FromConfig(c) ==
    [Empty EXCEPT !.retention = IF c.retention = 0 THEN None ELSE c.retention,
                  !.encoding = c.encoding, !.chunkSize = c.chunkSize,
                  !.rounding = DecodeRounding(c.rounding), !.duplicate = c.duplicate,
                  !.ignore = [time |-> c.ignoreTime, value |-> c.ignoreValue]]

(* series_option_operands                                                   *)
OperandCount(token) ==
    CASE token = "IGNORE" -> 2
      [] token \in {"CHUNK_SIZE", "DECIMAL_DIGITS", "DUPLICATE_POLICY", "ENCODING", "METRIC",
                    "ON_DUPLICATE", "RETENTION", "SIGNIFICANT_DIGITS", "TIMESTAMP"} -> 1
      [] OTHER -> 0

(* series_option_keywords: where the list has a keyword, walking from one   *)
(* keyword to the next over its operands; LABELS ends the walk.  0: nowhere.*)
RawKeywordAt(args, i, token) ==
    IF token \in ToSet(args) THEN CHOOSE j \in DOMAIN args :
         args[j] = token /\ \A h \in 1 .. j - 1 : args[h] # token
    ELSE 0
RECURSIVE WalkTo(_, _, _)
WalkTo(args, i, token) ==
    IF i > Len(args) THEN 0
    ELSE IF args[i] = token THEN i
    ELSE IF args[i] = "LABELS" THEN 0
    ELSE WalkTo(args, i + 1 + OperandCount(args[i]), token)
KeywordAt(args, i, token) == WalkTo(args, i, token)

From(args, i) == SubSeq(args, i, Len(args))

(* parse_labels: pairs, neither half empty.                                 *)
ParseLabels(args) ==
    IF Len(args) % 2 = 0 /\ "" \notin ToSet(args)
    THEN Ok(<<>>, [i \in 1 .. Len(args) \div 2 |-> <<args[2 * i - 1], args[2 * i]>>])
    ELSE Fail

(* parse_ignore_options                                                     *)
ParseIgnore(args) ==
    Then(Operand("duration", args), LAMBDA t :
      Then(Such(Operand("amount", t.rest), LAMBDA v : v = NaN \/ v >= 0), LAMBDA v :
        Ok(v.rest, [time |-> t.val, value |-> v.val])))

ParseDigits(kind, args) ==
    Then(Such(Operand("integer", args), LAMBDA n : DigitsFit(kind, n)),
         LAMBDA n : Ok(n.rest, [kind |-> kind, digits |-> n.val]))

SeriesClause(token, o, args) ==
    LET Put(r, Into(_)) == Then(r, LAMBDA v : Ok(v.rest, Into(v.val)))
    IN  CASE token = "CHUNK_SIZE" -> Put(ParseChunkSize(args), LAMBDA v : [o EXCEPT !.chunkSize = v])
          [] token = "ENCODING" -> Put(ParseEncoding(args), LAMBDA v : [o EXCEPT !.encoding = v])
          [] token = "COMPRESSED" -> Ok(args, [o EXCEPT !.encoding = "chimp"])
          [] token = "UNCOMPRESSED" -> Ok(args, [o EXCEPT !.encoding = "uncompressed"])
          [] token = "DECIMAL_DIGITS" ->
               Put(ParseDigits("decimal", args), LAMBDA v : [o EXCEPT !.rounding = v])
          [] token = "SIGNIFICANT_DIGITS" ->
               Put(ParseDigits("significant", args), LAMBDA v : [o EXCEPT !.rounding = v])
          [] token = "DUPLICATE_POLICY" ->
               Put(ParsePolicy(args), LAMBDA v : [o EXCEPT !.duplicate = v])
          [] token = "ON_DUPLICATE" ->
               Put(ParsePolicy(args), LAMBDA v : [o EXCEPT !.onDuplicate = v])
          [] token = "METRIC" -> Put(Operand("metric", args), LAMBDA v : [o EXCEPT !.labels = v])
          [] token = "IGNORE" -> Put(ParseIgnore(args), LAMBDA v : [o EXCEPT !.ignore = v])
          [] token = "RETENTION" ->
               Put(Operand("duration", args), LAMBDA v : [o EXCEPT !.retention = v])
          [] OTHER -> Fail

(* Later ones of these are skipped over, operands unread.                   *)
FirstWins == {"RETENTION", "ENCODING", "CHUNK_SIZE", "DUPLICATE_POLICY", "ON_DUPLICATE", "IGNORE"}
Bare == {"COMPRESSED", "UNCOMPRESSED"}

(* A bare keyword yields to ENCODING wherever that stands, and to an        *)
(* earlier bare keyword.                                                    *)
Repeated(token, seen) ==
    \/ token \in FirstWins /\ token \in seen
    \/ token \in Bare /\ seen \cap ({"ENCODING"} \cup Bare) # {}

(* Both roundings, or two metric names, are an error.                       *)
Conflicts(token, o, seen) ==
    \/ token \in {"DECIMAL_DIGITS", "SIGNIFICANT_DIGITS"} /\ o.rounding # None
    \/ token = "METRIC" /\ token \in seen

RECURSIVE SeriesClauses(_, _, _, _)
SeriesClauses(args, o, seen, invalid) ==
    IF args = <<>> THEN Ok(<<>>, o)
    ELSE LET token == Head(args)
             rest == Tail(args)
             skip == IF OperandCount(token) < Len(rest) THEN OperandCount(token) ELSE Len(rest)
         IN  IF token \in invalid THEN Fail
             ELSE IF Repeated(token, seen) THEN
                      SeriesClauses(From(rest, skip + 1), o, seen, invalid)
             ELSE IF Conflicts(token, o, seen) THEN Fail
             ELSE Then(SeriesClause(token, o, rest), LAMBDA r :
                      SeriesClauses(r.rest, r.val, seen \cup {token}, invalid))

(* parse_series_options_onto: the labels first, since they end the list; a  *)
(* LABELS list also stands for the metric name.                             *)
ParseSeriesOptionsOnto(base, args, invalid) ==
    LET at == KeywordAt(args, 1, "LABELS")
        labels == ParseLabels(From(args, at + 1))
    IN  IF at = 0 THEN SeriesClauses(args, base, {}, invalid)
        ELSE Then(labels, LAMBDA l :
               SeriesClauses(SubSeq(args, 1, at - 1), [base EXCEPT !.labels = l.val],
                             {"METRIC"}, invalid))

--------------------------------------------------------------------------
(* with_options: the settings of a new series.                              *)
WithOptions(c, o) ==
    [retention |-> IF o.retention = None THEN c.retention ELSE o.retention,
     encoding |-> o.encoding, chunkSize |-> o.chunkSize, duplicate |-> o.duplicate,
     ignore |-> o.ignore, rounding |-> o.rounding,
     labels |-> IF o.labels = None THEN <<>> ELSE o.labels]

(* update_series: a setting the command did not name stays.                 *)
UpdateSeries(s, o) ==
    LET Set(new, old) == IF new = None THEN old ELSE new
    IN  [s EXCEPT !.chunkSize = Set(o.chunkSize, @), !.labels = Set(o.labels, @),
                  !.retention = Set(o.retention, @), !.duplicate = Set(o.duplicate, @),
                  !.rounding = Set(o.rounding, @), !.ignore = Set(o.ignore, @)]

(* parse_on_duplicate: TS.ADD on an existing series looks for the word      *)
(* itself, whatever stands around it.                                       *)
ParseOnDuplicate(args) ==
    LET at == RawKeywordAt(args, 1, "ON_DUPLICATE")
    IN  IF at = 0 THEN Ok(<<>>, None)
        ELSE ParsePolicy(From(args, at + 1))

(* resolve_policy                                                           *)
ResolvePolicy(c, s, override) ==
    CASE override # None -> override
      [] override = None /\ s.duplicate # None -> s.duplicate
      [] OTHER -> c.duplicate

(* handle_parse_timestamp of TS.INCRBY: the first TIMESTAMP keyword and its *)
(* operand are taken out of the list.                                       *)
StripTimestamp(args) ==
    LET at == KeywordAt(args, 1, "TIMESTAMP")
    IN  IF at = 0 THEN Ok(args, None)
        ELSE Then(Operand("timestamp", From(args, at + 1)), LAMBDA t :
               Ok(SubSeq(args, 1, at - 1) \o t.rest, t.val))

-----------------------------------------------------------------------------

CONSTANTS SeriesClauseSet,     \* the clauses a command is put together from
          ConfigWords,         \* the <<parameter, word>> pairs of CONFIG SET
          MaxWork              \* clauses and CONFIG SETs of a behaviour

VARIABLES config,              \* the module configuration
          settings,            \* the settings of the series, None: no key
          told,                \* the last command and what it found and did
          work

settingsVars == <<config, settings, told, work>>

SettingsInit ==
    /\ config = DefaultConfig /\ settings = None /\ told = None /\ work = 0

(* LABELS ends a list, so only the last clause may be one.                  *)
Lines(n) ==
    UNION {{s \in [1 .. k -> SeriesClauseSet] : \A i \in 1 .. k - 1 : s[i][1] # "LABELS"}
             : k \in 0 .. n}

(* The command's effect, and the record of it.                              *)
Tell(cmd, line, r, after) ==
    /\ told' = [cmd |-> cmd, line |-> line, config |-> config, before |-> settings,
                ok |-> r.ok, val |-> r.val]
    /\ settings' = IF r.ok THEN after ELSE settings
    /\ work' = work + Len(line)
    /\ UNCHANGED config

(* ts_create_cmd: the options are parsed before the key is looked up.       *)
CreateCmd(line) ==
    LET o == ParseSeriesOptionsOnto(FromConfig(config), FlattenSeq(line), {"ON_DUPLICATE"})
        r == IF settings = None THEN o ELSE Fail
    IN  Tell("create", line, r, WithOptions(config, r.val))

(* ts_alter_cmd and update_series                                           *)
AlterCmd(line) ==
    LET r == IF settings = None THEN Fail
             ELSE ParseSeriesOptionsOnto(Empty, FlattenSeq(line), {"ENCODING", "ON_DUPLICATE"})
    IN  Tell("alter", line, r, UpdateSeries(settings, r.val))

(* ts_add_cmd, up to the sample: the policy the write will use.  A new      *)
(* series takes the whole option list, one that exists only ON_DUPLICATE.   *)
AddCmd(line) ==
    LET args == FlattenSeq(line)
        o == ParseSeriesOptionsOnto(FromConfig(config), args, {})
        on == IF settings # None THEN ParseOnDuplicate(args)
              ELSE Then(o, LAMBDA v : Ok(<<>>, v.val.onDuplicate))
        after == IF settings # None THEN settings ELSE WithOptions(config, o.val)
    IN  Tell("add", line,
             Then(on, LAMBDA v : Ok(<<>>, ResolvePolicy(config, after, v.val))), after)

(* ts_incrby_cmd, up to the sample: TIMESTAMP is taken out first.           *)
IncrCmd(line) ==
    LET t == StripTimestamp(FlattenSeq(line))
        o == Then(t, LAMBDA v : ParseSeriesOptionsOnto(FromConfig(config), v.rest, {"ON_DUPLICATE"}))
        r == IF settings # None THEN t ELSE IF o.ok THEN t ELSE Fail
    IN  Tell("incr", line, r, IF settings # None THEN settings ELSE WithOptions(config, o.val))

(* CONFIG SET: the server calls the parameter's update function.            *)
ConfigCmd(name, word) ==
    /\ \E r \in {ConfigSet(config, name, word)} :
         /\ config' = IF r.ok THEN r.val ELSE config
         /\ told' = [cmd |-> "config", line |-> <<<<name, word>>>>, config |-> config,
                     before |-> settings, ok |-> r.ok, val |-> None]
    /\ work' = work + 1
    /\ UNCHANGED settings

Del ==
    /\ settings # None
    /\ settings' = None /\ told' = None
    /\ UNCHANGED <<config, work>>

SettingsNext ==
    \/ \E line \in Lines(MaxWork - work) :
         /\ work < MaxWork
         /\ \/ CreateCmd(line) \/ AlterCmd(line) \/ AddCmd(line) \/ IncrCmd(line)
    \/ /\ work < MaxWork
       /\ \E w \in ConfigWords : ConfigCmd(w[1], w[2])
    \/ Del

--------------------------------------------------------------------------
(* What a list of clauses says, without parsing it as one.                  *)

Says(line, tokens) == {i \in DOMAIN line : line[i][1] \in tokens}
Earliest(S) == CHOOSE i \in S : \A j \in S : i <= j

(* The clause on its own, onto nothing.                                     *)
Alone(clause) == ParseSeriesOptionsOnto(Empty, clause, {})

(* The clause that settles a setting: the first that names it, except that  *)
(* ENCODING comes before the bare keywords.                                 *)
Settles(line, tokens) ==
    LET S == IF "ENCODING" \in tokens /\ Says(line, {"ENCODING"}) # {}
             THEN Says(line, {"ENCODING"}) ELSE Says(line, tokens)
    IN  IF S = {} THEN 0 ELSE Earliest(S)

EncodingWords == {"ENCODING", "COMPRESSED", "UNCOMPRESSED"}
RoundingWords == {"DECIMAL_DIGITS", "SIGNIFICANT_DIGITS"}
NameWords == {"METRIC", "LABELS"}
Named ==
    [retention |-> {"RETENTION"}, encoding |-> EncodingWords, chunkSize |-> {"CHUNK_SIZE"},
     duplicate |-> {"DUPLICATE_POLICY"}, ignore |-> {"IGNORE"}, rounding |-> RoundingWords,
     labels |-> NameWords]

(* The list is good: no option that this command refuses, each clause that  *)
(* is read is good alone, and no two roundings or names.                    *)
GoodLine(line, refused, rounded) ==
    /\ Says(line, refused \cup {"TIMESTAMP"}) = {}
    /\ \A i \in DOMAIN line :
         \/ Alone(line[i]).ok
         \/ line[i][1] \in FirstWins /\ i # Earliest(Says(line, {line[i][1]}))
    /\ Cardinality(Says(line, RoundingWords)) <= IF rounded THEN 0 ELSE 1
    /\ Cardinality(Says(line, NameWords)) <= 1

(* Each setting is the one its clause gives, or else the one in `other`.    *)
Follows(fields, after, line, other) ==
    \A f \in fields :
        LET i == Settles(line, Named[f])
        IN  after[f] = IF i = 0 THEN other[f] ELSE Alone(line[i]).val[f]

(* The configured settings of a series nobody said anything about.          *)
Defaults(c) ==
    [retention |-> c.retention, encoding |-> c.encoding, chunkSize |-> c.chunkSize,
     duplicate |-> c.duplicate, ignore |-> [time |-> c.ignoreTime, value |-> c.ignoreValue],
     rounding |-> DecodeRounding(c.rounding), labels |-> <<>>]

Rounded(c) == ReadDigits(c, "decimal") # None \/ ReadDigits(c, "significant") # None

NoStamp(line) == SelectSeq(line, LAMBDA k : k[1] # "TIMESTAMP")

(* Whatever CONFIG SETs, creations, alterations and deletions came before,  *)
(* TS.CREATE, and TS.ADD and TS.INCRBY on a new key, give the series each   *)
(* setting from the first clause that names it and otherwise the default    *)
(* configured at that time; TS.ALTER changes just the settings it names and *)
(* never the encoding; a refused command changes nothing; and a list is     *)
(* refused only for a bad clause, a second rounding or name, or an option   *)
(* the command does not take.  An operand spelled like a keyword is never   *)
(* taken for one (parse_series_options_onto, series_option_keywords,        *)
(* update_series).                                                          *)
OptionsExact ==
    told # None /\ told.cmd # "config" =>
        LET line == told.line
            new == told.before = None
            refused == CASE told.cmd = "alter" -> {"ENCODING", "ON_DUPLICATE"}
                         [] told.cmd = "add" -> {}
                         [] OTHER -> {"ON_DUPLICATE"}
            plain == IF told.cmd = "incr" THEN NoStamp(line) ELSE line
            stamps == IF told.cmd = "incr" THEN Says(line, {"TIMESTAMP"}) ELSE {}
        IN  CASE told.cmd = "alter" ->
                   /\ told.ok <=> ~new /\ GoodLine(line, refused, FALSE)
                   /\ ~told.ok => settings = told.before
                   /\ told.ok => /\ Follows(DOMAIN Named \ {"encoding"}, settings, line, told.before)
                                 /\ settings.encoding = told.before.encoding
              [] told.cmd \in {"add", "incr"} /\ ~new -> settings = told.before
              [] OTHER ->
                   /\ told.ok <=> /\ new
                                  /\ Cardinality(stamps) <= 1
                                  /\ GoodLine(plain, refused, Rounded(told.config))
                   /\ ~told.ok => settings = told.before
                   /\ told.ok => Follows(DOMAIN Named, settings, plain, Defaults(told.config))

(* The duplicate policy a TS.ADD writes with is its ON_DUPLICATE if it has  *)
(* one, then the DUPLICATE_POLICY of the series, on a new and on an         *)
(* existing series alike (parse_on_duplicate, resolve_policy).              *)
OverrideExact ==
    told # None /\ told.cmd = "add" /\ told.ok =>
        LET i == Settles(told.line, {"ON_DUPLICATE"})
        IN  told.val = IF i = 0 THEN settings.duplicate ELSE Alone(told.line[i]).val.onDuplicate

(* What CONFIG GET shows of one parameter.                                  *)
Shown(c) ==
    [n \in {w[1] : w \in ConfigWords} |->
        CASE n = "ts-decimal-digits" -> ReadDigits(c, "decimal")
          [] n = "ts-significant-digits" -> ReadDigits(c, "significant")
          [] n = "ts-duplicate-policy" -> c.duplicate
          [] n = "ts-encoding" -> c.encoding
          [] n = "ts-chunk-size-bytes" -> c.chunkSize
          [] n = "ts-compatibility-mode" -> c.strict
          [] n = "ts-retention-policy" -> c.retention
          [] n = "ts-ignore-max-time-diff" -> c.ignoreTime
          [] n = "ts-ignore-max-val-diff" -> c.ignoreValue]

(* A CONFIG SET changes what CONFIG GET shows of its own parameter and of   *)
(* no other, the two roundings that share one store included; a refused one *)
(* changes nothing (update_rounding and the update functions).              *)
ConfigIndependent ==
    told # None =>
        IF told.cmd = "config" /\ told.ok
        THEN \A n \in DOMAIN Shown(config) :
               n # told.line[1][1] => Shown(config)[n] = Shown(told.config)[n]
        ELSE config = told.config

(* Settings come from the command that says them, then from the series,     *)
(* then from the configuration, whatever was said in between.               *)
SettingsExact == OptionsExact /\ OverrideExact /\ ConfigIndependent
=============================================================================
