----------------------------- MODULE Selectors ------------------------------
(***************************************************************************)
(* parser/series_selector.rs over the tokens of parser/lex.rs: from the    *)
(* text of a selector, in RedisTimeSeries or in Prometheus form, to the    *)
(* SeriesSelector the planner is given.                                    *)
(*                                                                         *)
(* A token is its kind, the text it stands for and, for a string literal   *)
(* that is read as a pattern, the pattern.  Quoting, escapes, white space  *)
(* and comments are the lexer's and are left out.  A parsing function      *)
(* returns what it read and the tokens it left.                            *)
(*                                                                         *)
(* From label filters to series ids: the term lookups of postings/terms.rs,*)
(* the predicates of postings/predicate.rs and the plan of                 *)
(* postings/planner.rs, with the selectors of labels/filters.rs and their  *)
(* form on the cluster bus (fanout_codec/filters.rs).                      *)
(*                                                                         *)
(* An index ix is a record: of maps an id to its labels (a function from   *)
(* label to text, <<>> when the series does not carry the label), all is   *)
(* the set of live ids, stale the ids marked for removal whose terms are   *)
(* still in the dictionary.                                                *)
(***************************************************************************)
EXTENDS LabelFilters

CONSTANTS NameLabel,   \* __name__
          NoLabel      \* the empty label name

-----------------------------------------------------------------------------
(* Terms: every lookup masks the stale ids. *)

TermIds(ix) == ix.all \cup ix.stale
mask(ix, ids) == ids \ ix.stale

\* postings_for_label_matching, of which the other lookups are instances.
postings_for_label_matching(ix, l, P(_)) ==
    mask(ix, {id \in TermIds(ix) : ix.of[id][l] # <<>> /\ P(ix.of[id][l])})

postings_for_label_value(ix, l, v) == postings_for_label_matching(ix, l, LAMBDA t : t = v)
postings_for_label_values(ix, l, vs) ==
    postings_for_label_matching(ix, l, LAMBDA t : t \in vs)
postings_for_all_label_values(ix, l) ==
    postings_for_label_matching(ix, l, LAMBDA t : TRUE)
postings_by_prefix(ix, l, p) == postings_for_label_matching(ix, l, LAMBDA t : IsPrefix(p, t))
postings_by_prefix_and_predicate(ix, l, p, P(_)) ==
    postings_for_label_matching(ix, l, LAMBDA t : IsPrefix(p, t) /\ P(t))
postings_without_label(ix, l) == ix.all \ postings_for_all_label_values(ix, l)

\* postings_by_labels: the ids that carry every one of the pairs.
postings_by_labels(ix, pairs) ==
    IF pairs = {} THEN {}
    ELSE mask(ix, {id \in TermIds(ix) : \A p \in pairs : ix.of[id][p[1]] = p[2]})

\* posting_id_by_labels: the one id that carries them all, or none.
posting_id_by_labels(ix, pairs) ==
    LET ids == postings_by_labels(ix, pairs)
    IN  IF Cardinality(ids) = 1 THEN ids ELSE {}

-----------------------------------------------------------------------------
(* predicate.rs: one filter. *)

\* Mutant: an empty alternative is read as a value, not as the absent label.
EqualOfPresentOnly(ix, l, pv) == postings_for_label_values(ix, l, Texts(pv))

handle_equal_match(ix, l, pv) ==
    LET some == {t \in Texts(pv) : t # <<>>}
        none == pv.vs = <<>> \/ <<>> \in Texts(pv)
    IN  postings_for_label_values(ix, l, some)
        \cup (IF none THEN postings_without_label(ix, l) ELSE {})

with_label(ix, l) == postings_for_all_label_values(ix, l)

handle_not_equal_match(ix, l, pv) ==
    IF pv_is_empty(pv) THEN with_label(ix, l)
    ELSE ix.all \ postings_for_label_values(ix, l, Texts(pv))

handle_regex_equal_match(ix, l, m) ==
    IF matches(m, <<>>) THEN postings_without_label(ix, l)
    ELSE postings_by_prefix_and_predicate(ix, l, m.re.prefix, LAMBDA t : re_is_match(m.re, t))

handle_regex_not_equal_match(ix, l, m) ==
    IF matches(m, <<>>) THEN with_label(ix, l)
    ELSE postings_for_label_matching(ix, l, LAMBDA t : ~re_is_match(m.re, t))

postings_by_prefix_value(ix, l, pv) ==
    UNION {postings_by_prefix(ix, l, p) : p \in Texts(pv)}

handle_contains(ix, l, pv) ==
    postings_for_label_matching(ix, l, LAMBDA t : matches_contains_any(pv, t))

postings_for_filter(ix, f) ==
    LET m == f.m IN
    CASE m.op = "Equal" -> handle_equal_match(ix, f.label, m.pv)
      [] m.op = "NotEqual" -> handle_not_equal_match(ix, f.label, m.pv)
      [] m.op = "MatchAll" -> ix.all
      [] m.op = "MatchNone" -> {}
      [] m.op = "RegexEqual" -> handle_regex_equal_match(ix, f.label, m)
      [] m.op = "RegexNotEqual" -> handle_regex_not_equal_match(ix, f.label, m)
      [] m.op = "StartsWith" -> postings_by_prefix_value(ix, f.label, m.pv)
      [] m.op = "NotStartsWith" -> ix.all \ postings_by_prefix_value(ix, f.label, m.pv)
      [] m.op = "Contains" -> handle_contains(ix, f.label, m.pv)
      [] m.op = "NotContains" -> ix.all \ handle_contains(ix, f.label, m.pv)

\* inverse_postings_for_filter: the series with the label and a value the filter refuses.
inverse_postings_for_filter(ix, f) ==
    LET m == f.m
        present == postings_for_all_label_values(ix, f.label)
    IN  CASE m.op = "NotEqual" -> handle_equal_match(ix, f.label, m.pv)
          [] m.op = "Equal" /\ m.pv = PvString(<<>>) -> present
          [] m.op = "MatchAll" -> {}
          [] m.op = "MatchNone" -> ix.all
          [] m.op = "StartsWith" -> present \ postings_by_prefix_value(ix, f.label, m.pv)
          [] m.op = "NotStartsWith" -> postings_by_prefix_value(ix, f.label, m.pv)
          [] m.op = "Contains" -> present \ handle_contains(ix, f.label, m.pv)
          [] m.op = "NotContains" -> handle_contains(ix, f.label, m.pv)
          [] OTHER -> postings_for_label_matching(ix, f.label, LAMBDA t : ~matches(m, t))

-----------------------------------------------------------------------------
(* LabelFilter and SeriesSelector *)

Negatives == {"NotEqual", "RegexNotEqual", "NotStartsWith", "NotContains"}
is_negative_matcher(f) == f.m.op \in Negatives
matches_empty(f) == matches(f.m, <<>>)
is_metric_name_filter(f) == f.label = NameLabel /\ f.m.op = "Equal"

filter_group_is_bounded(fs) ==
    \E i \in DOMAIN fs : ~is_negative_matcher(fs[i]) /\ ~matches_empty(fs[i])

AndOf(fs) == [k |-> "And", groups |-> <<fs>>]
OrOf(groups) == [k |-> "Or", groups |-> groups]

is_bounded(sel) ==
    sel.groups # <<>> /\ \A i \in DOMAIN sel.groups : filter_group_is_bounded(sel.groups[i])

validate_selector_list(sels) == \E i \in DOMAIN sels : is_bounded(sels[i])

merge_with(left, right) == OrOf(left.groups \o right.groups)

-----------------------------------------------------------------------------
(* planner.rs: a list of filters, all of which must hold. *)

is_empty_match(m) ==
    m.op \notin {"MatchAll", "MatchNone", "RegexEqual", "RegexNotEqual"} /\ pv_is_empty(m.pv)

Subtracting(f) == matches_empty(f) \/ is_negative_matcher(f)

\* The comparator of the plan.  It is not a strict order: an intersecting filter
\* precedes a subtracting one, and a cheaper subtracting one precedes it too.
PlanLess(f, g) ==
    (~Subtracting(f) /\ Subtracting(g)) \/ cost(f.m) < cost(g.m)

\* sort_by on a short slice: every element moves left past those it is less than.
PlanSort(fs) ==
    FoldLeft(LAMBDA out, f :
               LET stay == {i \in DOMAIN out : ~PlanLess(f, out[i])}
                   at   == IF stay = {} THEN 0 ELSE CHOOSE i \in stay : \A j \in stay : j <= i
               IN  SubSeq(out, 1, at) \o <<f>> \o SubSeq(out, at + 1, Len(out)),
             <<>>, fs)

Going(its, nots) == [st |-> "go", its |-> its, nots |-> nots]
Stop(st) == [st |-> st, its |-> {}, nots |-> {}]

\* A set the result is intersected with; an empty one settles the answer.
Intersect(acc, ids) ==
    IF ids = {} THEN Stop("empty") ELSE [acc EXCEPT !.its = @ \cup {ids}]

\* One round of the loop over the sorted filters.
PlanStep(ix, acc, f) ==
    LET m == f.m
        present == postings_for_all_label_values(ix, f.label)
    IN  IF acc.st # "go" THEN acc
        ELSE IF f.label = NoLabel /\ matches_empty(f) THEN Stop("MISSING_FILTER")
        ELSE IF m.op = "MatchAll" THEN acc
        ELSE IF m.op = "MatchNone" THEN Stop("empty")
        ELSE IF m.op = "RegexEqual" /\ m.re.value = DotPlus
             THEN [acc EXCEPT !.its = @ \cup {present}]
        ELSE IF m.op = "RegexNotEqual" /\ m.re.value = DotPlus
             THEN [acc EXCEPT !.nots = @ \cup {present}]
        ELSE IF m.op = "NotEqual" /\ pv_is_empty(m.pv) THEN Intersect(acc, present)
        ELSE IF ~matches_empty(f)
             THEN Intersect(acc, IF is_negative_matcher(f)
                                 THEN inverse_postings_for_filter(ix, [f EXCEPT !.m = inverse(@)])
                                 ELSE postings_for_filter(ix, f))
        ELSE [acc EXCEPT !.nots = @ \cup {inverse_postings_for_filter(ix, f)}]

Answer(st, ids) == [st |-> st, ids |-> ids]

PlanAnswer(ix, end) ==
    CASE end.st = "empty" -> Answer("ok", {})
      [] end.st = "MISSING_FILTER" -> Answer("MISSING_FILTER", {})
      [] end.st = "go" ->
           Answer("ok", (IF end.its = {} THEN ix.all
                         ELSE {id \in UNION end.its : \A it \in end.its : id \in it})
                        \ UNION end.nots)

postings_for_label_filters(ix, fs) ==
    LET only == fs[1]
        base == IF \A i \in DOMAIN fs : Subtracting(fs[i]) THEN {ix.all} ELSE {}
    IN  IF fs = <<>> THEN Answer("ok", ix.all)
        ELSE IF Len(fs) = 1 /\ only.label = NoLabel /\ is_empty_match(only.m)
             THEN Answer("ok", ix.all)
        ELSE IF Len(fs) = 1 /\ ~Subtracting(only)
             THEN Answer("ok", postings_for_filter(ix, only))
        ELSE PlanAnswer(ix, FoldLeft(LAMBDA acc, f : PlanStep(ix, acc, f), Going(base, {}),
                                     PlanSort(fs)))

\* process_or_matchers, postings_for_selector: the groups of a selector are united.
United(ix, rs) ==
    IF rs = <<>> THEN Answer("ok", ix.all)
    ELSE IF \E i \in DOMAIN rs : rs[i].st # "ok" THEN Answer("MISSING_FILTER", {})
    ELSE Answer("ok", UNION {rs[i].ids : i \in DOMAIN rs})
postings_for_selector(ix, sel) ==
    United(ix, [i \in DOMAIN sel.groups |-> postings_for_label_filters(ix, sel.groups[i])])

\* postings_for_selectors: the selectors of a command are intersected.
Common(ix, rs) ==
    IF rs = <<>> THEN Answer("ok", {})
    ELSE IF \E i \in DOMAIN rs : rs[i].st # "ok" THEN Answer("MISSING_FILTER", {})
    ELSE Answer("ok", mask(ix, {id \in rs[1].ids : \A i \in DOMAIN rs : id \in rs[i].ids}))
postings_for_selectors(ix, sels) ==
    Common(ix, [i \in DOMAIN sels |-> postings_for_selector(ix, sels[i])])

-----------------------------------------------------------------------------
(* fanout_codec/filters.rs: selectors on the cluster bus.  The compiled    *)
(* pattern does not travel: the receiver compiles the original text, with  *)
(* the prefix it is sent.                                                  *)

predicate_value_from_fanout(pv) ==
    CASE Len(pv.vs) = 0 -> PvEmpty
      [] Len(pv.vs) = 1 -> PvString(pv.vs[1])
      [] OTHER -> pv

filter_to_fanout(f) ==
    [label |-> f.label, op |-> f.m.op, pv |-> f.m.pv,
     regex |-> f.m.re.value, prefix |-> f.m.re.prefix]

matcher_from_fanout(w) ==
    CASE w.op \in {"MatchAll", "MatchNone"} -> ValueMatch(w.op, PvEmpty)
      [] w.op \in {"RegexEqual", "RegexNotEqual"} ->
            IF is_match_all_regex_pattern(w.regex)
            THEN IF w.op = "RegexEqual" THEN MatchAll ELSE MatchNone
            ELSE RegexMatch(w.op, from_parts(w.regex, w.regex, w.prefix))
      [] OTHER -> ValueMatch(w.op, predicate_value_from_fanout(w.pv))

CheckedFilter(label, m) ==
    LET needsText == m.op \in {"Contains", "NotContains", "StartsWith", "NotStartsWith"}
    IN  [ok |-> (needsText => NonEmptyTexts(m.pv)) /\ label # NoLabel,
         f |-> [label |-> label, m |-> m]]
filter_from_fanout(w) == CheckedFilter(w.label, matcher_from_fanout(w))

\* serialize_matchers_list and deserialize_matchers_list, one selector of the list.
SelectorBack(k, back) ==
    [ok |-> \A i \in DOMAIN back : \A j \in DOMAIN back[i] : back[i][j].ok,
     sel |-> [k |-> k, groups |-> [i \in DOMAIN back |-> [j \in DOMAIN back[i] |-> back[i][j].f]]]]
SelectorOverBus(sel) ==
    SelectorBack(sel.k, [i \in DOMAIN sel.groups |->
                           [j \in DOMAIN sel.groups[i] |->
                              filter_from_fanout(filter_to_fanout(sel.groups[i][j]))]])


-----------------------------------------------------------------------------

Tok(t) == [t |-> t, v |-> <<>>, re |-> EmptyHir]
Ident(v) == [t |-> "Identifier", v |-> v, re |-> EmptyHir]
Quoted(v) == [t |-> "StringLiteral", v |-> v, re |-> EmptyHir]
Pattern(h) == [t |-> "StringLiteral", v |-> <<>>, re |-> h]

Operators == {"Equal", "OpNotEqual", "RegexEqual", "RegexNotEqual",
              "StartsWith", "NotStartsWith"}
InitialTokens == {"Identifier", "OpOr", "LeftBrace", "StringLiteral"}
SecondaryTokens == Operators \cup {"LeftBrace", "Eof"}

\* get_next_token: past the end there is only Eof.
NextTok(ts) == IF ts = <<>> THEN Tok("Eof") ELSE Head(ts)
RestToks(ts) == IF ts = <<>> THEN ts ELSE Tail(ts)
NextIn(ts, kinds) == NextTok(ts).t \in kinds

Read(val, rest) == [ok |-> TRUE, val |-> val, rest |-> rest]
Refused == [ok |-> FALSE, val |-> <<>>, rest |-> <<>>]

\* MatchOp::try_from(Token)
MatchOpOf(t) == IF t = "OpNotEqual" THEN "NotEqual" ELSE t

-----------------------------------------------------------------------------
(* Values *)

RECURSIVE ValueListFrom(_, _, _)
ValueListFrom(ts, vs, wantValue) ==
    LET tok == NextTok(ts)
        values == {"StringLiteral", "Identifier", "Number"}
    IN  CASE wantValue /\ tok.t \in values ->
               ValueListFrom(RestToks(ts), Append(vs, tok.v), FALSE)
          [] tok.t = "Comma" -> ValueListFrom(RestToks(ts), vs, TRUE)
          [] tok.t = "RightParen" -> Read(vs, RestToks(ts))
          [] OTHER -> Refused

\* What was read, turned into what it stands for.
Into(r, F(_)) == IF r.ok THEN [r EXCEPT !.val = F(@)] ELSE r

parse_value_list(ts) ==
    Into(ValueListFrom(ts, <<>>, TRUE),
         LAMBDA vs : CASE Len(vs) = 0 -> PvEmpty
                       [] Len(vs) = 1 -> PvString(vs[1])
                       [] OTHER -> PvList(vs))

parse_matcher_value(ts) ==
    LET tok == NextTok(ts)
    IN  CASE tok.t = "Eof" -> Read(PvEmpty, ts)
          [] tok.t \in {"Identifier", "Number", "StringLiteral"} ->
               Read(PvString(tok.v), RestToks(ts))
          [] tok.t = "LeftParen" -> parse_value_list(RestToks(ts))
          [] OTHER -> Refused

\* LabelFilter::create_with_value and create.
ValueFilter(label, op, r) ==
    IF ~r.ok \/ (op \in {"StartsWith", "NotStartsWith"} /\ ~NonEmptyTexts(r.val))
    THEN Refused
    ELSE [r EXCEPT !.val = [label |-> label, m |-> ValueMatch(op, @)]]

RegexFilter(label, op, ts) ==
    IF ~NextIn(ts, {"StringLiteral"}) THEN Refused
    ELSE Read([label |-> label, m |-> parse_regex_matcher(NextTok(ts).re, op = "RegexEqual")],
              RestToks(ts))

\* parse_redis_ts_predicate: what follows a label and an operator.
FilterAfter(label, t, ts) ==
    LET op == MatchOpOf(t)
    IN  IF op \in {"RegexEqual", "RegexNotEqual"} THEN RegexFilter(label, op, ts)
        ELSE ValueFilter(label, op, parse_matcher_value(ts))

EqualsFilter(label, v) == [label |-> label, m |-> ValueMatch("Equal", PvString(v))]

-----------------------------------------------------------------------------
(* Filters between braces *)

\* parse_label_filter: a filter, or a bare name for the metric, with the token
\* that ended it.
parse_label_filter(ts, acceptSingle) ==
    LET label == NextTok(ts).v
        t     == NextTok(RestToks(ts)).t
        after == RestToks(RestToks(ts))
        ends  == {"Comma", "RightBrace"} \cup (IF acceptSingle THEN {"OpOr"} ELSE {})
    IN  IF ~NextIn(ts, {"Identifier", "StringLiteral"}) THEN Refused
        ELSE IF t \in ends
             THEN Read([f |-> EqualsFilter(NameLabel, label), end |-> t], after)
        ELSE IF t \in Operators
             THEN Into(FilterAfter(label, t, after), LAMBDA f : [f |-> f, end |-> "none"])
        ELSE Refused

\* parse_label_filters_internal: the filters up to a brace or an OR, the metric
\* name first and at most one of it.
RECURSIVE FilterGroup(_, _, _), AfterFilter(_, _, _, _)
FilterGroup(ts, fs, named) ==
    LET Filter(r) ==
            IF ~r.ok \/ (named /\ is_metric_name_filter(r.val.f)) THEN Refused
            ELSE IF r.val.end # "none" THEN AfterFilter(r.val.f, r.val.end, r.rest, <<fs, named>>)
            ELSE AfterFilter(r.val.f, NextTok(r.rest).t, RestToks(r.rest), <<fs, named>>)
    IN  Filter(parse_label_filter(ts, ~named))
AfterFilter(f, end, rest, had) ==
    LET name == is_metric_name_filter(f)
        now  == IF name THEN <<f>> \o had[1] ELSE Append(had[1], f)
    IN  IF end = "Comma" THEN FilterGroup(rest, now, had[2] \/ name)
        ELSE IF end \in {"RightBrace", "OpOr"}
             THEN Read([fs |-> now, end |-> end, named |-> had[2] \/ name], rest)
        ELSE Refused

\* parse_label_filters: groups separated by OR; the name before the braces is
\* added to every group that does not set one.
RECURSIVE FilterGroups(_, _, _), AfterGroup(_, _, _)
FilterGroups(ts, name, groups) == AfterGroup(FilterGroup(ts, <<>>, FALSE), name, groups)
AfterGroup(r, name, groups) ==
    LET fs  == IF name # <<>> /\ ~r.val.named
               THEN Append(r.val.fs, EqualsFilter(NameLabel, name)) ELSE r.val.fs
        now == Append(groups, fs)
    IN  IF ~r.ok THEN Refused
        ELSE IF r.val.end = "OpOr" THEN FilterGroups(r.rest, name, now)
        ELSE Read(IF Len(now) = 1 THEN AndOf(fs) ELSE OrOf(now), r.rest)

parse_prometheus_selector_internal(ts, name) ==
    IF NextIn(ts, {"RightBrace"})
    THEN Read(AndOf(IF name = <<>> THEN <<>> ELSE <<EqualsFilter(NameLabel, name)>>),
              RestToks(ts))
    ELSE FilterGroups(ts, name, <<>>)

-----------------------------------------------------------------------------
(* Selectors *)

OneSelector(ts) ==
    LET tok   == NextTok(ts)
        rest  == RestToks(ts)
        t     == NextTok(rest).t
        after == RestToks(rest)
        braces == tok.t = "LeftBrace"
    IN  IF tok.t \notin InitialTokens THEN Refused
        ELSE IF braces \/ t = "LeftBrace"
        THEN parse_prometheus_selector_internal(IF braces THEN rest ELSE after,
                                                IF braces THEN <<>> ELSE tok.v)
        ELSE CASE t = "Eof" -> Read(AndOf(<<EqualsFilter(NameLabel, tok.v)>>), rest)
               [] t \in Operators -> Into(FilterAfter(tok.v, t, after), LAMBDA f : AndOf(<<f>>))
               [] OTHER -> Refused

RECURSIVE parse_series_selector_internal(_), AfterSelector(_)
parse_series_selector_internal(ts) == AfterSelector(OneSelector(ts))
AfterSelector(r) ==
    IF ~r.ok \/ NextIn(r.rest, {"Eof"}) THEN r
    ELSE IF ~NextIn(r.rest, {"OpOr"}) THEN Refused
    ELSE Into(parse_series_selector_internal(RestToks(r.rest)), LAMBDA sel : merge_with(r.val, sel))

parse_series_selector(ts) ==
    IF ts = <<>> THEN Refused ELSE parse_series_selector_internal(ts)

\* parse_series_selector_list: the selectors of a FILTER clause, one of which
\* must bound the search.
SelectorList(rs) ==
    IF rs = <<>> \/ \E i \in DOMAIN rs : ~rs[i].ok THEN Refused
    ELSE IF ~validate_selector_list([i \in DOMAIN rs |-> rs[i].val]) THEN Refused
    ELSE Read([i \in DOMAIN rs |-> rs[i].val], <<>>)
parse_series_selector_list(args) ==
    SelectorList([i \in DOMAIN args |-> parse_series_selector(args[i])])

=============================================================================
