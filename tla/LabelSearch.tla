----------------------------- MODULE LabelSearch -----------------------------
(***************************************************************************)
(* Label discovery over the index of one node: series/index/label_querier  *)
(* (TS.LABELNAMES, TS.LABELVALUES, TS.METRICNAMES), its argument parser in *)
(* commands/label_search_utils, the merge of the shards' answers, and the  *)
(* counts of TS.LABELSTATS (timeseries_index, posting_stats).              *)
(*                                                                         *)
(* A name or a value is a text; the index is the one of Planner.  Scores   *)
(* are tenths.  A result is its text, its score and its cardinality.       *)
(***************************************************************************)
EXTENDS Selectors, FiniteSetsExt

CONSTANTS
    LabelNames,        \* the label names series carry
    EqualsByte,        \* '=' in the order of Chars: index keys are name=value
    SkipByte,          \* '?', the byte the ascending scan jumps with
    DefaultLimit,      \* SEARCH_RESULT_DEFAULT_LIMIT
    LimitMax,          \* SEARCH_RESULT_LIMIT_MAX
    Similarity(_, _)   \* the fuzzy score of a value for a term (common/strings)

-----------------------------------------------------------------------------
(* Orders *)

\* cmp of byte strings.
RECURSIVE TextLess(_, _)
TextLess(s, t) ==
    IF t = <<>> THEN FALSE
    ELSE IF s = <<>> THEN TRUE
    ELSE IF s[1] # t[1] THEN s[1] < t[1]
    ELSE TextLess(Tail(s), Tail(t))

\* The members of S as a sequence in a strict total order.
InOrder(S, Less(_, _)) ==
    FoldSet(LAMBDA e, out :
              LET at == Cardinality({i \in DOMAIN out : Less(out[i], e)})
              IN  SubSeq(out, 1, at) \o <<e>> \o SubSeq(out, at + 1, Len(out)),
            <<>>, S)

FirstOf(s, n) == SubSeq(s, 1, IF Len(s) < n THEN Len(s) ELSE n)

Entry(v, score, card) == [v |-> v, score |-> score, card |-> card]

\* compare_search_results; HeapResultHolder::compare_parts states the same order.
compare_search_results(order, a, b) ==
    LET byValue == TextLess(a.v, b.v)
    IN  CASE order = "ValueAsc" -> byValue
          [] order = "ValueDesc" -> TextLess(b.v, a.v)
          [] order = "ScoreDesc" -> b.score < a.score \/ (b.score = a.score /\ byValue)
          [] order = "CardinalityAsc" -> a.card < b.card \/ (a.card = b.card /\ byValue)
          [] order = "CardinalityDesc" -> b.card < a.card \/ (b.card = a.card /\ byValue)

is_ascending(order) == order \in {"ValueAsc", "CardinalityAsc"}
Ranked == {"ScoreDesc", "CardinalityAsc", "CardinalityDesc"}

Sorted(entries, order) ==
    InOrder(entries, LAMBDA a, b : compare_search_results(order, a, b))

Page(results, more) == [results |-> results, has_more |-> more]
PageOf(s, limit) == Page(FirstOf(s, limit), Len(s) > limit)

normalize_limit(n) ==
    LET d == IF n = 0 THEN DefaultLimit ELSE n IN IF d < LimitMax THEN d ELSE LimitMax

\* apply_search_hints
apply_search_hints(entries, hints) ==
    PageOf(Sorted(entries, hints.order), normalize_limit(hints.limit))

\* collect_limited: the first limit + 1 of an ordered stream.
collect_limited(s, limit) == PageOf(FirstOf(s, limit + 1), limit)

\* collect_limited_with_heap: the limit + 1 smallest under the comparator, or for
\* a descending order the limit + 1 largest under it.
collect_limited_with_heap(entries, order, limit) ==
    LET s    == Sorted(entries, order)
        n    == Len(s)
        kept == IF is_ascending(order) \/ n <= limit + 1
                THEN FirstOf(s, limit + 1) ELSE SubSeq(s, n - limit, n)
    IN  PageOf(kept, limit)

-----------------------------------------------------------------------------
(* label_filter.rs: which texts a search accepts, and their score. *)

Accepted(ok, score) == [ok |-> ok, score |-> score]

accept(f, text) ==
    LET best == Max({0} \cup {Similarity(t, text) : t \in f.terms})
        sub  == \E t \in f.terms : ContainsText(text, t)
    IN  IF f.terms = {} THEN Accepted(TRUE, 10)
        ELSE IF f.threshold = 0 THEN Accepted(sub, IF sub THEN 10 ELSE 0)
        ELSE Accepted(\E t \in f.terms : Similarity(t, text) >= f.threshold, best)

-----------------------------------------------------------------------------
(* The index keys name=value in the order of the tree, each with its ids,  *)
(* stale ones included.                                                    *)

Postings(ix, name, v) == {id \in TermIds(ix) : v # <<>> /\ ix.of[id][name] = v}

IndexPairs(ix) == {p \in {<<n, ix.of[id][n]>> : n \in LabelNames, id \in TermIds(ix)} :
                      p[2] # <<>>}
KeyBytes(p) == p[1] \o <<EqualsByte>> \o p[2] \o <<0>>
IndexKeys(ix) == InOrder(IndexPairs(ix), LAMBDA p, q : TextLess(KeyBytes(p), KeyBytes(q)))

CountOf(ix, p) == Cardinality(Postings(ix, p[1], p[2]))

get_label_cardinality(ix, name) == Cardinality({id \in TermIds(ix) : ix.of[id][name] # <<>>})

NoName == <<0>>
Scan0 == [cur |-> {}, name |-> NoName, skip |-> {}, out |-> <<>>, more |-> FALSE]

\* One key of a name scan: a new name closes the entry under way, unless the page
\* is full, and opens its own; a name the filter rejects makes the scan jump.
ScanKey(ix, f, limit, jumped(_, _), acc, p) ==
    LET a      == accept(f, p[1])
        fresh  == acc.name # p[1]
        closed == acc.cur # {}
        out    == IF closed THEN acc.out \o SetToSeq(acc.cur) ELSE acc.out
    IN  IF acc.more \/ \E n \in acc.skip : jumped(n, p) THEN acc
        ELSE IF ~fresh
             THEN [acc EXCEPT !.cur = {[e EXCEPT !.card = @ + CountOf(ix, p)] : e \in @}]
        ELSE IF closed /\ Len(acc.out) = limit THEN [acc EXCEPT !.more = TRUE, !.cur = {}]
        ELSE [acc EXCEPT !.name = p[1], !.out = out,
                         !.cur = IF a.ok THEN {Entry(p[1], a.score, CountOf(ix, p))} ELSE {},
                         !.skip = IF a.ok THEN @ ELSE {p[1]}]

ScanPage(end, limit) ==
    Page(IF end.cur # {} /\ Len(end.out) < limit
         THEN end.out \o SetToSeq(end.cur) ELSE end.out, end.more)
ScanNames(ix, f, limit, keys, jumped(_, _)) ==
    ScanPage(FoldLeft(LAMBDA acc, p : ScanKey(ix, f, limit, jumped, acc, p), Scan0, keys), limit)

\* iterate_label_names_asc, get_label_names_asc: jumps to the first key past name?.
get_label_names_asc(ix, f, limit) ==
    ScanNames(ix, f, limit, IndexKeys(ix),
              LAMBDA n, p : ~TextLess(n \o <<SkipByte>>, KeyBytes(p)))

\* get_label_names_desc: jumps to the last key before name.
get_label_names_desc(ix, f, limit) ==
    ScanNames(ix, f, limit, Reverse(IndexKeys(ix)),
              LAMBDA n, p : ~TextLess(KeyBytes(p), n))

\* get_label_names_top_k: a heap of the best limit names of the ascending scan.
get_label_names_top_k(ix, f, order, limit) ==
    PageOf(Sorted(ToSet(get_label_names_asc(ix, f, LimitMax).results), order), limit)

collect_unscoped_label_names(ix, hints) ==
    CASE hints.order = "ValueAsc" -> get_label_names_asc(ix, hints.f, hints.limit)
      [] hints.order = "ValueDesc" -> get_label_names_desc(ix, hints.f, hints.limit)
      [] OTHER -> get_label_names_top_k(ix, hints.f, hints.order, normalize_limit(hints.limit))

collect_unscoped_label_values(ix, name, hints) ==
    LET keys  == SelectSeq(IndexKeys(ix), LAMBDA p : p[1] = name)
        entry(p) == Entry(p[2], accept(hints.f, p[2]).score, CountOf(ix, p))
        hits  == FoldLeft(LAMBDA s, p : IF accept(hints.f, p[2]).ok THEN Append(s, entry(p)) ELSE s,
                          <<>>, keys)
        limit == normalize_limit(hints.limit)
    IN  CASE hints.order = "ValueAsc" -> collect_limited(hits, limit)
          [] hints.order = "ValueDesc" -> collect_limited(Reverse(hits), limit)
          [] OTHER -> collect_limited_with_heap(ToSet(hits), hints.order, limit)

-----------------------------------------------------------------------------
(* The same over the series a selector matched (ids): collect_label_names  *)
(* and collect_label_values after series_by_selectors.                     *)

need_cardinality(hints) == hints.meta \/ hints.order \in {"CardinalityAsc", "CardinalityDesc"}

collect_label_names(ix, ids, hints) ==
    LET names == {n \in LabelNames : /\ \E id \in ids : ix.of[id][n] # <<>>
                                     /\ accept(hints.f, n).ok}
        card(n) == IF need_cardinality(hints) THEN get_label_cardinality(ix, n) ELSE 0
    IN  apply_search_hints({Entry(n, accept(hints.f, n).score, card(n)) :
                               n \in {m \in names : need_cardinality(hints) => card(m) > 0}}, hints)

collect_label_values(ix, ids, name, hints) ==
    LET values == {v \in {ix.of[id][name] : id \in ids} : v # <<>> /\ accept(hints.f, v).ok}
        card(v) == IF need_cardinality(hints)
                   THEN Cardinality({id \in ids : ix.of[id][name] = v}) ELSE 0
    IN  apply_search_hints({Entry(v, accept(hints.f, v).score, card(v)) : v \in values}, hints)

-----------------------------------------------------------------------------
(* parse_label_name_search_args: the options in the order they are given.  *)

SearchArgs0 == [ok |-> TRUE, terms |-> {}, threshold |-> 0, meta |-> FALSE, limit |-> 0,
                order |-> "none", filters |-> <<>>, ranged |-> FALSE, hint |-> TRUE]

\* resolve_label_search_ordering; dir is "none" when it is left out.
resolve_label_search_ordering(by, dir) ==
    CASE by = "score" -> IF dir = "ASC" THEN "refused" ELSE "ScoreDesc"
      [] by = "value" -> IF dir = "DESC" THEN "ValueDesc" ELSE "ValueAsc"
      [] by = "cardinality" -> IF dir = "DESC" THEN "CardinalityDesc" ELSE "CardinalityAsc"

\* The selectors of one FILTER join those of the FILTERs before it.
AddFilters(acc, sels) ==
    LET all == acc.filters \o [i \in DOMAIN sels |-> sels[i].val]
    IN  [acc EXCEPT !.filters = all,
                    !.ok = /\ sels # <<>>
                           /\ \A i \in DOMAIN sels : sels[i].ok
                           /\ validate_selector_list(all)]

SearchOption(acc, o) ==
    LET order == resolve_label_search_ordering(o.by, o.dir)
    IN  CASE ~acc.ok -> acc
          [] o.t = "SEARCH" -> [acc EXCEPT !.terms = @ \cup o.x, !.ok = o.x # {}]
          [] o.t = "FUZZY_THRESHOLD" -> [acc EXCEPT !.threshold = o.x, !.ok = o.x \in 0..10]
          [] o.t = "INCLUDE_METADATA" -> [acc EXCEPT !.meta = TRUE]
          [] o.t = "SORTBY" -> [acc EXCEPT !.order = order, !.ok = order # "refused"]
          [] o.t = "LIMIT" -> [acc EXCEPT !.limit = o.x, !.ok = o.x \in 1..LimitMax]
          [] o.t = "FILTER_BY_RANGE" -> [acc EXCEPT !.ranged = TRUE]
          [] o.t = "FILTER" -> AddFilters(acc, [i \in DOMAIN o.x |-> parse_series_selector(o.x[i])])

SearchDefaults(end) ==
    [end EXCEPT !.order = IF @ # "none" THEN @
                          ELSE IF end.terms # {} THEN "ScoreDesc" ELSE "ValueAsc",
                !.limit = IF @ = 0 THEN DefaultLimit ELSE @,
                !.ok = @ /\ (end.ranged => end.filters # <<>>)]
parse_label_name_search_args(opts) == SearchDefaults(FoldLeft(SearchOption, SearchArgs0, opts))

\* build_search_hints
build_search_hints(a) ==
    [f |-> [terms |-> a.terms, threshold |-> a.threshold],
     limit |-> IF a.limit < LimitMax THEN a.limit ELSE LimitMax,
     order |-> a.order, meta |-> a.meta]

-----------------------------------------------------------------------------
(* LabelSearchFanoutCommand: the coordinator's map of results. *)

\* on_response: the first score is kept and the cardinalities are summed.
search_on_response(map, page) ==
    LET known(e) == {m \in map : m.v = e.v}
        come == ToSet(page.results)
    IN  {IF known(e) = {} THEN e
         ELSE LET k == CHOOSE m \in known(e) : TRUE IN [k EXCEPT !.card = @ + e.card] : e \in come}
        \cup {m \in map : \A e \in come : e.v # m.v}

\* reply: the flag of the merged page alone is sent.
search_reply(map, hints) == apply_search_hints(map, hints)

-----------------------------------------------------------------------------
(* TS.LABELSTATS *)

\* BatchIterator::next_batch: the keys after the cursor, at most n of them.
BatchKeys(ix, cursor, n) ==
    FirstOf(SelectSeq(IndexKeys(ix), LAMBDA p : cursor = <<>> \/ TextLess(KeyBytes(cursor), KeyBytes(p))),
            n)

\* adjusted_cardinality, or the part of the list inside the matching set.
PairCount(ix, matching, p) ==
    Cardinality(IF matching.all THEN mask(ix, Postings(ix, p[1], p[2]))
                ELSE Postings(ix, p[1], p[2]) \cap matching.ids)

\* StatsMaxHeap: the items kept, with the least count among them and its place.
NoHeap == [items |-> <<>>, min |-> 0, at |-> 0]

heap_push(heap, item, n) ==
    LET items == IF Len(heap.items) < n THEN Append(heap.items, item)
                 ELSE [heap.items EXCEPT ![heap.at] = item]
        least(h, i) == IF items[i].count < h.min THEN [h EXCEPT !.min = items[i].count, !.at = i]
                       ELSE h
    IN  IF Len(heap.items) < n
        THEN [items |-> items,
              min |-> IF heap.at = 0 \/ item.count < heap.min THEN item.count ELSE heap.min,
              at |-> IF heap.at = 0 \/ item.count < heap.min THEN Len(items) ELSE heap.at]
        ELSE IF item.count < heap.min THEN heap
        ELSE FoldLeft(least, [items |-> items, min |-> item.count, at |-> heap.at],
                      [i \in 1..Len(items) |-> i])

\* collate_stats_values: the counts of an item several shards list are summed.
collate_stats_values(map, items) ==
    LET come == ToSet(items)
        plus(e) == {m.count : m \in {o \in map : o.name = e.name}}
    IN  {[e EXCEPT !.count = @ + SumSet(plus(e))] : e \in come}
        \cup {m \in map : \A e \in come : e.name # m.name}

=============================================================================
