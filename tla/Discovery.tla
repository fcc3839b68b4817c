------------------------------ MODULE Discovery ------------------------------
(***************************************************************************)
(* A discovery command on one node, from its arguments to its reply:       *)
(* series/index/querier (TS.MGET, TS.MRANGE, TS.QUERYINDEX, TS.CARD,       *)
(* TS.QUERYLABELS, TS.MDEL), label_querier (TS.LABELNAMES, TS.LABELVALUES) *)
(* and the batched scan of TS.LABELSTATS.                                  *)
(*                                                                         *)
(* The selectors are parsed, shipped over the bus when the command comes   *)
(* from a coordinator, planned under the postings read lock, and only then *)
(* are the keys opened, one by one: opening an expired key on a primary    *)
(* reaps it, and its unlink callback takes the write lock.  Background     *)
(* sweeps take the same lock at any point.  The request says what it       *)
(* means (ast), next to the tokens the parser gets.                        *)
(***************************************************************************)
EXTENDS LabelSearch

CONSTANTS
    Of,              \* the labels of each series id
    InRange,         \* the ids with samples in the date range of the requests
    Shards,          \* the shards of a clustered label search
    ShardOf(_),      \* the shard that holds an id
    BatchSize,       \* BATCH_SIZE of the statistics scan
    HeapLength,      \* the LIMIT of TS.LABELSTATS
    Starts,          \* the states a command may find
    Requests(_),     \* the commands of a start
    MaxServed        \* bound: commands served in a row

VARIABLES
    ix,          \* the index: of, all, stale
    expired,     \* the ids whose key has expired and is not reaped
    node,        \* replica, readable (ids the caller may read), unrestricted
    req,         \* the command
    phase,       \* where it is
    sels,        \* the selectors, parsed
    ids,         \* what the plan returned
    todo,        \* the ids whose key is still to be opened
    found,       \* the series opened
    dangling,    \* StaleIds: ids found without a series
    scan,        \* the statistics scan, or what the coordinator has merged
    reply,
    asked,       \* history: the indexed ids, and the stale ones, when it was planned
    served

vars == <<ix, expired, node, req, phase, sels, ids, todo, found, dangling, scan,
          reply, asked, served>>

NoReply == [st |-> "none", val |-> {}]
Reply(val) == [st |-> "ok", val |-> val]
Error(e) == [st |-> e, val |-> {}]
NothingAsked == [all |-> {}, stale |-> {}]
NoScan == [cursor |-> <<>>, counts |-> {}, heap |-> NoHeap,     \* the statistics scan
           from |-> {}, sum |-> 0, map |-> {}, names |-> {}, pairs |-> {}]

Init ==
    /\ \E s \in Starts :
          /\ ix = [of |-> Of, all |-> s.all, stale |-> s.stale]
          /\ expired = s.expired
          /\ node = s.node
          /\ req \in Requests(s)
    /\ phase = "new"
    /\ sels = <<>> /\ ids = {} /\ todo = <<>> /\ found = {} /\ dangling = {}
    /\ scan = NoScan /\ reply = NoReply /\ asked = NothingAsked /\ served = 0

\* Nothing asked.
Idle ==
    /\ ix = [of |-> Of, all |-> {}, stale |-> {}] /\ expired = {} /\ node = {} /\ req = {}
    /\ phase = "idle"
    /\ sels = <<>> /\ ids = {} /\ todo = <<>> /\ found = {} /\ dangling = {}
    /\ scan = NoScan /\ reply = NoReply /\ asked = NothingAsked /\ served = 0

allows(id) == node.unrestricted \/ id \in node.readable

Answered(r) == phase' = "done" /\ reply' = r

-----------------------------------------------------------------------------
(* Arguments *)

\* Some commands need no FILTER: all series are meant.
FilterOptional == req.cmd \in {"QUERYLABELS", "CARD", "STATS", "SEARCH"}
FiltersOf(a) == IF a.ok THEN Read(a.filters, <<>>) ELSE Refused
ParsedSelectors ==
    IF req.cmd = "SEARCH" THEN FiltersOf(parse_label_name_search_args(req.opts))
    ELSE IF req.args = <<>> /\ FilterOptional THEN Read(<<>>, <<>>)
    ELSE parse_series_selector_list(req.args)

Parse ==
    /\ phase = "new"
    /\ \E r \in {ParsedSelectors} :
        /\ sels' = r.val
        /\ IF r.ok THEN phase' = "parsed" /\ UNCHANGED reply
           ELSE Answered(Error("refused"))
    /\ UNCHANGED <<ix, expired, node, req, ids, todo, found, dangling, scan, asked, served>>

\* generate_request and get_local_response: the shard works on what it decodes.
Ship ==
    /\ phase = "parsed" /\ req.bus
    /\ \E back \in {[i \in DOMAIN sels |-> SelectorOverBus(sels[i])]} :
        LET ok == \A i \in DOMAIN back : back[i].ok
        IN  /\ sels' = IF ok THEN [i \in DOMAIN back |-> back[i].sel] ELSE sels
            /\ IF ok THEN phase' = "shipped" /\ UNCHANGED reply
               ELSE Answered(Error("refused"))
    /\ UNCHANGED <<ix, expired, node, req, ids, todo, found, dangling, scan, asked, served>>

Ready == phase = IF req.bus THEN "shipped" ELSE "parsed"

-----------------------------------------------------------------------------
(* Planning, under the read lock *)

Hints == build_search_hints(parse_label_name_search_args(req.opts))
SelectorAnswer == IF sels = <<>> THEN Answer("ok", ix.all) ELSE postings_for_selectors(ix, sels)

\* The gates that look at no key: a bare TS.CARD, and every label search or
\* statistic, is for a caller who may read all keys.
check_metadata_permissions ==
    node.unrestricted \/ ~(req.cmd \in {"SEARCH", "STATS"} \/ (req.cmd = "CARD" /\ sels = <<>>))

\* TS.CARD needs a matcher for a date range, and in a cluster.
CardWithoutMatcher == req.cmd = "CARD" /\ sels = <<>> /\ (req.ranged \/ req.shards # {})

Resolve ==
    /\ Ready
    /\ \E a \in {SelectorAnswer} :
           IF ~check_metadata_permissions
           THEN Answered(Error("ALL_KEYS_READ")) /\ UNCHANGED <<ids, asked>>
           ELSE IF CardWithoutMatcher
           THEN Answered(Error("no matcher")) /\ UNCHANGED <<ids, asked>>
           ELSE IF a.st # "ok" THEN Answered(Error(a.st)) /\ UNCHANGED <<ids, asked>>
           ELSE /\ ids' = a.ids
                /\ asked' = [all |-> ix.all, stale |-> ix.stale]
                /\ phase' = "resolved"
                /\ UNCHANGED reply
    /\ UNCHANGED <<ix, expired, node, req, sels, todo, found, dangling, scan, served>>

\* What is answered from the postings alone: TS.QUERYINDEX and TS.CARD without a
\* date range, keys_for_selectors, and a label search without selectors.
FromPostings ==
    \/ req.cmd \in {"QUERYINDEX", "CARD"} /\ ~req.ranged
    \/ req.cmd = "KEYS"
    \/ req.cmd = "SEARCH" /\ sels = <<>>

UnscopedPage(hints) ==
    IF req.what = "names" THEN collect_unscoped_label_names(ix, hints)
    ELSE collect_unscoped_label_values(ix, req.label, hints)

AnswerFromPostings ==
    /\ phase = "resolved" /\ FromPostings /\ req.shards = {}
    /\ Answered(CASE req.cmd = "QUERYINDEX" -> Reply(ids)
                  [] req.cmd = "CARD" -> Reply(Cardinality(ids))
                  [] req.cmd = "SEARCH" -> Reply(UnscopedPage(Hints))
                  [] req.cmd = "KEYS" -> IF \A id \in ids : allows(id) THEN Reply(ids)
                                         ELSE Error("ALL_KEYS"))
    /\ UNCHANGED <<ix, expired, node, req, sels, ids, todo, found, dangling, scan, asked, served>>

-----------------------------------------------------------------------------
(* Opening the keys *)

StartOpening ==
    /\ phase = "resolved" /\ ~FromPostings /\ req.cmd # "STATS" /\ req.shards = {}
    /\ todo' = InOrder(ids, <)
    /\ phase' = "open"
    /\ UNCHANGED <<ix, expired, node, req, sels, ids, found, dangling, scan, reply, asked, served>>

\* unlink2: a reaped series leaves the index.
Unlinked(index, id) == [index EXCEPT !.all = @ \ {id}, !.stale = @ \ {id}]

\* Mutant: a series the caller may not read is reported like one that is gone.
OpenDeniedAsGone ==
    /\ phase = "open" /\ todo # <<>>
    /\ LET id == Head(todo) IN
       /\ todo' = Tail(todo)
       /\ IF allows(id) /\ id \notin expired
          THEN found' = found \cup {id} /\ UNCHANGED dangling
          ELSE dangling' = dangling \cup {id} /\ UNCHANGED found
    /\ UNCHANGED <<ix, expired, phase, node, req, sels, ids, scan, reply, asked, served>>

\* try_get_timeseries_as: the permission first, then the key; TS.QUERYLABELS skips
\* what the caller may not read, the others fail.
Open ==
    /\ phase = "open" /\ todo # <<>>
    /\ LET id == Head(todo) IN
       IF ~allows(id)
       THEN IF req.cmd = "QUERYLABELS"
            THEN todo' = Tail(todo) /\ UNCHANGED <<ix, expired, phase, found, dangling>>
            ELSE phase' = "denied" /\ UNCHANGED <<ix, expired, todo, found, dangling>>
       ELSE /\ todo' = Tail(todo)
            /\ UNCHANGED phase
            /\ IF id \in expired
               THEN /\ dangling' = dangling \cup {id}
                    /\ UNCHANGED found
                    /\ IF node.replica THEN UNCHANGED <<ix, expired>>
                       ELSE ix' = Unlinked(ix, id) /\ expired' = expired \ {id}
               ELSE found' = found \cup {id} /\ UNCHANGED <<ix, expired, dangling>>
    /\ UNCHANGED <<node, req, sels, ids, scan, reply, asked, served>>

mark_ids_as_stale(index, gone) ==
    IF gone = {} THEN index
    ELSE [index EXCEPT !.all = @ \ gone, !.stale = @ \cup gone]

\* Mutant: NOT is ignored.
InDateRangeAlways(s) == IF ~req.ranged THEN s ELSE {id \in s : id \in InRange}

\* matches_date_range, filter_series_by_date_range
InDateRange(s) ==
    IF ~req.ranged THEN s ELSE {id \in s : (id \in InRange) # req.exclude}

\* query_labels_distinct: the names, or the values of one label, of the series.
LabelsOf(live) ==
    IF req.what = "names" THEN {n \in LabelNames : \E id \in live : Of[id][n] # <<>>}
    ELSE {Of[id][req.label] : id \in live} \ {<<>>}

ScopedPage(live, hints) ==
    IF req.what = "names" THEN collect_label_names(ix', live, hints)
    ELSE collect_label_values(ix', live, req.label, hints)

SeriesReply ==
    CASE req.cmd \in {"MGET", "QUERYINDEX"} -> InDateRange(found)
      [] req.cmd = "CARD" -> Cardinality(InDateRange(found))
      [] req.cmd = "QUERYLABELS" -> LabelsOf(found)
      [] req.cmd = "SEARCH" -> ScopedPage(InDateRange(found), Hints)

\* The ids that led to no series are recorded, also when a permission was missing.
Finish ==
    /\ \/ phase = "open" /\ todo = <<>>
       \/ phase = "denied"
    /\ ix' = mark_ids_as_stale(ix, dangling)
    /\ Answered(IF phase = "denied" THEN Error("denied") ELSE Reply(SeriesReply))
    /\ UNCHANGED <<expired, node, req, sels, ids, todo, found, dangling, scan, asked, served>>

-----------------------------------------------------------------------------
(* TS.LABELSTATS: the read lock is taken for one batch at a time.  counts  *)
(* holds a record per pair counted.                                        *)

Matching == [all |-> sels = <<>>, ids |-> ids]

StatsBatch ==
    /\ phase = "resolved" /\ req.cmd = "STATS" /\ req.shards = {}
    /\ LET keys == BatchKeys(ix, scan.cursor, BatchSize)
           one(acc, p) ==
               LET n == PairCount(ix, Matching, p)
                   item == [name |-> p, count |-> n]
               IN  IF n = 0 THEN acc
                   ELSE [acc EXCEPT !.counts = @ \cup {item},
                                    !.heap = heap_push(@, item, HeapLength)]
       IN  IF keys = <<>>
           THEN Answered(Reply(scan.counts)) /\ UNCHANGED scan
           ELSE /\ scan' = [FoldLeft(one, scan, keys) EXCEPT !.cursor = Last(keys)]
                /\ UNCHANGED <<phase, reply>>
    /\ UNCHANGED <<ix, expired, node, req, sels, ids, todo, found, dangling, asked, served>>

-----------------------------------------------------------------------------
(* In a cluster the shards answer in any order and the coordinator merges  *)
(* what they send.  Each works on its own index, under its module lock.    *)

ShardIndex(s) == [of |-> Of, all |-> {id \in ix.all : ShardOf(id) = s},
                  stale |-> {id \in ix.stale : ShardOf(id) = s}]

ShardHints == [Hints EXCEPT !.limit = LimitMax]

\* process_label_search_request on one shard.
ShardPage(six, live, hints) ==
    CASE sels = <<>> /\ req.what = "names" -> collect_unscoped_label_names(six, hints)
      [] sels = <<>> /\ req.what = "values" -> collect_unscoped_label_values(six, req.label, hints)
      [] sels # <<>> /\ req.what = "names" -> collect_label_names(six, live, hints)
      [] OTHER -> collect_label_values(six, live, req.label, hints)

\* stats_restricted and label_bitmaps_restricted over the same matching set.
ShardStats(s) ==
    LET six  == ShardIndex(s)
        keys == SelectSeq(IndexKeys(six), LAMBDA p : PairCount(six, Matching, p) > 0)
        item(p) == [name |-> p, count |-> PairCount(six, Matching, p)]
    IN  [pairs |-> ToSet(keys), names |-> {p[1] : p \in ToSet(keys)},
         top |-> FoldLeft(LAMBDA h, p : heap_push(h, item(p), HeapLength), NoHeap, keys).items]

\* on_response of each command.
card_on_response(n) == [scan EXCEPT !.sum = @ + n]
keys_on_response(keys) == [scan EXCEPT !.map = @ \cup keys]
labels_on_response(values) == [scan EXCEPT !.map = @ \cup values]
stats_on_response(n, st) ==
    [scan EXCEPT !.sum = @ + n, !.names = @ \cup st.names, !.pairs = @ \cup st.pairs,
                 !.map = collate_stats_values(@, st.top)]

\* A shard's share, given its ids and the live ones among them.
Merged(s, mine, live) ==
    LET in == IF req.ranged THEN InDateRange(live) ELSE mine
    IN  CASE req.cmd = "CARD" -> card_on_response(Cardinality(in))
          [] req.cmd = "QUERYINDEX" -> keys_on_response(in)
          [] req.cmd = "QUERYLABELS" -> labels_on_response(LabelsOf(live))
          [] req.cmd = "SEARCH" -> [scan EXCEPT !.map =
                                    search_on_response(@, ShardPage(ShardIndex(s), live, ShardHints))]
          [] req.cmd = "STATS" -> stats_on_response(Cardinality(mine), ShardStats(s))

\* collect_map_values: the largest of the merged counts.
collect_map_values(map) ==
    ToSet(FoldSet(LAMBDA e, h : heap_push(h, e, HeapLength), NoHeap, map).items)

stats_reply(m) ==
    [series |-> m.sum, names |-> Cardinality(m.names), pairs |-> Cardinality(m.pairs),
     top |-> collect_map_values(m.map)]

MergedReply(m) ==
    CASE req.cmd = "CARD" -> m.sum
      [] req.cmd = "SEARCH" -> search_reply(m.map, Hints)
      [] req.cmd = "STATS" -> stats_reply(m)
      [] OTHER -> m.map

OpensKeys == ~FromPostings /\ req.cmd # "STATS"

ShardAnswers(s) ==
    /\ phase = "resolved" /\ s \in req.shards \ scan.from
    /\ LET mine == {id \in ids : ShardOf(id) = s}
           gone == IF OpensKeys THEN mine \cap expired ELSE {}
       IN  /\ scan' = [Merged(s, mine, mine \ expired) EXCEPT !.from = @ \cup {s}]
           /\ dangling' = dangling \cup gone
           /\ ix' = [ix EXCEPT !.all = @ \ gone]
           /\ expired' = expired \ gone
           /\ IF scan'.from = req.shards THEN Answered(Reply(MergedReply(scan')))
              ELSE UNCHANGED <<phase, reply>>
    /\ UNCHANGED <<node, req, sels, ids, todo, found, asked, served>>

-----------------------------------------------------------------------------
(* Around the command *)

\* The background drain, seen from here: the stale ids leave the posting lists.
Sweep ==
    /\ ix.stale # {} /\ req.sweeps
    /\ ~(phase = "resolved" /\ FromPostings)      \* the read lock is held
    /\ ix' = [ix EXCEPT !.stale = {}]
    /\ UNCHANGED <<expired, node, req, phase, sels, ids, todo, found, dangling, scan,
                   reply, asked, served>>

\* The same command once more.
Again ==
    /\ phase = "done" /\ req.again /\ served < MaxServed
    /\ served' = served + 1
    /\ phase' = "new"
    /\ sels' = <<>> /\ ids' = {} /\ todo' = <<>> /\ found' = {} /\ dangling' = {}
    /\ scan' = NoScan /\ reply' = NoReply /\ asked' = NothingAsked
    /\ UNCHANGED <<ix, expired, node, req>>

Serve == Parse \/ Ship \/ Resolve \/ AnswerFromPostings \/ StartOpening \/ Open \/ Finish
         \/ StatsBatch \/ \E s \in Shards : ShardAnswers(s)

Next == Serve \/ Sweep \/ Again

Spec == Init /\ [][Next]_vars

-----------------------------------------------------------------------------
(* What the commands mean *)

\* The filters as documented: a missing label reads as the empty text, and a
\* pattern matches the whole value.
RefFilter(labels, f) ==
    LET t == labels[f.label]
    IN  CASE f.op = "=" -> t \in f.vs
          [] f.op = "!=" -> t \notin f.vs
          [] f.op = "=~" -> FullMatch(f.re, t)
          [] f.op = "!~" -> ~FullMatch(f.re, t)
          [] f.op = "^=" -> \E v \in f.vs : IsPrefix(v, t)
          [] f.op = "!^=" -> \A v \in f.vs : ~IsPrefix(v, t)

\* A selector is a set of alternatives, each a set of filters; a list of selectors
\* is a conjunction.
RefMatches(id) ==
    \A s \in req.ast : \E group \in s : \A f \in group : RefFilter(Of[id], f)

RefIndexed == {id \in asked.all : RefMatches(id)}

RefLive == {id \in RefIndexed : id \notin expired /\ id \notin dangling}

RefInRange == {id \in RefLive : req.ranged => (id \in InRange) # req.exclude}

\* Whatever way a selector is written, ordered, decomposed into index lookups and
\* shipped to another node, the plan returns exactly the indexed series its filters
\* describe.
SelectorExact == phase = "resolved" => ids = RefIndexed

\* A well-formed request that bounds its search is never refused, here or by the
\* node that decodes it.
GoodRequestsServed == phase = "done" /\ req.good => reply.st # "refused" /\ reply.st # "MISSING_FILTER"

\* A command that reads series answers for exactly the live, matching series in its
\* date range, or fails because of one the caller may not read; TS.QUERYLABELS
\* answers for those the caller may read; TS.QUERYINDEX and TS.CARD without a date
\* range answer for the indexed ones.  So does the merge of shards, in any order.
SeriesRepliesExact ==
    phase = "done" /\ reply.st = "ok" =>
        /\ req.cmd = "MGET" => /\ reply.val = RefInRange
                               /\ \A id \in reply.val : allows(id)
        /\ req.cmd = "CARD" => reply.val = Cardinality(IF req.ranged THEN RefInRange ELSE RefIndexed)
        /\ req.cmd = "QUERYINDEX" => reply.val = IF req.ranged THEN RefInRange ELSE RefIndexed
        /\ req.cmd = "QUERYLABELS" =>
              LET seen == {id \in RefLive : allows(id)}
              IN  reply.val = IF req.what = "names"
                              THEN {n \in LabelNames : \E id \in seen : Of[id][n] # <<>>}
                              ELSE {Of[id][req.label] : id \in seen} \ {<<>>}
        /\ req.cmd = "KEYS" => \A id \in reply.val : allows(id)

\* Repair: once a reading command has answered, no expired series it matched is
\* left among the indexed ids.
RepairDone ==
    phase = "done" /\ req.cmd = "MGET" /\ reply.st = "ok" =>
        \A id \in ix.all : RefMatches(id) => id \notin expired

\* A live series is never taken out of the index by a query.
LiveStaysIndexed == [][\A id \in ix.all \ expired : id \in ix'.all]_vars

\* What a search should answer: the accepted texts in the order asked for, cut at
\* the limit, and has_more exactly when something was cut off.
RefTexts(seen, hints) ==
    IF req.what = "names"
    THEN {n \in LabelNames : accept(hints.f, n).ok /\ \E id \in seen : Of[id][n] # <<>>}
    ELSE {v \in {Of[id][req.label] : id \in seen} : v # <<>> /\ accept(hints.f, v).ok}

PageShows(page, texts, seen, hints) ==
    LET got   == {e.v : e \in ToSet(page.results)}
        n     == Len(page.results)
        first(t) == CHOOSE e \in ToSet(page.results) : e.v = t
        score(t) == accept(hints.f, t).score
        card(t) == IF req.what = "values" THEN Cardinality({id \in seen : Of[id][req.label] = t})
                   ELSE get_label_cardinality(ix, t)
        ahead(t, u) == compare_search_results(hints.order, Entry(t, score(t), card(t)),
                                              Entry(u, score(u), card(u)))
    IN  /\ got \subseteq texts /\ Cardinality(got) = n
        /\ n = IF Cardinality(texts) < hints.limit THEN Cardinality(texts) ELSE hints.limit
        /\ \A t \in got, u \in texts \ got : ahead(t, u)
        /\ \A i, j \in 1..n : i < j => ahead(page.results[i].v, page.results[j].v)
        /\ page.has_more = (Cardinality(texts) > n)
        /\ \A t \in got : need_cardinality(hints) => first(t).card = card(t)
PageIsExact(page, seen, hints) == PageShows(page, RefTexts(seen, hints), seen, hints)

SearchDone == phase = "done" /\ req.cmd = "SEARCH" /\ reply.st = "ok"

\* A label search within selectors, on one node or merged from shards that answer
\* in any order, returns the best limit texts in order, each once, with its
\* cardinality, and says truthfully whether there are more.  The cardinality of a
\* name is that of a node, whatever the selectors, so names counted on several
\* shards are left out.
ScopedSearchExact ==
    SearchDone /\ sels # <<>> =>
        \A hints \in {Hints} :
            ~(req.what = "names" /\ req.shards # {} /\ need_cardinality(hints))
            => PageIsExact(reply.val, RefInRange, hints)

\* The same for a search over the whole index, which scans the index keys, those of
\* stale ids included until they are swept.
UnscopedSearchExact ==
    SearchDone /\ sels = <<>> => PageIsExact(reply.val, asked.all \cup asked.stale, Hints)

\* The same, for the values of a label in their own order: the scan that follows
\* the index keys and stops at the limit.
ValueListingExact ==
    SearchDone /\ sels = <<>> /\ req.what = "values" =>
        \A hints \in {Hints} :
            hints.order \notin Ranked => PageIsExact(reply.val, asked.all \cup asked.stale, hints)

\* The statistics count every pair once and only live series, though stale ids are
\* swept from the lists between two batches of the scan; a bounded list holds the
\* largest counts; and the totals of a cluster are those of the union of its shards,
\* as are its counts when no shard had to cut its list.
StatsExact ==
    phase = "done" /\ req.cmd = "STATS" /\ reply.st = "ok" =>
        LET count(p) == Cardinality({id \in ids : Of[id][p[1]] = p[2]})
            pairsOf(some) == {p \in {<<n, Of[id][n]>> : n \in LabelNames, id \in some} : p[2] # <<>>}
            pairs == pairsOf(ids)
            items == {[name |-> p, count |-> count(p)] : p \in pairs}
            top   == IF req.shards = {} THEN ToSet(scan.heap.items) ELSE reply.val.top
            whole == \A s \in req.shards :
                        Cardinality(pairsOf({id \in ids : ShardOf(id) = s})) <= HeapLength
        IN  /\ req.shards = {} => reply.val = items
            /\ req.shards # {} => /\ reply.val.series = Cardinality(ids)
                                  /\ reply.val.names = Cardinality({p[1] : p \in pairs})
                                  /\ reply.val.pairs = Cardinality(pairs)
            /\ whole =>
                 /\ top \subseteq items
                 /\ Cardinality(top) = Min({HeapLength, Cardinality(items)})
                 /\ \A i \in top, o \in items \ top : o.count <= i.count

\* Every reply of a discovery command is exact, and serving it has repaired what it met.
RepliesExact ==
    /\ GoodRequestsServed /\ SeriesRepliesExact /\ RepairDone
    /\ ScopedSearchExact /\ ValueListingExact /\ StatsExact
=============================================================================
