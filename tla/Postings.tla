------------------------------ MODULE Postings ------------------------------
(***************************************************************************)
(* The inverted index of one database (series/index/postings): posting     *)
(* lists per label=value key, the id directory, the set of all indexed ids *)
(* and the tombstones (StaleSet) a background pass drains.  Every operator *)
(* is what the code does under one hold of the postings write lock.        *)
(*                                                                         *)
(* Label keys are numbered in the order of the radix tree; a key with an   *)
(* empty posting list is one the tree does not hold.                       *)
(***************************************************************************)
EXTENDS Integers, FiniteSets, FiniteSetsExt

CONSTANTS
    Keys,           \* the key names
    NumLabels,      \* the label=value pairs, in index order
    MaxId,          \* bound on the series ids handed out
    NoKey,          \* an id the directory does not hold
    NoPass,         \* no drain pass is under way
    NoSeries        \* a key that holds no series

Labels == 1 .. NumLabels
Ids == 1 .. MaxId

\* What the index needs to know of a TimeSeries.  expired: its time to live has passed.
SeriesType == [id : Ids, labels : SUBSET Labels, expired : BOOLEAN]

ASSUME PostingsAssumption ==
    /\ NumLabels \in Nat
    /\ MaxId \in Nat
    /\ NoKey \notin Keys
    /\ \A ids \in SUBSET Ids : NoPass # ids
    /\ \A ts \in SeriesType : NoSeries # ts

PostingsType ==
    [label_index  : [Labels -> SUBSET Ids],
     id_to_key    : [Ids -> {NoKey} \cup Keys],
     stale_ids    : SUBSET Ids,
     pass         : {NoPass} \cup SUBSET Ids,
     all_postings : SUBSET Ids]

EmptyPostings ==
    [label_index  |-> [l \in Labels |-> {}],
     id_to_key    |-> [id \in Ids |-> NoKey],
     stale_ids    |-> {},
     pass         |-> NoPass,
     all_postings |-> {}]

-----------------------------------------------------------------------------
(* Reads *)

\* Terms::postings_for_label_value: a posting list with the stale ids masked out.
PostingsForLabelValue(p, l) == p.label_index[l] \ p.stale_ids

\* Terms::posting_id_by_labels finds an id: exactly one series has all these labels.
HasPostingByLabels(p, labels) ==
    labels # {} /\ Cardinality({id \in Ids : \A l \in labels :
                                    id \in PostingsForLabelValue(p, l)}) = 1

-----------------------------------------------------------------------------
(* StaleSet *)

MarkManyKeepingPass(p, ids) == [p EXCEPT !.stale_ids = @ \cup ids]

MarkMany(p, ids) ==
    [p EXCEPT !.stale_ids = @ \cup ids,
              !.pass      = IF @ = NoPass THEN NoPass ELSE @ \ ids]

BeginPass(p) == [p EXCEPT !.pass = p.stale_ids]

FinishPass(p) ==
    IF p.pass = NoPass THEN p
    ELSE [p EXCEPT !.stale_ids = @ \ p.pass, !.pass = NoPass]

Revoke(p, id) == [p EXCEPT !.stale_ids = @ \ {id}]

MarkIdsKeepingAll(p, ids) ==
    MarkMany([p EXCEPT !.id_to_key = [id \in Ids |-> IF id \in ids THEN NoKey ELSE @[id]]], ids)

MarkIdsAsStale(p, ids) ==
    [MarkMany(p, ids) EXCEPT
        !.id_to_key    = [id \in Ids |-> IF id \in ids THEN NoKey ELSE @[id]],
        !.all_postings = @ \ ids]

\* The keys a batch of at most count keys visits, from start on.
Visited(p, start, count) ==
    LET held == {l \in Labels : l >= start /\ p.label_index[l] # {}}
    IN  {l \in held : Cardinality({m \in held : m < l}) < count}

\* The cursor handed back: the first key not visited, 0 at the end of the index.
NextCursorStuck(visited, rest) == IF rest = {} THEN 0 ELSE Max(visited)

NextCursor(visited, rest) == IF rest = {} THEN 0 ELSE Min(rest)

\* remove_stale_ids: strip the stale ids from one batch of keys.  start = 0 begins a pass; at the
\* end of the index the pass is finished, unless the batch found no key at all.
RemoveStaleIds(p, start, count) ==
    IF p.stale_ids = {} THEN [postings |-> p, next |-> 0]
    ELSE LET begun   == IF start = 0 \/ p.pass = NoPass THEN BeginPass(p) ELSE p
             visited == Visited(p, start, count)
             rest    == {l \in Labels : /\ l >= start
                                        /\ p.label_index[l] # {}
                                        /\ l \notin visited}
             masked  == [begun EXCEPT !.label_index =
                            [l \in Labels |-> IF l \in visited THEN @[l] \ p.stale_ids ELSE @[l]]]
         IN  [postings |-> IF visited # {} /\ rest = {} THEN FinishPass(masked) ELSE masked,
              next     |-> NextCursor(visited, rest)]

-----------------------------------------------------------------------------
(* Mutation *)

\* index_timeseries: a series that is indexed again is alive, so its tombstone goes.
IndexTimeseries(p, ts, key) ==
    [Revoke(p, ts.id) EXCEPT
        !.label_index  = [l \in Labels |-> IF l \in ts.labels THEN @[l] \cup {ts.id} ELSE @[l]],
        !.all_postings = @ \cup {ts.id},
        !.id_to_key[ts.id] = key]

RemoveTimeseries(p, ts) ==
    [p EXCEPT
        !.id_to_key[ts.id] = NoKey,
        !.all_postings = @ \ {ts.id},
        !.label_index  = [l \in Labels |-> IF l \in ts.labels THEN @[l] \ {ts.id} ELSE @[l]]]

\* An id the directory does not hold under this very key is left alone.
RemoveTimeseriesForKey(p, ts, key) ==
    IF p.id_to_key[ts.id] # key THEN p ELSE RemoveTimeseries(p, ts)

ReindexUnderOldKey(p, ts, old_key, new_key) ==
    IndexTimeseries(RemoveTimeseriesForKey(p, ts, old_key), ts, old_key)

\* reindex_timeseries: a RENAME keeps the id.
ReindexTimeseries(p, ts, old_key, new_key) ==
    IndexTimeseries(RemoveTimeseriesForKey(p, ts, old_key), ts, new_key)

IndexLoadedKeepingOld(p, ts, key, fresh) == IndexTimeseries(p, [ts EXCEPT !.id = fresh], key)

\* index_loaded_series: what entered the keyspace from outside is indexed under a fresh id, after
\* the entry its old id may have under this key is retired.
IndexLoadedSeries(p, ts, key, fresh) ==
    IndexTimeseries(RemoveTimeseriesForKey(p, ts, key), [ts EXCEPT !.id = fresh], key)

\* index_series_keep_id, for the repair scan: no-op when indexed already, a fresh id only when
\* another key owns this one.
KeepsId(p, ts, key) == p.id_to_key[ts.id] \in {NoKey, key}

IndexSeriesKeepId(p, ts, key, fresh) ==
    CASE p.id_to_key[ts.id] = key   -> p
      [] p.id_to_key[ts.id] = NoKey -> IndexTimeseries(p, ts, key)
      [] OTHER                      -> IndexLoadedSeries(p, ts, key, fresh)

\* bulk_index: a set of buffered series at once, under the ids they carry.
BulkIndex(p, entries) ==
    LET ids == {e.id : e \in entries}
    IN  [p EXCEPT
            !.stale_ids    = @ \ ids,
            !.all_postings = @ \cup ids,
            !.label_index  = [l \in Labels |->
                                 @[l] \cup {e.id : e \in {x \in entries : l \in x.labels}}],
            !.id_to_key    = [id \in Ids |->
                                 IF id \in ids THEN (CHOOSE e \in entries : e.id = id).key
                                 ELSE @[id]]]
=============================================================================
