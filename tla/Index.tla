-------------------------------- MODULE Index --------------------------------
(***************************************************************************)
(* The keyspace and the per-database indexes under the commands and server *)
(* events that change either: TS.CREATE, TS.ALTER LABELS, deletion and     *)
(* expiry, RENAME, MOVE, COPY, RESTORE, FLUSHDB/FLUSHALL, SWAPDB and the   *)
(* queries that open the series they match.  The server runs each command  *)
(* with its notifications on the main thread, so each is one step.         *)
(***************************************************************************)
EXTENDS Postings

CONSTANTS
    Dbs,            \* the databases
    InputLabels,    \* the label sets commands give a series
    NameLabels      \* the pairs whose label is __name__

ASSUME IndexAssumption ==
    /\ Dbs \subseteq Nat /\ Dbs # {}
    /\ InputLabels \subseteq SUBSET Labels
    /\ NameLabels \subseteq Labels

VARIABLES
    keyspace,       \* per database and key, the series stored there
    index,          \* TIMESERIES_INDEX: the postings of each database
    next_id,        \* the id counter of next_timeseries_id
    replica         \* this node is a replica: it never reaps an expired key by itself

ivars == <<keyspace, index, next_id, replica>>

TypeOK ==
    /\ keyspace \in [Dbs -> [Keys -> {NoSeries} \cup SeriesType]]
    /\ index \in [Dbs -> PostingsType]
    /\ next_id \in 1 .. MaxId + 1
    /\ replica \in BOOLEAN

Init ==
    /\ keyspace = [db \in Dbs |-> [k \in Keys |-> NoSeries]]
    /\ index = [db \in Dbs |-> EmptyPostings]
    /\ next_id = 1
    /\ replica \in BOOLEAN

Holds(db, key) == keyspace[db][key] # NoSeries

\* A command finds the series: a primary treats an expired key as missing, while the commands a
\* replica executes come from its primary, which decides.
Finds(db, key) == Holds(db, key) /\ (replica \/ ~keyspace[db][key].expired)

\* unlink2, the type's callback for a key that goes away.
Unlink2(p, db, key) ==
    IF Holds(db, key) THEN RemoveTimeseriesForKey(p, keyspace[db][key], key) ELSE p

\* unlink2 for every key of a set.
Unlink2All(p, db, keys) ==
    LET ks   == keyspace[db]
        gone == {k \in keys : p.id_to_key[ks[k].id] = k}
        ids  == {ks[k].id : k \in gone}
    IN  [p EXCEPT
            !.id_to_key    = [id \in Ids |-> IF id \in ids THEN NoKey ELSE @[id]],
            !.all_postings = @ \ ids,
            !.label_index  = [l \in Labels |->
                                 @[l] \ {ks[k].id : k \in {g \in gone : l \in ks[g].labels}}]]

NewSeries(id, labels) == [id |-> id, labels |-> labels, expired |-> FALSE]

-----------------------------------------------------------------------------
(* Commands *)

\* create_series refuses a series with a metric name whose labels the index finds already.
IsDuplicateSeries(p, labels) ==
    labels \cap NameLabels # {} /\ HasPostingByLabels(p, labels)

\* create_and_store_internal: opening the key reaps an expired one, then create_series indexes the
\* series and the value is stored.
Create(db, key, labels) ==
    /\ next_id <= MaxId
    /\ ~Finds(db, key)
    /\ LET ts == NewSeries(next_id, labels)
           p  == Unlink2(index[db], db, key)
       IN  /\ ~IsDuplicateSeries(p, labels)
           /\ index' = [index EXCEPT ![db] = IndexTimeseries(p, ts, key)]
           /\ keyspace' = [keyspace EXCEPT ![db][key] = ts]
    /\ next_id' = next_id + 1

AlterLabelsWithoutRemoval(db, key, labels) ==
    /\ Finds(db, key)
    /\ LET ts == keyspace[db][key]
           new == [ts EXCEPT !.labels = labels]
       IN  /\ index' = [index EXCEPT ![db] = IndexTimeseries(@, new, key)]
           /\ keyspace' = [keyspace EXCEPT ![db][key] = new]
    /\ UNCHANGED next_id

\* TS.ALTER key LABELS: out of the old posting lists, into the new ones, under the same id.
AlterLabels(db, key, labels) ==
    /\ Finds(db, key)
    /\ LET ts == keyspace[db][key]
           new == [ts EXCEPT !.labels = labels]
       IN  /\ index' = [index EXCEPT ![db] = IndexTimeseries(RemoveTimeseries(@, ts), new, key)]
           /\ keyspace' = [keyspace EXCEPT ![db][key] = new]
    /\ UNCHANGED next_id

\* DEL, UNLINK, eviction, active expiry, or a DEL from the primary.
Delete(db, key) ==
    /\ Holds(db, key)
    /\ index' = [index EXCEPT ![db] = Unlink2(@, db, key)]
    /\ keyspace' = [keyspace EXCEPT ![db][key] = NoSeries]
    /\ UNCHANGED next_id

\* The time to live of a key passes.
Expire(db, key) ==
    /\ Holds(db, key)
    /\ ~keyspace[db][key].expired
    /\ keyspace' = [keyspace EXCEPT ![db][key].expired = TRUE]
    /\ UNCHANGED <<index, next_id>>

\* A PEXPIRE or PERSIST the primary ran in time reaches a replica whose clock had passed the old
\* expiry, before any query on the replica has taken the series for gone.
ExtendExpiry(db, key) ==
    /\ replica
    /\ Holds(db, key)
    /\ keyspace[db][key].expired
    /\ index[db].id_to_key[keyspace[db][key].id] = key
    /\ keyspace' = [keyspace EXCEPT ![db][key].expired = FALSE]
    /\ UNCHANGED <<index, next_id>>

\* RENAME src dst: the server unlinks the old destination and the source, then the rename_to
\* handler indexes the series under its new key.
Rename(db, src, dst) ==
    /\ src # dst
    /\ Finds(db, src)
    /\ LET ts == keyspace[db][src]
           unlinked == Unlink2(Unlink2(index[db], db, dst), db, src)
       IN  index' = [index EXCEPT ![db] = ReindexTimeseries(unlinked, ts, src, dst)]
    /\ keyspace' = [keyspace EXCEPT ![db][dst] = keyspace[db][src], ![db][src] = NoSeries]
    /\ UNCHANGED next_id

\* MOVE key to another database: handle_key_move.
Move(from, to, key) ==
    /\ next_id <= MaxId
    /\ from # to
    /\ Finds(from, key)
    /\ ~Finds(to, key)
    /\ LET ts == keyspace[from][key]
           old == Unlink2(index[from], from, key)
       IN  /\ index' = [index EXCEPT
                            ![from] = RemoveTimeseriesForKey(old, ts, key),
                            ![to] = IndexLoadedSeries(Unlink2(@, to, key), ts, key, next_id)]
           /\ keyspace' = [keyspace EXCEPT ![from][key] = NoSeries,
                                           ![to][key] = [ts EXCEPT !.id = next_id]]
    /\ next_id' = next_id + 1

\* COPY src dst [DB to] REPLACE: the copy callback clones the value, the copy_to handler indexes
\* it.
Copy(from, src, to, dst) ==
    /\ next_id <= MaxId
    /\ <<from, src>> # <<to, dst>>
    /\ Finds(from, src)
    /\ LET ts == [keyspace[from][src] EXCEPT !.id = next_id]
       IN  /\ index' = [index EXCEPT ![to] =
                            IndexLoadedSeries(Unlink2(@, to, dst), ts, dst, next_id)]
           /\ keyspace' = [keyspace EXCEPT ![to][dst] = ts]
    /\ next_id' = next_id + 1

RestoreKeepingId(db, key, payload) ==
    /\ index' = [index EXCEPT ![db] = IndexTimeseries(Unlink2(@, db, key), payload, key)]
    /\ keyspace' = [keyspace EXCEPT ![db][key] = payload]
    /\ UNCHANGED next_id

\* RESTORE key payload REPLACE and TS._RESTORE: the payload may be the DUMP of a live series, so
\* it carries an id another key may hold.
Restore(db, key, payload) ==
    /\ next_id <= MaxId
    /\ index' = [index EXCEPT ![db] =
                    IndexLoadedSeries(Unlink2(@, db, key), payload, key, next_id)]
    /\ keyspace' = [keyspace EXCEPT ![db][key] = [payload EXCEPT !.id = next_id]]
    /\ next_id' = next_id + 1

\* FLUSHDB and FLUSHALL: unlink2 stands aside and the index is dropped whole.
Flush(dbs) ==
    /\ keyspace' = [db \in Dbs |-> IF db \in dbs THEN [k \in Keys |-> NoSeries]
                                   ELSE keyspace[db]]
    /\ index' = [db \in Dbs |-> IF db \in dbs THEN EmptyPostings ELSE index[db]]
    /\ UNCHANGED next_id

\* SWAPDB: the server swaps the keyspaces, on_swap_db_event the postings.
SwapDb(a, b) ==
    /\ a # b
    /\ keyspace' = [keyspace EXCEPT ![a] = keyspace[b], ![b] = keyspace[a]]
    /\ index' = [index EXCEPT ![a] = index[b], ![b] = index[a]]
    /\ UNCHANGED next_id

\* A query by label=value that opens what it matches (TS.MRANGE, TS.MGET, TS.CARD FILTER): the
\* keys are resolved under the read guard and opened after it, which reaps the expired ones on a
\* primary; an id that resolves to no series is marked stale.
Query(db, l) ==
    LET p       == index[db]
        ks      == keyspace[db]
        ids     == PostingsForLabelValue(p, l)
        opens   == {k \in Keys : Holds(db, k) /\ \E id \in ids : p.id_to_key[id] = k}
        reaped  == {k \in opens : ks[k].expired /\ ~replica}
        found   == {id \in ids : \E k \in opens : p.id_to_key[id] = k /\ ~ks[k].expired}
    IN  /\ index' = [index EXCEPT ![db] = MarkIdsAsStale(Unlink2All(p, db, reaped), ids \ found)]
        /\ keyspace' = [keyspace EXCEPT ![db] =
                            [k \in Keys |-> IF k \in reaped THEN NoSeries ELSE ks[k]]]
        /\ UNCHANGED next_id

\* The series a DUMP taken earlier may hold.
Payloads == {NewSeries(id, labels) : id \in {i \in Ids : i < next_id}, labels \in InputLabels}

Command(db) ==
    \/ \E key \in Keys, labels \in InputLabels :
          Create(db, key, labels) \/ AlterLabels(db, key, labels)
    \/ \E key \in Keys : Delete(db, key) \/ Expire(db, key) \/ ExtendExpiry(db, key)
    \/ \E src, dst \in Keys : Rename(db, src, dst)
    \/ \E to \in Dbs, key \in Keys : Move(db, to, key)
    \/ \E src, dst \in Keys, to \in Dbs : Copy(db, src, to, dst)
    \/ \E key \in Keys : \E payload \in Payloads : Restore(db, key, payload)
    \/ \E l \in Labels : Query(db, l)

DbEvent ==
    \/ \E db \in Dbs : Flush({db})
    \/ Flush(Dbs)
    \/ \E a, b \in Dbs : SwapDb(a, b)

\* A failover promotes or demotes the node; the module does nothing about it.
Failover ==
    /\ replica' = ~replica
    /\ UNCHANGED <<keyspace, index, next_id>>

Next ==
    \/ (\E db \in Dbs : Command(db)) /\ UNCHANGED replica
    \/ DbEvent /\ UNCHANGED replica
    \/ Failover

Spec == Init /\ [][Next]_ivars

-----------------------------------------------------------------------------
(* Properties *)

\* The series of a database a query must find: what its keyspace holds and has not expired.
LiveKeys(db) == {k \in Keys : Holds(db, k) /\ ~keyspace[db][k].expired}

\* Whatever sequence of commands, expiries, renames, swaps and flushes came before, a label lookup
\* returns every live series that has the label, none that lacks it, and no id that no key holds.
LookupsExact ==
    \A db \in Dbs, l \in Labels :
        LET found == PostingsForLabelValue(index[db], l)
        IN  /\ \A k \in LiveKeys(db) : keyspace[db][k].id \in found <=> l \in keyspace[db][k].labels
            /\ \A id \in found : \E k \in Keys : Holds(db, k) /\ keyspace[db][k].id = id

\* The id directory maps every live series to its own key and nothing to a key that holds another
\* series or none: TS.CARD counts it and every query resolves keys through it.
DirectoryExact ==
    \A db \in Dbs :
        /\ \A k \in LiveKeys(db) : index[db].id_to_key[keyspace[db][k].id] = k
        /\ \A id \in Ids : LET k == index[db].id_to_key[id]
                           IN  k # NoKey => Holds(db, k) /\ keyspace[db][k].id = id

\* all_postings is the directory's domain and never holds a stale id, which is why the reads that
\* use it alone skip the mask.
AllStaleFree ==
    \A db \in Dbs :
        LET p == index[db]
        IN  /\ p.all_postings = {id \in Ids : p.id_to_key[id] # NoKey}
            /\ p.all_postings \cap p.stale_ids = {}

\* No two keys of the server ever hold the same id, DUMPs and copies of live series included.
IdsUnique ==
    \A d1, d2 \in Dbs, k1, k2 \in Keys :
        Holds(d1, k1) /\ Holds(d2, k2) /\ keyspace[d1][k1].id = keyspace[d2][k2].id
        => d1 = d2 /\ k1 = k2
=============================================================================
