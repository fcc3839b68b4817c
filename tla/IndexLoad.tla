------------------------------ MODULE IndexLoad ------------------------------
(***************************************************************************)
(* Building the index of a database while a file is loaded, and the        *)
(* background thread that reconciles a preloaded index with the keyspace   *)
(* afterwards (index/persistence.rs, index/bulk_build.rs).                 *)
(*                                                                         *)
(* An RDB file, or the RDB preamble of an append-only file, may carry the  *)
(* persisted index.  Then the keys are not indexed one by one as they are  *)
(* loaded; a digest over what was loaded decides whether the thread sweeps *)
(* the index for ids without a key and counts whether any key was missed.  *)
(* Without it, an RDB load buffers the series for one bulk build and an    *)
(* append-only file indexes key by key.                                    *)
(***************************************************************************)
EXTENDS Index

CONSTANTS
    LoadDb,             \* the database the file is for
    WindowSize,         \* RECONCILE_BATCH_SIZE
    MaxLoaded           \* bound on the series one load reads, RESTOREs of its tail included

ASSUME LoadAssumption ==
    /\ LoadDb \in Dbs
    /\ WindowSize \in Nat \ {0}
    /\ MaxLoaded \in Nat

VARIABLES
    load,       \* the load window: its phase, kind, the keys still to come, the bulk buffer
    loaded,     \* LOADED_SERIES_STATS: how many series were read, and which (id, key) pairs
    sweep,      \* the reconciliation thread
    traffic     \* history: a command has run since the last key of the file was loaded

lvars == <<keyspace, index, next_id, replica, load, loaded, sweep, traffic>>

Pairs == Ids \X Keys
Entries == [id : Ids, key : Keys, labels : SUBSET Labels]

InFile(f) == {k \in Keys : f[k] # NoSeries}

\* The files a server of this module writes: every series under an id of its own, here 1 .. n.
Files ==
    {f \in [Keys -> {NoSeries} \cup {s \in SeriesType : s.labels \in InputLabels}] :
        {f[k].id : k \in InFile(f)} = 1 .. Cardinality(InFile(f))}

\* load_index_from_rdb: the index that was saved with the file, tombstones already subtracted.
SavedIndex(f) ==
    BulkIndex(EmptyPostings,
              {[id |-> f[k].id, key |-> k, labels |-> f[k].labels] : k \in InFile(f)})

\* A load has started and read the header of the file, with or without a persisted index.
LoadInit ==
    \E f \in Files, aof, aux \in BOOLEAN :
        /\ aux => InFile(f) # {}
        /\ keyspace = [db \in Dbs |-> [k \in Keys |-> NoSeries]]
        /\ index = [db \in Dbs |-> IF aux /\ db = LoadDb THEN SavedIndex(f) ELSE EmptyPostings]
        /\ next_id = Cardinality(InFile(f)) + 1
        /\ replica \in BOOLEAN
        /\ load = [phase |-> "loading", aof |-> aof, preloaded |-> aux, buffering |-> ~aof,
                   expired |-> FALSE, todo |-> {<<k, f[k]>> : k \in InFile(f)}, buffer |-> {}]
        /\ loaded = [count |-> 0, pairs |-> {}]
        /\ sweep = [pc |-> "idle", cursor |-> 0, window |-> {}, missing |-> {}, scan |-> {},
                    repaired |-> FALSE]
        /\ traffic = FALSE

Observe(stats, id, key) ==
    [count |-> stats.count + 1, pairs |-> stats.pairs \cup {<<id, key>>}]

-----------------------------------------------------------------------------
(* The load window *)

\* rdb_load of the next key, then its "loaded" notification.  A primary drops a key whose time to
\* live has passed after deserializing it, without a notification.
LoadKey(key, ts) ==
    LET drop == ts.expired /\ ~replica
        todo == load.todo \ {<<key, ts>>}
    IN  /\ load.phase = "loading" /\ <<key, ts>> \in load.todo
        /\ loaded' = Observe(loaded, ts.id, key)
        /\ \/ /\ drop
              /\ load' = [load EXCEPT !.todo = todo, !.expired = TRUE]
              /\ UNCHANGED <<keyspace, index, next_id>>
           \/ /\ ~drop /\ load.preloaded
              /\ keyspace' = [keyspace EXCEPT ![LoadDb][key] = ts]
              /\ load' = [load EXCEPT !.todo = todo]
              /\ UNCHANGED <<index, next_id>>
           \/ /\ ~drop /\ ~load.preloaded /\ load.buffering
              /\ keyspace' = [keyspace EXCEPT ![LoadDb][key] = ts]
              /\ LET buffer == load.buffer \cup
                                   {[id |-> ts.id, key |-> key, labels |-> ts.labels]}
                 IN  \/ /\ load' = [load EXCEPT !.todo = todo, !.buffer = buffer]
                        /\ UNCHANGED index
                     \/ /\ load' = [load EXCEPT !.todo = todo, !.buffer = {},
                                                !.buffering = FALSE]
                        /\ index' = [index EXCEPT ![LoadDb] = BulkIndex(@, buffer)]
              /\ UNCHANGED next_id
           \/ /\ ~drop /\ ~load.preloaded /\ ~load.buffering
              /\ next_id <= MaxId
              /\ keyspace' = [keyspace EXCEPT ![LoadDb][key] = [ts EXCEPT !.id = next_id]]
              /\ index' = [index EXCEPT ![LoadDb] = IndexLoadedSeries(@, ts, key, next_id)]
              /\ load' = [load EXCEPT !.todo = todo]
              /\ next_id' = next_id + 1
        /\ UNCHANGED <<sweep, traffic>>

\* RESTORE in the command tail of an append-only file: rdb_load counts the payload if the server
\* names a database for it, and the "restore" notification of a preloaded database is skipped.
RestoreWhileLoading(key, payload) ==
    /\ loaded.count < MaxLoaded
    /\ loaded' \in {loaded, Observe(loaded, payload.id, key)}
    /\ IF load.preloaded
         THEN /\ index' = [index EXCEPT ![LoadDb] = Unlink2(@, LoadDb, key)]
              /\ keyspace' = [keyspace EXCEPT ![LoadDb][key] = payload]
              /\ UNCHANGED next_id
         ELSE Restore(LoadDb, key, payload)

\* The command tail of an append-only file.
TailCommand ==
    /\ load.phase = "loading" /\ load.aof /\ load.todo = {}
    /\ traffic' = TRUE
    /\ \/ \E key \in Keys : \E payload \in Payloads : RestoreWhileLoading(key, payload)
       \/ /\ \/ \E key \in Keys, labels \in InputLabels : Create(LoadDb, key, labels)
             \/ \E key \in Keys : Delete(LoadDb, key)
             \/ \E src, dst \in Keys : Rename(LoadDb, src, dst)
          /\ UNCHANGED loaded
    /\ UNCHANGED <<load, sweep>>

\* LoadingSubevent::Ended: the bulk build, then the reconciliation thread for a preloaded index.
LoadEnded ==
    /\ load.phase = "loading" /\ load.todo = {}
    /\ load' = [load EXCEPT !.phase = "serving", !.buffering = FALSE, !.buffer = {}]
    /\ index' = [index EXCEPT ![LoadDb] = BulkIndex(@, load.buffer)]
    /\ sweep' = [sweep EXCEPT !.pc = IF load.preloaded THEN "digest" ELSE "done"]
    /\ UNCHANGED <<keyspace, next_id, loaded, traffic>>

\* LoadingSubevent::Failed: what was preloaded or buffered is dropped; the server gives up the
\* keys it had read.
LoadFailed ==
    /\ load.phase = "loading"
    /\ load' = [load EXCEPT !.phase = "failed", !.buffering = FALSE, !.buffer = {}]
    /\ index' = [index EXCEPT ![LoadDb] = IF load.preloaded THEN EmptyPostings
                                          ELSE Unlink2All(@, LoadDb,
                                                   {k \in Keys : Holds(LoadDb, k)})]
    /\ keyspace' = [keyspace EXCEPT ![LoadDb] = [k \in Keys |-> NoSeries]]
    /\ loaded' = [count |-> 0, pairs |-> {}]
    /\ UNCHANGED <<next_id, sweep, traffic>>

-----------------------------------------------------------------------------
(* The reconciliation thread *)

Directory == {x \in Pairs : index[LoadDb].id_to_key[x[1]] = x[2]}

DigestAgreesOnPairs ==
    /\ loaded.count = Cardinality(Directory)
    /\ loaded.pairs = Directory

DigestAgrees ==
    /\ ~load.expired
    /\ loaded.count = Cardinality(Directory)
    /\ loaded.pairs = Directory

\* read_indexed_stats against the loaded digest, under the read lock; keys that expired during
\* the load force the sweep.
SweepDigest ==
    /\ sweep.pc = "digest"
    /\ sweep' = [sweep EXCEPT !.pc = IF DigestAgrees THEN "done" ELSE "window"]
    /\ UNCHANGED <<keyspace, index, next_id, load, loaded, traffic>>

\* reconcile_db snapshots the next window of the directory under the read lock.
SweepWindow ==
    /\ sweep.pc = "window"
    /\ LET ahead  == {x \in Directory : x[1] >= sweep.cursor}
           window == {x \in ahead : Cardinality({y \in ahead : y[1] < x[1]}) < WindowSize}
       IN  sweep' = IF window = {} THEN [sweep EXCEPT !.pc = "verify"]
                    ELSE [sweep EXCEPT !.pc = "probe", !.window = window,
                                       !.cursor = Max({x[1] : x \in window}) + 1]
    /\ UNCHANGED <<keyspace, index, next_id, load, loaded, traffic>>

ProbeFailsByKeyOnly(id, key) == keyspace[LoadDb][key] = NoSeries

ProbeFails(id, key) ==
    LET ts == keyspace[LoadDb][key]
    IN  ts = NoSeries \/ ts.id # id \/ ts.expired

\* It opens the keys of the window with the server lock held; opening reaps an expired key on a
\* primary.
SweepProbe ==
    /\ sweep.pc = "probe"
    /\ LET missing == {x[1] : x \in {y \in sweep.window : ProbeFails(y[1], y[2])}}
           reaped  == {x[2] : x \in {y \in sweep.window :
                          Holds(LoadDb, y[2]) /\ keyspace[LoadDb][y[2]].expired /\ ~replica}}
       IN  /\ sweep' = [sweep EXCEPT !.pc = IF missing = {} THEN "window" ELSE "mark",
                                     !.missing = missing, !.window = {}]
           /\ index' = [index EXCEPT ![LoadDb] = Unlink2All(@, LoadDb, reaped)]
           /\ keyspace' = [keyspace EXCEPT ![LoadDb] =
                              [k \in Keys |-> IF k \in reaped THEN NoSeries ELSE @[k]]]
    /\ UNCHANGED <<next_id, load, loaded, traffic>>

\* It marks what it missed under the write lock, the server lock released.
SweepMark ==
    /\ sweep.pc = "mark"
    /\ index' = [index EXCEPT ![LoadDb] = MarkIdsAsStale(@, sweep.missing)]
    /\ sweep' = [sweep EXCEPT !.pc = "window", !.missing = {}]
    /\ UNCHANGED <<keyspace, next_id, load, loaded, traffic>>

\* verify_and_repair_db: as many indexed as loaded means none was missed.
SweepVerify ==
    /\ sweep.pc = "verify"
    /\ sweep' = IF Cardinality(Directory) = loaded.count THEN [sweep EXCEPT !.pc = "done"]
                ELSE [sweep EXCEPT !.pc = "repair", !.scan = Keys, !.repaired = TRUE]
    /\ UNCHANGED <<keyspace, index, next_id, load, loaded, traffic>>

\* One bucket of the keyspace scan, under the server lock.
SweepRepair(key) ==
    /\ sweep.pc = "repair" /\ key \in sweep.scan
    /\ LET ts == keyspace[LoadDb][key]
           p  == index[LoadDb]
           old == Holds(LoadDb, key) /\ ts.expired
       IN  \/ /\ ~Holds(LoadDb, key) \/ (old /\ replica)
              /\ UNCHANGED <<keyspace, index, next_id>>
           \/ /\ old /\ ~replica
              /\ Delete(LoadDb, key)
           \/ /\ Holds(LoadDb, key) /\ ~old
              /\ KeepsId(p, ts, key)
              /\ index' = [index EXCEPT ![LoadDb] = IndexSeriesKeepId(p, ts, key, ts.id)]
              /\ UNCHANGED <<keyspace, next_id>>
           \/ /\ Holds(LoadDb, key) /\ ~old
              /\ ~KeepsId(p, ts, key)
              /\ next_id <= MaxId
              /\ index' = [index EXCEPT ![LoadDb] = IndexSeriesKeepId(p, ts, key, next_id)]
              /\ keyspace' = [keyspace EXCEPT ![LoadDb][key].id = next_id]
              /\ next_id' = next_id + 1
    /\ sweep' = [sweep EXCEPT !.scan = @ \ {key}]
    /\ UNCHANGED <<load, loaded, traffic>>

SweepRepaired ==
    /\ sweep.pc = "repair" /\ sweep.scan = {}
    /\ sweep' = [sweep EXCEPT !.pc = "done"]
    /\ UNCHANGED <<keyspace, index, next_id, load, loaded, traffic>>

\* A command served while the thread runs.
ServeCommand ==
    /\ load.phase = "serving" /\ sweep.pc # "done"
    /\ traffic' = TRUE
    /\ \/ \E key \in Keys, labels \in InputLabels : Create(LoadDb, key, labels)
       \/ \E key \in Keys : Delete(LoadDb, key)
       \/ \E src, dst \in Keys : Rename(LoadDb, src, dst)
       \/ \E key \in Keys : \E payload \in Payloads : Restore(LoadDb, key, payload)
       \/ \E l \in Labels : Query(LoadDb, l)
    /\ UNCHANGED <<load, loaded, sweep>>

SweepStep ==
    \/ SweepDigest \/ SweepWindow \/ SweepProbe \/ SweepMark \/ SweepVerify \/ SweepRepaired
    \/ \E key \in Keys : SweepRepair(key)

LoadNext ==
    /\ UNCHANGED replica
    /\ \/ \E x \in load.todo : LoadKey(x[1], x[2])
       \/ TailCommand \/ LoadEnded \/ LoadFailed
       \/ SweepStep
       \/ ServeCommand

LoadSpec == LoadInit /\ [][LoadNext]_lvars

-----------------------------------------------------------------------------
(* Properties *)

Reconciled == load.phase = "serving" /\ sweep.pc = "done"

\* After a load with nothing but the file, or after a repair scan whatever ran beside it, the
\* index finds exactly the series the keyspace holds: preloaded, bulk built or key by key.
ReconciledExact ==
    Reconciled /\ (sweep.repaired \/ ~traffic) => LookupsExact /\ DirectoryExact

\* Once reconciliation is over no id of the directory names a key that holds another series or
\* none, commands during the load tail and the sweep included.
NoPhantomAfterLoad ==
    Reconciled =>
        \A x \in Directory : Holds(LoadDb, x[2]) /\ keyspace[LoadDb][x[2]].id = x[1]

=============================================================================
