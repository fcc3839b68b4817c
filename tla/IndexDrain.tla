----------------------------- MODULE IndexDrain -----------------------------
(***************************************************************************)
(* The background drain of stale ids (series/tasks/stale_ids.rs) running   *)
(* beside the commands of Index.  The cron starts at most one drain thread *)
(* at a time; it walks one database's label index in batches and releases  *)
(* the postings lock between them, so every command may run in between.    *)
(***************************************************************************)
EXTENDS Index

CONSTANT BatchSize      \* STALE_ID_BATCH_SIZE

ASSUME BatchAssumption == BatchSize \in Nat \ {0}

VARIABLES
    drain,              \* the thread: is it running, its database and its cursor
    context_db,         \* the database the next drain takes
    torn                \* history: a flush or a swap replaced an index in the middle of its pass

dvars == <<keyspace, index, next_id, replica, drain, context_db, torn>>

DrainTypeOK ==
    /\ TypeOK
    /\ drain \in [active : BOOLEAN, db : Dbs, cursor : {0} \cup Labels]
    /\ context_db \in Dbs
    /\ torn \in BOOLEAN

FirstDb == CHOOSE db \in Dbs : \A d \in Dbs : db <= d

DrainInit ==
    /\ Init
    /\ drain = [active |-> FALSE, db |-> FirstDb, cursor |-> 0]
    /\ context_db = FirstDb
    /\ torn = FALSE

\* find_next_db, wrapping to the first database after the last.
NextDb(db) ==
    LET later == {d \in Dbs : d > db}
    IN  IF later = {} THEN FirstDb ELSE CHOOSE d \in later : \A e \in later : d <= e

\* remove_stale_series_ids_incremental: the cron takes the run lock and spawns the thread.
DrainStart ==
    /\ ~drain.active
    /\ drain' = [active |-> TRUE, db |-> context_db, cursor |-> 0]
    /\ UNCHANGED <<ivars, context_db, torn>>

\* One turn of process_db_until_done under the postings write lock.  The last one hands the next
\* run to the following database.
DrainBatch ==
    /\ drain.active
    /\ LET r == RemoveStaleIds(index[drain.db], drain.cursor, BatchSize)
       IN  /\ index' = [index EXCEPT ![drain.db] = r.postings]
           /\ drain' = [drain EXCEPT !.active = r.next # 0, !.cursor = r.next]
           /\ context_db' = IF r.next = 0 THEN NextDb(drain.db) ELSE context_db
    /\ UNCHANGED <<keyspace, next_id, replica, torn>>

MidPass(db) == drain.active /\ drain.cursor # 0 /\ drain.db = db

DrainCommand ==
    /\ \E db \in Dbs : Command(db)
    /\ UNCHANGED <<replica, drain, context_db, torn>>

DrainDbEvent ==
    /\ \/ \E db \in Dbs : Flush({db}) /\ torn' = (torn \/ MidPass(db))
       \/ Flush(Dbs) /\ torn' = (torn \/ \E db \in Dbs : MidPass(db))
       \/ \E a, b \in Dbs : SwapDb(a, b) /\ torn' = (torn \/ MidPass(a) \/ MidPass(b))
    /\ UNCHANGED <<replica, drain, context_db>>

DrainFailover == Failover /\ UNCHANGED <<drain, context_db, torn>>

DrainNext == DrainStart \/ DrainBatch \/ DrainCommand \/ DrainDbEvent \/ DrainFailover

DrainSpec == DrainInit /\ [][DrainNext]_dvars

\* The cron keeps firing and a thread that has started keeps running.
FairDrainSpec == DrainSpec /\ WF_dvars(DrainStart) /\ WF_dvars(DrainBatch)

-----------------------------------------------------------------------------
(* Properties *)

\* Draining in batches never brings a dead id back into a lookup and never strips a live one,
\* however commands interleave with the batches, unless the index was replaced mid-pass.
DrainKeepsLookups == ~torn => LookupsExact

\* Every stale id leaves all posting lists of its database, or is alive again, sooner or later,
\* however commands add and remove label keys and tombstones between the batches.  (Its tombstone
\* may stay longer: a pass whose last key vanishes before the final batch is not finished.)
StaleIdsLeavePostings ==
    \A db \in Dbs, id \in Ids :
        id \in index[db].stale_ids ~>
            \/ id \notin index[db].stale_ids
            \/ \A l \in Labels : id \notin index[db].label_index[l]
=============================================================================
