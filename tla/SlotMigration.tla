---------------------------- MODULE SlotMigration ----------------------------
(***************************************************************************)
(* Atomic slot migration and the index (index/asm.rs).  While a slot is    *)
(* imported its series are queued instead of indexed; when the import      *)
(* completes a thread indexes them in batches.  When an export completes a *)
(* thread walks the id directory and marks the slot's ids stale.  Both     *)
(* threads run beside client commands, the replicated command stream of    *)
(* imports under way, and each other.                                      *)
(***************************************************************************)
EXTENDS Index, Sequences, SequencesExt

CONSTANTS
    Slots,              \* the hash slots that migrate
    SlotOf,             \* calculate_hash_slot
    Db,                 \* the database of the migrated keys
    NumForeign,         \* ids 1 .. NumForeign are minted by other nodes, the rest by this one
    ForeignSlot,        \* the slot in which the series of a foreign id lives
    CleanupBatch,       \* BATCH_SIZE of remove_non_owned_keys
    MaxMigrations       \* bound on the imports and exports that start

ASSUME SlotAssumption ==
    /\ SlotOf \in [Keys -> Slots]
    /\ Db \in Dbs
    /\ NumForeign \in 0 .. MaxId
    /\ ForeignSlot \in [1 .. NumForeign -> Slots]
    /\ CleanupBatch \in Nat \ {0}
    /\ MaxMigrations \in Nat

VARIABLES
    owned,              \* the slots this node serves
    importing,          \* IMPORTING_SLOTS
    delayed,            \* DELAYED_KEYS_MAP of the database
    drains,             \* the delayed-indexing threads: their slot and the keys they took
    cleanups,           \* the post-export cleanup threads: their slot, cursor and batch
    migrations,         \* how many imports and exports have started
    overlap             \* history: a slot came back while a cleanup for it was still running

svars == <<keyspace, index, next_id, replica, owned, importing, delayed, drains, cleanups, migrations,
           overlap>>

ForeignIds(slot) == {id \in 1 .. NumForeign : ForeignSlot[id] = slot}

SlotInit ==
    /\ keyspace = [db \in Dbs |-> [k \in Keys |-> NoSeries]]
    /\ index = [db \in Dbs |-> EmptyPostings]
    /\ next_id = NumForeign + 1
    /\ replica = FALSE
    /\ owned \in SUBSET Slots
    /\ importing = {}
    /\ delayed = <<>>
    /\ drains = {}
    /\ cleanups = {}
    /\ migrations = 0
    /\ overlap = FALSE

KeysIn(slot) == {k \in Keys : SlotOf[k] = slot}

threads == <<delayed, drains, cleanups>>

\* The bound on ids leaves one for every key an indexing thread has yet to reach.
IdsLeft == next_id + Len(delayed) + MapThenSumSet(LAMBDA d : Len(d.keys), drains) <= MaxId

-----------------------------------------------------------------------------
(* Migration events.  What the server does by itself is external.          *)

\* ImportStarted: the server starts with no key in the slot.
ImportStarted(slot) ==
    /\ migrations < MaxMigrations
    /\ slot \notin owned \cup importing
    /\ \A k \in KeysIn(slot) : ~Holds(Db, k)
    /\ importing' = importing \cup {slot}
    /\ migrations' = migrations + 1
    /\ overlap' = (overlap \/ \E c \in cleanups : c.slot = slot)
    /\ UNCHANGED <<keyspace, index, next_id, owned, threads>>

\* TS._RESTORE of a series of the slot, under the id its node gave it; indexing waits.
ImportKey(key, labels) ==
    /\ IdsLeft
    /\ SlotOf[key] \in importing
    /\ \E id \in ForeignIds(SlotOf[key]) :
          /\ \A k \in Keys : Holds(Db, k) => keyspace[Db][k].id # id
          /\ keyspace' = [keyspace EXCEPT ![Db][key] = NewSeries(id, labels)]
    /\ index' = [index EXCEPT ![Db] = Unlink2(@, Db, key)]
    /\ delayed' = Append(delayed, key)
    /\ UNCHANGED <<next_id, owned, importing, drains, cleanups, migrations, overlap>>

ImportCompletedUnlessRunning(slot) ==
    /\ slot \in importing
    /\ importing' = importing \ {slot}
    /\ owned' = owned \cup {slot}
    /\ drains' = IF drains # {} THEN drains
                 ELSE {[slot |-> slot, taken |-> FALSE, keys |-> <<>>]}
    /\ UNCHANGED <<keyspace, index, next_id, delayed, cleanups, migrations, overlap>>

\* ImportCompleted: the slot is served from now on and a thread is spawned for its keys.
ImportCompleted(slot) ==
    /\ slot \in importing
    /\ importing' = importing \ {slot}
    /\ owned' = owned \cup {slot}
    /\ drains' = drains \cup {[slot |-> slot, taken |-> FALSE, keys |-> <<>>]}
    /\ UNCHANGED <<keyspace, index, next_id, delayed, cleanups, migrations, overlap>>

ImportAbortedDroppingAll(slot) ==
    /\ slot \in importing
    /\ importing' = importing \ {slot}
    /\ delayed' = <<>>
    /\ UNCHANGED <<keyspace, index, next_id, owned, drains, cleanups, migrations, overlap>>

\* ImportAborted: the queued keys are forgotten; the server removes the series.
ImportAborted(slot) ==
    /\ slot \in importing
    /\ importing' = importing \ {slot}
    /\ delayed' = SelectSeq(delayed, LAMBDA k : SlotOf[k] # slot)
    /\ UNCHANGED <<keyspace, index, next_id, owned, drains, cleanups, migrations, overlap>>

\* ExportCompleted: the slot is another node's and a cleanup thread is spawned.
ExportCompleted(slot) ==
    /\ migrations < MaxMigrations
    /\ slot \in owned
    /\ owned' = owned \ {slot}
    /\ cleanups' = cleanups \cup {[slot |-> slot, cursor |-> 0, more |-> TRUE,
                                   deleted |-> FALSE, batch |-> {}]}
    /\ migrations' = migrations + 1
    /\ UNCHANGED <<keyspace, index, next_id, importing, delayed, drains, overlap>>

\* The server deletes the keys of a slot it neither serves nor imports.
DropUnowned(key) ==
    /\ SlotOf[key] \notin owned \cup importing
    /\ Delete(Db, key)
    /\ UNCHANGED <<owned, importing, threads, migrations, overlap>>

\* FLUSHDB, FLUSHALL: the queue goes with the index; what a thread took it keeps.
SlotFlush ==
    /\ Flush({Db})
    /\ delayed' = <<>>
    /\ UNCHANGED <<owned, importing, drains, cleanups, migrations, overlap>>

\* A client command on a served slot, or a command of the stream an import replays.
SlotCommand ==
    /\ \/ \E key \in Keys, labels \in InputLabels :
             /\ SlotOf[key] \in owned \cup importing
             /\ (IdsLeft /\ Create(Db, key, labels)) \/ AlterLabels(Db, key, labels)
       \/ \E key \in Keys : SlotOf[key] \in owned \cup importing /\ Delete(Db, key)
       \/ \E src, dst \in Keys :
             /\ SlotOf[src] = SlotOf[dst] /\ SlotOf[src] \in owned \cup importing
             /\ Rename(Db, src, dst)
       \/ \E l \in Labels : Query(Db, l)
    /\ UNCHANGED <<owned, importing, threads, migrations, overlap>>

-----------------------------------------------------------------------------
(* The delayed-indexing threads *)

TakeDelayedKeysInSlots(slot) == SelectSeq(delayed, LAMBDA k : SlotOf[k] = slot)

\* take_delayed_keys_in_slots: this import's keys leave the queue, any other's stay.
DrainTake(d) ==
    /\ d \in drains /\ ~d.taken
    /\ LET keys == TakeDelayedKeysInSlots(d.slot)
       IN  /\ delayed' = SelectSeq(delayed, LAMBDA k : SlotOf[k] # d.slot)
           /\ drains' = (drains \ {d}) \cup {[d EXCEPT !.taken = TRUE, !.keys = keys]}
    /\ UNCHANGED <<keyspace, index, next_id, owned, importing, cleanups, migrations, overlap>>

\* index_timeseries_in_batch for the next key, with the server lock held: a key without a series
\* is dropped, any other is indexed under a fresh id.
IndexTimeseriesInBatch(d) ==
    /\ d \in drains /\ d.taken /\ d.keys # <<>>
    /\ LET key == Head(d.keys)
           ts  == keyspace[Db][key]
       IN  \/ /\ ~Holds(Db, key)
              /\ UNCHANGED <<keyspace, index, next_id>>
           \/ /\ Holds(Db, key)
              /\ index' = [index EXCEPT ![Db] = IndexLoadedSeries(@, ts, key, next_id)]
              /\ keyspace' = [keyspace EXCEPT ![Db][key].id = next_id]
              /\ next_id' = next_id + 1
    /\ drains' = (drains \ {d}) \cup {[d EXCEPT !.keys = Tail(@)]}
    /\ UNCHANGED <<owned, importing, delayed, cleanups, migrations, overlap>>

DrainEnd(d) ==
    /\ d \in drains /\ d.taken /\ d.keys = <<>>
    /\ drains' = drains \ {d}
    /\ UNCHANGED <<keyspace, index, next_id, owned, importing, delayed, cleanups, migrations,
                   overlap>>

-----------------------------------------------------------------------------
(* The cleanup threads *)

\* remove_non_owned_keys: the next entries of the directory under the read lock; those of the
\* exported slot are collected.
CleanupScan(c) ==
    /\ c \in cleanups /\ c.batch = {} /\ c.more
    /\ LET dir     == index[Db].id_to_key
           ahead   == {id \in Ids : id >= c.cursor /\ dir[id] # NoKey}
           window  == {id \in ahead : Cardinality({i \in ahead : i < id}) < CleanupBatch}
           matched == {id \in window : SlotOf[dir[id]] = c.slot}
           next    == IF window = {} THEN c.cursor ELSE Max(window) + 1
       IN  cleanups' = (cleanups \ {c}) \cup
                           {[c EXCEPT !.cursor = next, !.more = window # {}, !.batch = matched,
                                      !.deleted = @ \/ matched # {}]}
    /\ UNCHANGED <<keyspace, index, next_id, owned, importing, delayed, drains, migrations,
                   overlap>>

\* flush: the batch is marked stale under the write lock.
CleanupFlush(c) ==
    /\ c \in cleanups /\ c.batch # {}
    /\ index' = [index EXCEPT ![Db] = MarkIdsAsStale(@, c.batch)]
    /\ cleanups' = (cleanups \ {c}) \cup {[c EXCEPT !.batch = {}]}
    /\ UNCHANGED <<keyspace, next_id, owned, importing, delayed, drains, migrations, overlap>>

\* Past the last entry: if any id was marked, remove_all_stale_series_internal drains the
\* database (batch by batch, which IndexDrain models).
CleanupEnd(c) ==
    /\ c \in cleanups /\ c.batch = {} /\ ~c.more
    /\ cleanups' = cleanups \ {c}
    /\ index' = IF c.deleted
                  THEN [index EXCEPT ![Db] = RemoveStaleIds(@, 0, NumLabels).postings]
                  ELSE index
    /\ UNCHANGED <<keyspace, next_id, owned, importing, delayed, drains, migrations,
                   overlap>>

DrainStep == \E d \in drains : DrainTake(d) \/ IndexTimeseriesInBatch(d) \/ DrainEnd(d)

CleanupStep == \E c \in cleanups : CleanupScan(c) \/ CleanupFlush(c) \/ CleanupEnd(c)

SlotNext ==
    /\ UNCHANGED replica
    /\ \/ \E slot \in Slots : \/ ImportStarted(slot) \/ ImportCompleted(slot)
                              \/ ImportAborted(slot) \/ ExportCompleted(slot)
       \/ \E key \in Keys, labels \in InputLabels : ImportKey(key, labels)
       \/ \E key \in Keys : DropUnowned(key)
       \/ SlotCommand
       \/ SlotFlush
       \/ DrainStep
       \/ CleanupStep

SlotSpec == SlotInit /\ [][SlotNext]_svars

\* A spawned thread runs to its end.
FairSlotSpec ==
    SlotSpec /\ WF_svars(DrainStep /\ UNCHANGED replica) /\ WF_svars(CleanupStep /\ UNCHANGED replica)

-----------------------------------------------------------------------------
(* Properties *)

Queued(key) == key \in ToSet(delayed) \/ \E d \in drains : key \in ToSet(d.keys)

Found(key) ==
    LET ts == keyspace[Db][key]
        p  == index[Db]
    IN  /\ p.id_to_key[ts.id] = key
        /\ \A l \in Labels : ts.id \in PostingsForLabelValue(p, l) <=> l \in ts.labels

\* A series of a served slot is found by its labels or still waits for an indexing thread: no
\* order of completions, aborts, renames and concurrent drains strands it.
NothingStranded ==
    ~overlap => \A key \in Keys : Holds(Db, key) /\ SlotOf[key] \in owned => Found(key) \/ Queued(key)

\* No lookup returns an id that no key holds, whatever was exported, dropped or aborted.
NoDeadIds ==
    \A l \in Labels : \A id \in PostingsForLabelValue(index[Db], l) :
        \E k \in Keys : Holds(Db, k) /\ keyspace[Db][k].id = id

\* A series whose import completed is found sooner or later, unless it or the slot goes again:
\* every completion drains its own keys, however many drains are in flight.
ImportedSeriesFound ==
    \A key \in Keys :
        Holds(Db, key) /\ SlotOf[key] \in owned ~>
            ~Holds(Db, key) \/ SlotOf[key] \notin owned \/ Found(key) \/ overlap
=============================================================================
