--------------------------- MODULE PostingsProofs ---------------------------
(***************************************************************************)
(* Lemmas about one database: what the operators of Postings return, and   *)
(* what indexing, unlinking, marking and a drain batch do to the agreement *)
(* of an index with its keyspace.                                          *)
(***************************************************************************)
EXTENDS Index, TLAPS

-----------------------------------------------------------------------------
(* The index of one database agrees with its keyspace *)

KeyspaceType == [Keys -> {NoSeries} \cup SeriesType]

\* The directory, the set of all ids and the tombstones agree.
Listed(p) ==
    /\ p.all_postings = {id \in Ids : p.id_to_key[id] # NoKey}
    /\ p.all_postings \cap p.stale_ids = {}

\* The directory resolves an id to the key that holds the id's series.
Resolves(p, ks) ==
    \A id \in Ids : p.id_to_key[id] # NoKey =>
        ks[p.id_to_key[id]] # NoSeries /\ ks[p.id_to_key[id]].id = id

\* A series that has not expired is in the directory.
Found(p, ks) ==
    \A k \in Keys : ks[k] # NoSeries /\ ~ks[k].expired => p.id_to_key[ks[k].id] = k

\* A series in the directory is posted under each of its labels.
Posted(p, ks) ==
    \A k \in Keys : ks[k] # NoSeries /\ p.id_to_key[ks[k].id] = k =>
        \A l \in ks[k].labels : ks[k].id \in p.label_index[l]

\* An id is only ever posted under labels its series has, even while it is stale and its expired
\* key is still held (which is what lets TS.ALTER and RENAME on a replica revive it).
PostedOnly(p, ks) ==
    \A k \in Keys, l \in Labels :
        ks[k] # NoSeries /\ ks[k].id \in p.label_index[l] => l \in ks[k].labels

\* No structure knows an id that has not been handed out (which is what makes a fresh id fresh).
HandedOut(p, ks, n) ==
    /\ \A k \in Keys : ks[k] # NoSeries => ks[k].id < n
    /\ \A id \in p.stale_ids : id < n
    /\ \A l \in Labels : \A id \in p.label_index[l] : id < n

\* No two keys of one database hold one id.
KeysApart(ks) ==
    \A j, k \in Keys : ks[j] # NoSeries /\ ks[k] # NoSeries /\ ks[j].id = ks[k].id => j = k

\* One database, with ids below n handed out.
DbOK(p, ks, n) ==
    /\ Listed(p)
    /\ Resolves(p, ks)
    /\ Found(p, ks)
    /\ Posted(p, ks)
    /\ PostedOnly(p, ks)
    /\ HandedOut(p, ks, n)
    /\ KeysApart(ks)

\* A posted id that is not in the directory is stale: the mask hides it.
NoDead(p) ==
    \A l \in Labels : \A id \in p.label_index[l] : p.id_to_key[id] = NoKey => id \in p.stale_ids

\* In the middle of a pass, what its end will retire is gone from the keys before the cursor.
PassOK(p, cursor) ==
    /\ p.pass # NoPass
    /\ \A id \in p.pass \cap p.stale_ids, l \in Labels : l < cursor => id \notin p.label_index[l]

-----------------------------------------------------------------------------
(* Operators of Postings *)

\* The fields of a record of postings.
LEMMA PostingsFields ==
    ASSUME NEW p \in PostingsType
    PROVE  /\ p.label_index \in [Labels -> SUBSET Ids]
           /\ p.id_to_key \in [Ids -> {NoKey} \cup Keys]
           /\ p.stale_ids \in SUBSET Ids
           /\ p.pass \in {NoPass} \cup SUBSET Ids
           /\ p.all_postings \in SUBSET Ids
BY DEF PostingsType

\* What index_timeseries writes, field by field.
LEMMA IndexTimeseriesFields ==
    ASSUME NEW p \in PostingsType, NEW ts \in SeriesType, NEW key \in Keys
    PROVE  LET q == IndexTimeseries(p, ts, key)
           IN  /\ q \in PostingsType
               /\ q.label_index = [l \in Labels |-> IF l \in ts.labels THEN p.label_index[l] \cup {ts.id}
                                                    ELSE p.label_index[l]]
               /\ q.id_to_key = [p.id_to_key EXCEPT ![ts.id] = key]
               /\ q.stale_ids = p.stale_ids \ {ts.id}
               /\ q.pass = p.pass
               /\ q.all_postings = p.all_postings \cup {ts.id}
BY Zenon DEF IndexTimeseries, Revoke, PostingsType, SeriesType

\* What remove_timeseries writes, field by field.
LEMMA RemoveTimeseriesFields ==
    ASSUME NEW p \in PostingsType, NEW ts \in SeriesType
    PROVE  LET q == RemoveTimeseries(p, ts)
           IN  /\ q \in PostingsType
               /\ q.label_index = [l \in Labels |-> IF l \in ts.labels THEN p.label_index[l] \ {ts.id}
                                                    ELSE p.label_index[l]]
               /\ q.id_to_key = [p.id_to_key EXCEPT ![ts.id] = NoKey]
               /\ q.stale_ids = p.stale_ids
               /\ q.pass = p.pass
               /\ q.all_postings = p.all_postings \ {ts.id}
BY Zenon DEF RemoveTimeseries, PostingsType

\* What mark_ids_as_stale writes, field by field.
LEMMA MarkIdsAsStaleFields ==
    ASSUME NEW p \in PostingsType, NEW ids \in SUBSET Ids
    PROVE  LET q == MarkIdsAsStale(p, ids)
           IN  /\ q \in PostingsType
               /\ q.label_index = p.label_index
               /\ q.id_to_key = [id \in Ids |-> IF id \in ids THEN NoKey ELSE p.id_to_key[id]]
               /\ q.stale_ids = p.stale_ids \cup ids
               /\ q.pass = IF p.pass = NoPass THEN NoPass ELSE p.pass \ ids
               /\ q.all_postings = p.all_postings \ ids
BY Zenon DEF MarkIdsAsStale, MarkMany, PostingsType

-----------------------------------------------------------------------------
(* What the operators preserve *)

Without(ks, key) == [ks EXCEPT ![key] = NoSeries]

\* An operator whose result posts no id anew, keeps the tombstones and takes ids out of the
\* directory only with their postings.
Shrinks(p, q) ==
    /\ \A l \in Labels : q.label_index[l] \subseteq p.label_index[l]
    /\ q.stale_ids = p.stale_ids
    /\ q.pass = p.pass
    /\ NoDead(p) => NoDead(q)
    /\ \A c \in {0} \cup Labels : PassOK(p, c) => PassOK(q, c)

\* remove_timeseries of a series under its key leaves a database without the key, and no trace of
\* the id but its tombstone.
LEMMA RemoveOK ==
    ASSUME NEW p \in PostingsType, NEW ks \in KeyspaceType, NEW n \in Nat, DbOK(p, ks, n),
           NEW key \in Keys, ks[key] # NoSeries
    PROVE  LET q == RemoveTimeseries(p, ks[key])
           IN  /\ q \in PostingsType
               /\ DbOK(q, Without(ks, key), n)
               /\ Shrinks(p, q)
               /\ q.id_to_key[ks[key].id] = NoKey
               /\ \A l \in Labels : ks[key].id \notin q.label_index[l]
<1>. DEFINE ts == ks[key]
            q == RemoveTimeseries(p, ts)
            qs == Without(ks, key)
<1>1. ts \in SeriesType /\ ts.id \in Ids /\ ts.labels \in SUBSET Labels
  BY DEF KeyspaceType, SeriesType
<1>2. /\ q \in PostingsType
      /\ q.label_index = [l \in Labels |-> IF l \in ts.labels THEN p.label_index[l] \ {ts.id}
                                           ELSE p.label_index[l]]
      /\ q.id_to_key = [p.id_to_key EXCEPT ![ts.id] = NoKey]
      /\ q.stale_ids = p.stale_ids
      /\ q.pass = p.pass
      /\ q.all_postings = p.all_postings \ {ts.id}
  BY <1>1, RemoveTimeseriesFields
<1>. HIDE DEF q
<1>3. qs \in KeyspaceType /\ qs[key] = NoSeries /\ \A k \in Keys : k # key => qs[k] = ks[k]
  BY DEF KeyspaceType, Without
<1>4. p.label_index \in [Labels -> SUBSET Ids] /\ p.id_to_key \in [Ids -> {NoKey} \cup Keys]
  BY PostingsFields
<1>5. \A l \in Labels : ts.id \notin q.label_index[l]
  BY <1>2 DEF DbOK, PostedOnly
<1>6. q.id_to_key[ts.id] = NoKey /\ \A id \in Ids : id # ts.id => q.id_to_key[id] = p.id_to_key[id]
  BY <1>1, <1>2, <1>4
<1>7. \A l \in Labels : /\ q.label_index[l] \subseteq p.label_index[l]
                        /\ \A id \in p.label_index[l] : id # ts.id => id \in q.label_index[l]
  BY <1>1, <1>2, <1>4
<1>8. ASSUME NoDead(p) PROVE NoDead(q)
  <2>. SUFFICES ASSUME NEW l \in Labels, NEW id \in q.label_index[l], q.id_to_key[id] = NoKey
                PROVE  id \in q.stale_ids
    BY DEF NoDead
  <2>1. id \in p.label_index[l] /\ id \in Ids /\ id # ts.id
    BY <1>4, <1>5, <1>7
  <2>2. p.id_to_key[id] = NoKey
    BY <1>6, <2>1
  <2>. QED
    BY <1>2, <1>8, <2>1, <2>2 DEF NoDead
<1>9. \A c \in {0} \cup Labels : PassOK(p, c) => PassOK(q, c)
  BY <1>2, <1>7 DEF PassOK
<1>10. \A k \in Keys : k # key /\ ks[k] # NoSeries => ks[k].id # ts.id /\ ks[k].id \in Ids
                                                    /\ ks[k].labels \in SUBSET Labels
  BY DEF DbOK, KeysApart, KeyspaceType, SeriesType
<1>11. DbOK(q, qs, n)
  <2>1. /\ q.all_postings = {id \in Ids : q.id_to_key[id] # NoKey}
        /\ q.all_postings \cap q.stale_ids = {}
    BY <1>2, <1>6 DEF DbOK, Listed
  <2>2. ASSUME NEW id \in Ids, q.id_to_key[id] # NoKey
        PROVE  qs[q.id_to_key[id]] # NoSeries /\ qs[q.id_to_key[id]].id = id
    BY <1>3, <1>4, <1>6, <2>2 DEF DbOK, Resolves
  <2>3. ASSUME NEW k \in Keys, qs[k] # NoSeries
        PROVE  /\ ~qs[k].expired => q.id_to_key[qs[k].id] = k
               /\ q.id_to_key[qs[k].id] = k => \A l \in qs[k].labels : qs[k].id \in q.label_index[l]
               /\ \A l \in Labels : qs[k].id \in q.label_index[l] => l \in qs[k].labels
               /\ qs[k].id < n
    BY <1>3, <1>6, <1>7, <1>10, <2>3 DEF DbOK, Listed, Found, Posted, PostedOnly, HandedOut
  <2>4. /\ \A id \in q.stale_ids : id < n
        /\ \A l \in Labels : \A id \in q.label_index[l] : id < n
    BY <1>2 DEF DbOK, HandedOut
  <2>5. \A j, k \in Keys : qs[j] # NoSeries /\ qs[k] # NoSeries /\ qs[j].id = qs[k].id => j = k
    BY <1>3 DEF DbOK, KeysApart
  <2>. QED
    BY <2>1, <2>2, <2>3, <2>4, <2>5 DEF DbOK, Listed, Resolves, Found, Posted, PostedOnly,
       HandedOut, KeysApart
<1>. QED
  BY <1>2, <1>5, <1>6, <1>7, <1>8, <1>9, <1>11 DEF Shrinks, q

\* unlink2 of a key: the database without it, and nothing else changes for the other keys.
LEMMA UnlinkOK ==
    ASSUME NEW p \in PostingsType, NEW ks \in KeyspaceType, NEW n \in Nat, DbOK(p, ks, n),
           NEW key \in Keys, ks[key] # NoSeries
    PROVE  LET q == RemoveTimeseriesForKey(p, ks[key], key)
           IN  /\ q \in PostingsType
               /\ DbOK(q, Without(ks, key), n)
               /\ Shrinks(p, q)
<1>1. CASE p.id_to_key[ks[key].id] = key
  BY <1>1, RemoveOK DEF RemoveTimeseriesForKey
<1>2. CASE p.id_to_key[ks[key].id] # key
  <2>1. RemoveTimeseriesForKey(p, ks[key], key) = p
    BY <1>2 DEF RemoveTimeseriesForKey
  <2>2. Shrinks(p, p)
    BY DEF Shrinks
  <2>. DEFINE qs == Without(ks, key)
  <2>3. qs[key] = NoSeries /\ \A k \in Keys : k # key => qs[k] = ks[k]
    BY DEF KeyspaceType, Without
  <2>. HIDE DEF qs
  <2>4. p.id_to_key \in [Ids -> {NoKey} \cup Keys]
    BY PostingsFields
  <2>5. DbOK(p, qs, n)
    BY <1>2, <2>3, <2>4 DEF DbOK, Resolves, Found, Posted, PostedOnly, HandedOut, KeysApart
  <2>. QED
    BY <2>1, <2>2, <2>5 DEF qs
<1>. QED
  BY <1>1, <1>2

\* index_timeseries of a series whose id no key, directory entry or foreign posting list holds,
\* under a free key.
LEMMA IndexOK ==
    ASSUME NEW p \in PostingsType, NEW ks \in KeyspaceType, NEW n \in Nat, DbOK(p, ks, n),
           NEW key \in Keys, ks[key] = NoSeries,
           NEW ts \in SeriesType, NEW m \in Nat, n <= m, ts.id < m,
           p.id_to_key[ts.id] = NoKey,
           \A k \in Keys : ks[k] # NoSeries => ks[k].id # ts.id,
           \A l \in Labels : ts.id \in p.label_index[l] => l \in ts.labels
    PROVE  LET q == IndexTimeseries(p, ts, key)
           IN  /\ q \in PostingsType
               /\ DbOK(q, [ks EXCEPT ![key] = ts], m)
               /\ NoDead(p) => NoDead(q)
               /\ \A c \in {0} \cup Labels : PassOK(p, c) => PassOK(q, c)
<1>. DEFINE q == IndexTimeseries(p, ts, key)
            qs == [ks EXCEPT ![key] = ts]
<1>1. ts.id \in Ids /\ ts.labels \in SUBSET Labels /\ ts # NoSeries
  BY PostingsAssumption DEF SeriesType
<1>2. /\ q \in PostingsType
      /\ q.label_index = [l \in Labels |-> IF l \in ts.labels THEN p.label_index[l] \cup {ts.id}
                                           ELSE p.label_index[l]]
      /\ q.id_to_key = [p.id_to_key EXCEPT ![ts.id] = key]
      /\ q.stale_ids = p.stale_ids \ {ts.id}
      /\ q.pass = p.pass
      /\ q.all_postings = p.all_postings \cup {ts.id}
  BY IndexTimeseriesFields
<1>3. qs \in KeyspaceType /\ qs[key] = ts /\ \A k \in Keys : k # key => qs[k] = ks[k]
  BY DEF KeyspaceType
<1>. HIDE DEF q, qs
<1>4. /\ p.label_index \in [Labels -> SUBSET Ids] /\ p.id_to_key \in [Ids -> {NoKey} \cup Keys]
      /\ p.stale_ids \in SUBSET Ids
  BY PostingsFields
<1>5. q.id_to_key[ts.id] = key /\ \A id \in Ids : id # ts.id => q.id_to_key[id] = p.id_to_key[id]
  BY <1>1, <1>2, <1>4
<1>6. \A l \in Labels : /\ ts.id \in q.label_index[l] <=> l \in ts.labels
                        /\ \A id \in Ids : id # ts.id =>
                                 (id \in q.label_index[l] <=> id \in p.label_index[l])
  BY <1>1, <1>2, <1>4
<1>7. \A l \in Labels : q.label_index[l] \in SUBSET Ids
  BY <1>2, PostingsFields
<1>8. ASSUME NoDead(p) PROVE NoDead(q)
  <2>. SUFFICES ASSUME NEW l \in Labels, NEW id \in q.label_index[l], q.id_to_key[id] = NoKey
                PROVE  id \in q.stale_ids
    BY DEF NoDead
  <2>1. id \in Ids /\ id # ts.id
    BY <1>5, <1>7, PostingsAssumption
  <2>. QED
    BY <1>2, <1>5, <1>6, <1>8, <2>1 DEF NoDead
<1>9. ASSUME NEW c \in {0} \cup Labels, PassOK(p, c) PROVE PassOK(q, c)
  BY <1>2, <1>4, <1>6, <1>9 DEF PassOK
<1>10. \A k \in Keys : ks[k] # NoSeries => ks[k].id \in Ids /\ ks[k].labels \in SUBSET Labels
  BY DEF KeyspaceType, SeriesType
<1>11. DbOK(q, qs, m)
  <2>1. q.all_postings = {id \in Ids : q.id_to_key[id] # NoKey}
    BY <1>1, <1>2, <1>5, PostingsAssumption DEF DbOK, Listed
  <2>2. q.all_postings \cap q.stale_ids = {}
    BY <1>2 DEF DbOK, Listed
  <2>3. ASSUME NEW id \in Ids, q.id_to_key[id] # NoKey
        PROVE  qs[q.id_to_key[id]] # NoSeries /\ qs[q.id_to_key[id]].id = id
    <3>1. CASE id = ts.id
      BY <1>1, <1>3, <1>5, <3>1
    <3>2. CASE id # ts.id
      <4>1. p.id_to_key[id] # NoKey /\ p.id_to_key[id] \in Keys /\ q.id_to_key[id] = p.id_to_key[id]
        BY <1>4, <1>5, <2>3, <3>2
      <4>. QED
        BY <1>3, <4>1 DEF DbOK, Resolves
    <3>. QED
      BY <3>1, <3>2
  <2>4. ASSUME NEW k \in Keys, qs[k] # NoSeries
        PROVE  /\ ~qs[k].expired => q.id_to_key[qs[k].id] = k
               /\ q.id_to_key[qs[k].id] = k => \A l \in qs[k].labels : qs[k].id \in q.label_index[l]
               /\ \A l \in Labels : qs[k].id \in q.label_index[l] => l \in qs[k].labels
               /\ qs[k].id < m
    <3>1. CASE k = key
      BY <1>1, <1>3, <1>5, <1>6, <3>1
    <3>2. CASE k # key
      <4>1. qs[k] = ks[k] /\ ks[k].id \in Ids /\ ks[k].id # ts.id /\ ks[k].labels \in SUBSET Labels
        BY <1>3, <1>10, <2>4, <3>2
      <4>2. ks[k].id < n /\ ks[k].id \in Nat /\ n \in Nat /\ m \in Nat
        BY <2>4, <4>1 DEF DbOK, HandedOut, Ids
      <4>3. ks[k].id < m
        BY <4>2
      <4>. QED
        BY <1>5, <1>6, <2>4, <4>1, <4>3 DEF DbOK, Found, Posted, PostedOnly
    <3>. QED
      BY <3>1, <3>2
  <2>5. \A id \in q.stale_ids : id < m
    BY <1>2, <1>4 DEF DbOK, HandedOut, Ids
  <2>6. ASSUME NEW l \in Labels, NEW id \in q.label_index[l] PROVE id < m
    <3>1. id \in Ids /\ (id = ts.id \/ id \in p.label_index[l])
      BY <1>6, <1>7
    <3>2. id = ts.id \/ id < n
      BY <3>1 DEF DbOK, HandedOut
    <3>. QED
      BY <3>1, <3>2 DEF Ids
  <2>7. \A j, k \in Keys : qs[j] # NoSeries /\ qs[k] # NoSeries /\ qs[j].id = qs[k].id => j = k
    BY <1>3 DEF DbOK, KeysApart
  <2>. QED
    BY <2>1, <2>2, <2>3, <2>4, <2>5, <2>6, <2>7 DEF DbOK, Listed, Resolves, Found, Posted,
       PostedOnly, HandedOut, KeysApart
<1>. QED
  BY <1>2, <1>8, <1>9, <1>11 DEF q, qs

\* unlink2 of a set of keys.
LEMMA UnlinkAllOK ==
    ASSUME NEW db \in Dbs, NEW p \in PostingsType, keyspace[db] \in KeyspaceType, NEW n \in Nat,
           DbOK(p, keyspace[db], n),
           NEW keys \in SUBSET Keys, \A k \in keys : keyspace[db][k] # NoSeries
    PROVE  LET q == Unlink2All(p, db, keys)
           IN  /\ q \in PostingsType
               /\ DbOK(q, [k \in Keys |-> IF k \in keys THEN NoSeries ELSE keyspace[db][k]], n)
               /\ Shrinks(p, q)
               /\ \A id \in Ids : q.id_to_key[id] = IF p.id_to_key[id] \in keys THEN NoKey
                                                    ELSE p.id_to_key[id]
<1>. DEFINE ks == keyspace[db]
            qs == [k \in Keys |-> IF k \in keys THEN NoSeries ELSE ks[k]]
            q == Unlink2All(p, db, keys)
            gone == {k \in keys : p.id_to_key[ks[k].id] = k}
            ids == {ks[k].id : k \in gone}
            posted(l) == {ks[k].id : k \in {g \in gone : l \in ks[g].labels}}
<1>1. /\ p.label_index \in [Labels -> SUBSET Ids] /\ p.id_to_key \in [Ids -> {NoKey} \cup Keys]
      /\ p.all_postings \in SUBSET Ids
  BY PostingsFields
<1>2. \A k \in Keys : ks[k] # NoSeries => ks[k].id \in Ids /\ ks[k].labels \in SUBSET Labels
  BY DEF KeyspaceType, SeriesType
<1>3. /\ q \in PostingsType
      /\ q.label_index = [l \in Labels |-> p.label_index[l] \ posted(l)]
      /\ q.id_to_key = [id \in Ids |-> IF id \in ids THEN NoKey ELSE p.id_to_key[id]]
      /\ q.stale_ids = p.stale_ids
      /\ q.pass = p.pass
      /\ q.all_postings = p.all_postings \ ids
  BY Zenon DEF Unlink2All, PostingsType
<1>4. ASSUME NEW id \in Ids PROVE id \in ids <=> p.id_to_key[id] \in keys
  <2>1. ASSUME p.id_to_key[id] \in keys PROVE id \in ids
    <3>1. p.id_to_key[id] # NoKey
      BY <2>1, PostingsAssumption
    <3>2. ks[p.id_to_key[id]].id = id
      BY <3>1 DEF DbOK, Resolves
    <3>. QED
      BY <2>1, <3>2
  <2>. QED
    BY <2>1
<1>5. \A id \in Ids : q.id_to_key[id] = IF p.id_to_key[id] \in keys THEN NoKey ELSE p.id_to_key[id]
  BY <1>3, <1>4
<1>6. ASSUME NEW l \in Labels, NEW id \in p.label_index[l]
      PROVE  id \in posted(l) <=> p.id_to_key[id] \in keys
  <2>1. ASSUME p.id_to_key[id] \in keys PROVE id \in posted(l)
    <3>1. id \in Ids /\ p.id_to_key[id] # NoKey
      BY <1>1, <2>1, PostingsAssumption
    <3>2. ks[p.id_to_key[id]].id = id
      BY <3>1 DEF DbOK, Resolves
    <3>3. l \in ks[p.id_to_key[id]].labels
      BY <2>1, <3>2 DEF DbOK, PostedOnly
    <3>. QED
      BY <2>1, <3>2, <3>3
  <2>. QED
    BY <2>1
<1>. HIDE DEF ids, posted, gone, q
<1>7. \A l \in Labels : q.label_index[l] = {id \in p.label_index[l] : p.id_to_key[id] \notin keys}
  BY <1>1, <1>3, <1>6
<1>8. /\ \A k \in keys : qs[k] = NoSeries
      /\ \A k \in Keys \ keys : qs[k] = ks[k]
  OBVIOUS
<1>. HIDE DEF qs
<1>9. ASSUME NoDead(p) PROVE NoDead(q)
  BY <1>1, <1>3, <1>5, <1>7, <1>9 DEF NoDead
<1>10. ASSUME NEW c \in {0} \cup Labels, PassOK(p, c) PROVE PassOK(q, c)
  BY <1>3, <1>7, <1>10 DEF PassOK
<1>11. Shrinks(p, q)
  BY <1>3, <1>7, <1>9, <1>10 DEF Shrinks
<1>12. DbOK(q, qs, n)
  <2>1. /\ q.all_postings = {id \in Ids : q.id_to_key[id] # NoKey}
        /\ q.all_postings \cap q.stale_ids = {}
    <3>1. q.all_postings = {id \in p.all_postings : p.id_to_key[id] \notin keys}
      BY <1>1, <1>3, <1>4
    <3>. QED
      BY <1>3 DEF DbOK, Listed
  <2>2. ASSUME NEW id \in Ids, q.id_to_key[id] # NoKey
        PROVE  qs[q.id_to_key[id]] # NoSeries /\ qs[q.id_to_key[id]].id = id
    <3>1. q.id_to_key[id] = p.id_to_key[id] /\ p.id_to_key[id] \in Keys \ keys
      BY <1>1, <1>5, <2>2
    <3>. QED
      BY <1>8, <2>2, <3>1 DEF DbOK, Resolves
  <2>3. ASSUME NEW k \in Keys, qs[k] # NoSeries
        PROVE  /\ ~qs[k].expired => q.id_to_key[qs[k].id] = k
               /\ q.id_to_key[qs[k].id] = k => \A l \in qs[k].labels : qs[k].id \in q.label_index[l]
               /\ \A l \in Labels : qs[k].id \in q.label_index[l] => l \in qs[k].labels
               /\ qs[k].id < n
    <3>1. k \notin keys /\ qs[k] = ks[k] /\ ks[k].id \in Ids /\ ks[k].labels \in SUBSET Labels
      BY <1>2, <1>8, <2>3
    <3>2. k # NoKey
      BY PostingsAssumption
    <3>. QED
      BY <1>5, <1>7, <2>3, <3>1, <3>2 DEF DbOK, Found, Posted, PostedOnly, HandedOut
  <2>4. /\ \A id \in q.stale_ids : id < n
        /\ \A l \in Labels : \A id \in q.label_index[l] : id < n
    BY <1>3 DEF DbOK, HandedOut
  <2>5. \A j, k \in Keys : qs[j] # NoSeries /\ qs[k] # NoSeries /\ qs[j].id = qs[k].id => j = k
    BY <1>8 DEF DbOK, KeysApart
  <2>. QED
    BY <2>1, <2>2, <2>3, <2>4, <2>5 DEF DbOK, Listed, Resolves, Found, Posted, PostedOnly,
       HandedOut, KeysApart
<1>. QED
  BY <1>3, <1>5, <1>11, <1>12 DEF q, qs

\* mark_ids_as_stale of ids whose key is gone or holds an expired series.
LEMMA MarkOK ==
    ASSUME NEW p \in PostingsType, NEW ks \in KeyspaceType, NEW n \in Nat, DbOK(p, ks, n),
           NEW ids \in SUBSET Ids, \A id \in ids : id < n,
           \A id \in ids : p.id_to_key[id] # NoKey => ks[p.id_to_key[id]].expired
    PROVE  LET q == MarkIdsAsStale(p, ids)
           IN  /\ q \in PostingsType
               /\ DbOK(q, ks, n)
               /\ NoDead(p) => NoDead(q)
               /\ \A c \in {0} \cup Labels : PassOK(p, c) => PassOK(q, c)
<1>. DEFINE q == MarkIdsAsStale(p, ids)
<1>1. /\ q \in PostingsType
      /\ q.label_index = p.label_index
      /\ q.id_to_key = [id \in Ids |-> IF id \in ids THEN NoKey ELSE p.id_to_key[id]]
      /\ q.stale_ids = p.stale_ids \cup ids
      /\ q.pass = IF p.pass = NoPass THEN NoPass ELSE p.pass \ ids
      /\ q.all_postings = p.all_postings \ ids
  BY Zenon, MarkIdsAsStaleFields
<1>. HIDE DEF q
<1>2. /\ p.label_index \in [Labels -> SUBSET Ids] /\ p.id_to_key \in [Ids -> {NoKey} \cup Keys]
      /\ p.all_postings \in SUBSET Ids /\ p.pass \in {NoPass} \cup SUBSET Ids
  BY PostingsFields
<1>3. \A id \in Ids : q.id_to_key[id] = IF id \in ids THEN NoKey ELSE p.id_to_key[id]
  BY <1>1
<1>4. ASSUME NoDead(p) PROVE NoDead(q)
  BY <1>1, <1>2, <1>3, <1>4 DEF NoDead
<1>5. ASSUME NEW c \in {0} \cup Labels, PassOK(p, c) PROVE PassOK(q, c)
  <2>1. p.pass # NoPass /\ q.pass = p.pass \ ids /\ q.pass \in SUBSET Ids
    BY <1>1, <1>2, <1>5 DEF PassOK
  <2>2. q.pass # NoPass
    BY <2>1, PostingsAssumption
  <2>. QED
    BY <1>1, <1>5, <2>1, <2>2 DEF PassOK
<1>6. \A k \in Keys : ks[k] # NoSeries => ks[k].id \in Ids /\ ks[k].labels \in SUBSET Labels
  BY DEF KeyspaceType, SeriesType
<1>7. DbOK(q, ks, n)
  <2>1. /\ q.all_postings = {id \in Ids : q.id_to_key[id] # NoKey}
        /\ q.all_postings \cap q.stale_ids = {}
    BY <1>1 DEF DbOK, Listed
  <2>2. ASSUME NEW id \in Ids, q.id_to_key[id] # NoKey
        PROVE  ks[q.id_to_key[id]] # NoSeries /\ ks[q.id_to_key[id]].id = id
    BY <1>3, <2>2 DEF DbOK, Resolves
  <2>3. ASSUME NEW k \in Keys, ks[k] # NoSeries
        PROVE  /\ ~ks[k].expired => q.id_to_key[ks[k].id] = k
               /\ q.id_to_key[ks[k].id] = k => \A l \in ks[k].labels : ks[k].id \in q.label_index[l]
               /\ \A l \in Labels : ks[k].id \in q.label_index[l] => l \in ks[k].labels
               /\ ks[k].id < n
    <3>1. ks[k].id \in Ids /\ k # NoKey
      BY <1>6, <2>3, PostingsAssumption
    <3>2. ASSUME ~ks[k].expired PROVE q.id_to_key[ks[k].id] = k
      <4>1. p.id_to_key[ks[k].id] = k
        BY <2>3, <3>2 DEF DbOK, Found
      <4>2. ks[k].id \notin ids
        BY <3>1, <3>2, <4>1
      <4>. QED
        BY <1>3, <3>1, <4>1, <4>2
    <3>. QED
      BY <1>1, <2>3, <3>1, <3>2 DEF DbOK, Posted, PostedOnly, HandedOut
  <2>4. /\ \A id \in q.stale_ids : id < n
        /\ \A l \in Labels : \A id \in q.label_index[l] : id < n
    BY <1>1 DEF DbOK, HandedOut
  <2>. QED
    BY <2>1, <2>2, <2>3, <2>4 DEF DbOK, Listed, Resolves, Found, Posted, PostedOnly, HandedOut
<1>. QED
  BY <1>1, <1>4, <1>5, <1>7 DEF q

Keeps(p, q) ==
    /\ NoDead(p) => NoDead(q)
    /\ \A c \in {0} \cup Labels : PassOK(p, c) => PassOK(q, c)

\* Handing out ids leaves a database as it was.
LEMMA DbOKLater ==
    ASSUME NEW p \in PostingsType, NEW ks \in KeyspaceType, NEW n \in Nat, DbOK(p, ks, n),
           NEW m \in Nat, n <= m
    PROVE  DbOK(p, ks, m)
<1>1. \A k \in Keys : ks[k] # NoSeries => ks[k].id \in Nat
  BY PostingsAssumption DEF KeyspaceType, SeriesType, Ids
<1>2. \A k \in Keys : ks[k] # NoSeries => ks[k].id < m
  BY <1>1 DEF DbOK, HandedOut
<1>3. p.stale_ids \subseteq Nat /\ \A l \in Labels : p.label_index[l] \subseteq Nat
  BY PostingsAssumption DEF PostingsType, Ids
<1>4. \A id \in p.stale_ids : id < m
  BY <1>3 DEF DbOK, HandedOut
<1>5. \A l \in Labels : \A id \in p.label_index[l] : id < m
  BY <1>3 DEF DbOK, HandedOut
<1>. QED
  BY <1>2, <1>4, <1>5 DEF DbOK, HandedOut

\* The key a value goes to: unlink2 of what it held, if anything, leaves a database without it.
LEMMA VacateOK ==
    ASSUME NEW db \in Dbs, NEW p \in PostingsType, keyspace[db] \in KeyspaceType, NEW n \in Nat,
           DbOK(p, keyspace[db], n), NEW key \in Keys
    PROVE  LET q == Unlink2(p, db, key)
           IN  /\ q \in PostingsType
               /\ DbOK(q, Without(keyspace[db], key), n)
               /\ Shrinks(p, q)
               /\ \A id \in Ids : q.id_to_key[id] # key
<1>. DEFINE q == Unlink2(p, db, key)
            qs == Without(keyspace[db], key)
<1>1. q \in PostingsType /\ DbOK(q, qs, n) /\ Shrinks(p, q)
  <2>1. CASE Holds(db, key)
    BY <2>1, UnlinkOK DEF Unlink2, Holds
  <2>2. CASE ~Holds(db, key)
    <3>1. qs = keyspace[db] /\ q = p
      BY <2>2 DEF Without, Unlink2, Holds, KeyspaceType
    <3>. QED
      BY <3>1 DEF Shrinks
  <2>. QED
    BY <2>1, <2>2
<1>2. qs[key] = NoSeries
  BY DEF Without, KeyspaceType
<1>3. \A id \in Ids : q.id_to_key[id] # key
  <2>. HIDE DEF q, qs
  <2>1. key # NoKey
    BY PostingsAssumption
  <2>. QED
    BY <1>1, <1>2, <2>1 DEF DbOK, Resolves
<1>. QED
  BY <1>1, <1>3

\* A value stored under a key with the id the counter hands out next, over whatever the key held:
\* TS.CREATE, MOVE, COPY and RESTORE.
LEMMA StoreFreshOK ==
    ASSUME NEW db \in Dbs, NEW p \in PostingsType, keyspace[db] \in KeyspaceType, NEW n \in Ids,
           DbOK(p, keyspace[db], n), NEW key \in Keys, NEW ts \in SeriesType, ts.id = n
    PROVE  LET q == IndexTimeseries(Unlink2(p, db, key), ts, key)
           IN  /\ q \in PostingsType
               /\ DbOK(q, [keyspace[db] EXCEPT ![key] = ts], n + 1)
               /\ Keeps(p, q)
<1>. DEFINE u == Unlink2(p, db, key)
            us == Without(keyspace[db], key)
            q == IndexTimeseries(u, ts, key)
            qs == [keyspace[db] EXCEPT ![key] = ts]
<1>1. n \in Nat
  BY PostingsAssumption DEF Ids
<1>2. u \in PostingsType /\ DbOK(u, us, n) /\ Shrinks(p, u)
  BY <1>1, VacateOK
<1>3. us \in KeyspaceType /\ us[key] = NoSeries /\ [us EXCEPT ![key] = ts] = qs
  BY DEF Without, KeyspaceType
<1>. HIDE DEF u, us
<1>4. u.id_to_key[n] = NoKey
  <2>1. u.id_to_key[n] \in {NoKey} \cup Keys
    BY <1>2, PostingsFields
  <2>2. ~(n < n)
    BY <1>1
  <2>. QED
    BY <1>2, <2>1, <2>2 DEF DbOK, Resolves, HandedOut
<1>5. \A k \in Keys : us[k] # NoSeries => us[k].id # n
  BY <1>1, <1>2 DEF DbOK, HandedOut
<1>6. \A l \in Labels : n \notin u.label_index[l]
  BY <1>1, <1>2 DEF DbOK, HandedOut
<1>7. /\ q \in PostingsType
      /\ DbOK(q, qs, n + 1)
      /\ NoDead(u) => NoDead(q)
      /\ \A c \in {0} \cup Labels : PassOK(u, c) => PassOK(q, c)
  <2>1. n + 1 \in Nat /\ n <= n + 1 /\ ts.id < n + 1
    BY <1>1
  <2>. QED
    BY <1>1, <1>2, <1>3, <1>4, <1>5, <1>6, <2>1, IndexOK
<1>. QED
  BY <1>2, <1>7 DEF Keeps, Shrinks, u
=============================================================================
