---------------------------- MODULE IndexCommands ----------------------------
(***************************************************************************)
(* The inductive invariant of Index with the drain of IndexDrain, and that *)
(* every command of Index preserves it.                                    *)
(***************************************************************************)
EXTENDS IndexDrain, PostingsProofs

-----------------------------------------------------------------------------
(* The inductive invariant *)

IInv ==
    /\ DrainTypeOK
    /\ \A db \in Dbs : DbOK(index[db], keyspace[db], next_id)
    /\ IdsUnique
    /\ ~torn => \A db \in Dbs : /\ NoDead(index[db])
                                /\ MidPass(db) => PassOK(index[db], drain.cursor)

-----------------------------------------------------------------------------
(* Commands *)

\* A step on the databases keeps the invariant when it keeps each of them in order and the only
\* new id, if any, is the counter's, in one database.
LEMMA StepOK ==
    ASSUME IInv, UNCHANGED <<drain, context_db, torn>>, replica' \in BOOLEAN,
           next_id' \in 1 .. MaxId + 1,
           keyspace' \in [Dbs -> KeyspaceType], index' \in [Dbs -> PostingsType],
           \A d \in Dbs : DbOK(index'[d], keyspace'[d], next_id') /\ Keeps(index[d], index'[d]),
           NEW t \in Dbs,
           \A d \in Dbs, k \in Keys : keyspace'[d][k] # NoSeries =>
              \/ \E j \in Keys : keyspace[d][j] # NoSeries /\ keyspace[d][j].id = keyspace'[d][k].id
              \/ d = t /\ keyspace'[d][k].id = next_id
    PROVE  IInv'
<1>1. DrainTypeOK'
  BY DEF IInv, DrainTypeOK, TypeOK, KeyspaceType
<1>2. IdsUnique'
  <2>. SUFFICES ASSUME NEW d1 \in Dbs, NEW d2 \in Dbs, NEW k1 \in Keys, NEW k2 \in Keys,
                       keyspace'[d1][k1] # NoSeries, keyspace'[d2][k2] # NoSeries,
                       keyspace'[d1][k1].id = keyspace'[d2][k2].id
                PROVE  d1 = d2 /\ k1 = k2
    BY DEF IdsUnique, Holds
  <2>1. ASSUME d1 = d2 PROVE k1 = k2
    <3>1. DbOK(index'[d1], keyspace'[d1], next_id')
      OBVIOUS
    <3>. QED
      BY <2>1 DEF DbOK, KeysApart
  <2>2. next_id \in Nat
    BY PostingsAssumption DEF IInv, DrainTypeOK, TypeOK
  <2>3. ASSUME NEW d \in Dbs, NEW j \in Keys, keyspace[d][j] # NoSeries
        PROVE  keyspace[d][j].id # next_id
    <3>1. DbOK(index[d], keyspace[d], next_id)
      BY DEF IInv
    <3>2. keyspace[d][j].id < next_id
      BY <2>3, <3>1 DEF DbOK, HandedOut
    <3>. QED
      BY <2>2, <3>2
  <2>4. d1 = d2
    <3>1. CASE /\ \E j \in Keys : keyspace[d1][j] # NoSeries /\ keyspace[d1][j].id = keyspace'[d1][k1].id
               /\ \E j \in Keys : keyspace[d2][j] # NoSeries /\ keyspace[d2][j].id = keyspace'[d2][k2].id
      BY <3>1 DEF IInv, IdsUnique, Holds
    <3>. QED
      BY <2>3, <3>1
  <2>. QED
    BY <2>1, <2>4
<1>3. ASSUME ~torn', NEW d \in Dbs
      PROVE  NoDead(index'[d]) /\ (MidPass(d)' => PassOK(index'[d], drain'.cursor))
  <2>1. drain.cursor \in {0} \cup Labels
    BY DEF IInv, DrainTypeOK
  <2>2. NoDead(index[d]) /\ (MidPass(d) => PassOK(index[d], drain.cursor))
    BY <1>3 DEF IInv
  <2>3. Keeps(index[d], index'[d]) /\ (MidPass(d)' <=> MidPass(d)) /\ drain'.cursor = drain.cursor
    BY DEF MidPass
  <2>. QED
    BY Zenon, <2>1, <2>2, <2>3 DEF Keeps
<1>. QED
  BY <1>1, <1>2, <1>3 DEF IInv

\* What the invariant says of one database.
LEMMA DbFacts ==
    ASSUME IInv, NEW db \in Dbs
    PROVE  /\ index[db] \in PostingsType
           /\ keyspace[db] \in KeyspaceType
           /\ DbOK(index[db], keyspace[db], next_id)
           /\ next_id \in 1 .. MaxId + 1 /\ next_id \in Nat
           /\ replica \in BOOLEAN
           /\ next_id <= MaxId => next_id \in Ids /\ next_id + 1 \in 1 .. MaxId + 1
           /\ \A key \in Keys : keyspace[db][key] # NoSeries => keyspace[db][key] \in SeriesType
<1>1. TypeOK
  BY DEF IInv, DrainTypeOK
<1>2. next_id \in 1 .. MaxId + 1 /\ MaxId \in Nat
  BY <1>1, PostingsAssumption DEF TypeOK
<1>3. /\ next_id \in Nat
      /\ next_id <= MaxId => next_id \in Ids /\ next_id + 1 \in 1 .. MaxId + 1
  BY <1>2 DEF Ids
<1>4. DbOK(index[db], keyspace[db], next_id)
  BY DEF IInv
<1>5. /\ index[db] \in PostingsType /\ keyspace[db] \in KeyspaceType /\ replica \in BOOLEAN
      /\ \A key \in Keys : keyspace[db][key] # NoSeries => keyspace[db][key] \in SeriesType
  BY <1>1 DEF TypeOK, KeyspaceType
<1>. QED
  BY <1>2, <1>3, <1>4, <1>5

\* A step on one database.
LEMMA LocalStepOK ==
    ASSUME IInv, UNCHANGED <<replica, drain, context_db, torn>>, NEW db \in Dbs,
           next_id' \in 1 .. MaxId + 1, next_id <= next_id',
           NEW q \in PostingsType, NEW qs \in KeyspaceType,
           index' = [index EXCEPT ![db] = q], keyspace' = [keyspace EXCEPT ![db] = qs],
           DbOK(q, qs, next_id'), Keeps(index[db], q),
           \A k \in Keys : qs[k] # NoSeries =>
              \/ \E j \in Keys : keyspace[db][j] # NoSeries /\ keyspace[db][j].id = qs[k].id
              \/ qs[k].id = next_id
    PROVE  IInv'
<1>1. keyspace \in [Dbs -> KeyspaceType] /\ index \in [Dbs -> PostingsType] /\ replica \in BOOLEAN
  BY DEF IInv, DrainTypeOK, TypeOK, KeyspaceType
<1>2. keyspace' \in [Dbs -> KeyspaceType] /\ index' \in [Dbs -> PostingsType]
  BY <1>1
<1>3. index'[db] = q /\ keyspace'[db] = qs
  BY <1>1
<1>4. \A d \in Dbs : d # db => index'[d] = index[d] /\ keyspace'[d] = keyspace[d]
  BY <1>1
<1>5. ASSUME NEW d \in Dbs
      PROVE  DbOK(index'[d], keyspace'[d], next_id') /\ Keeps(index[d], index'[d])
  <2>1. next_id \in Nat /\ next_id' \in Nat
    BY DbFacts
  <2>2. CASE d # db
    <3>1. DbOK(index[d], keyspace[d], next_id')
      BY <1>1, <2>1, DbFacts, DbOKLater
    <3>. QED
      BY <1>4, <2>2, <3>1 DEF Keeps
  <2>. QED
    BY <1>3, <2>2
<1>6. ASSUME NEW d \in Dbs, NEW k \in Keys, keyspace'[d][k] # NoSeries
      PROVE  \/ \E j \in Keys : keyspace[d][j] # NoSeries /\ keyspace[d][j].id = keyspace'[d][k].id
             \/ d = db /\ keyspace'[d][k].id = next_id
  BY <1>3, <1>4, <1>6
<1>. QED
  BY <1>1, <1>2, <1>5, <1>6, StepOK

LEMMA CreateOK ==
    ASSUME IInv, UNCHANGED <<replica, drain, context_db, torn>>,
           NEW db \in Dbs, NEW key \in Keys, NEW labels \in InputLabels, Create(db, key, labels)
    PROVE  IInv'
<1>. DEFINE ts == NewSeries(next_id, labels)
            q == IndexTimeseries(Unlink2(index[db], db, key), ts, key)
            qs == [keyspace[db] EXCEPT ![key] = ts]
<1>1. next_id <= MaxId /\ next_id' = next_id + 1 /\ index' = [index EXCEPT ![db] = q]
  BY DEF Create
<1>2. keyspace' = [keyspace EXCEPT ![db] = qs]
  BY DEF Create
<1>3. ts \in SeriesType /\ ts.id = next_id
  BY <1>1, DbFacts, IndexAssumption DEF NewSeries, SeriesType
<1>. HIDE DEF ts
<1>4. q \in PostingsType /\ DbOK(q, qs, next_id + 1) /\ Keeps(index[db], q)
  BY <1>1, <1>3, DbFacts, StoreFreshOK
<1>5. qs \in KeyspaceType
  BY <1>3, DbFacts DEF KeyspaceType
<1>6. \A k \in Keys : k # key => qs[k] = keyspace[db][k]
  BY DbFacts DEF KeyspaceType
<1>7. qs[key] = ts
  BY DbFacts DEF KeyspaceType
<1>. HIDE DEF q, qs
<1>8. \A k \in Keys : qs[k] # NoSeries =>
         \/ \E j \in Keys : keyspace[db][j] # NoSeries /\ keyspace[db][j].id = qs[k].id
         \/ qs[k].id = next_id
  BY <1>3, <1>6, <1>7
<1>9. next_id' \in 1 .. MaxId + 1 /\ next_id <= next_id'
  BY <1>1, DbFacts
<1>. QED
  BY Zenon, <1>1, <1>2, <1>4, <1>5, <1>8, <1>9, LocalStepOK

LEMMA AlterLabelsOK ==
    ASSUME IInv, UNCHANGED <<replica, drain, context_db, torn>>,
           NEW db \in Dbs, NEW key \in Keys, NEW labels \in InputLabels,
           AlterLabels(db, key, labels)
    PROVE  IInv'
<1>. DEFINE p == index[db]
            ks == keyspace[db]
            ts == ks[key]
            new == [ts EXCEPT !.labels = labels]
            u == RemoveTimeseries(p, ts)
            us == Without(ks, key)
            q == IndexTimeseries(u, new, key)
            qs == [us EXCEPT ![key] = new]
<1>1. p \in PostingsType /\ ks \in KeyspaceType /\ DbOK(p, ks, next_id) /\ next_id \in Nat
  BY DbFacts
<1>2. ts # NoSeries /\ ts \in SeriesType
  BY DbFacts DEF AlterLabels, Finds, Holds
<1>3. /\ index' = [index EXCEPT ![db] = q]
      /\ keyspace' = [keyspace EXCEPT ![db] = [ks EXCEPT ![key] = new]]
      /\ next_id' = next_id
  BY DEF AlterLabels
<1>4. new \in SeriesType /\ new.id = ts.id /\ ts.id \in Ids
  BY <1>2, IndexAssumption DEF SeriesType
<1>5. us \in KeyspaceType /\ us[key] = NoSeries /\ \A k \in Keys : k # key => us[k] = ks[k]
  BY <1>1 DEF Without, KeyspaceType
<1>6. qs = [ks EXCEPT ![key] = new]
  BY <1>1 DEF Without, KeyspaceType
<1>7. /\ u \in PostingsType /\ DbOK(u, us, next_id) /\ Shrinks(p, u)
      /\ u.id_to_key[ts.id] = NoKey
      /\ \A l \in Labels : ts.id \notin u.label_index[l]
  BY <1>1, <1>2, RemoveOK
<1>8. qs \in KeyspaceType /\ qs[key] = new /\ \A k \in Keys : k # key => qs[k] = ks[k]
  BY <1>4, <1>5 DEF KeyspaceType
<1>. HIDE DEF u, us, qs, new
<1>9. \A k \in Keys : us[k] # NoSeries => us[k].id # new.id
  BY <1>1, <1>2, <1>4, <1>5 DEF DbOK, Listed, KeysApart
<1>10. new.id < next_id
  BY <1>1, <1>2, <1>4 DEF DbOK, Listed, HandedOut
<1>11. /\ q \in PostingsType /\ DbOK(q, qs, next_id)
       /\ NoDead(u) => NoDead(q)
       /\ \A c \in {0} \cup Labels : PassOK(u, c) => PassOK(q, c)
  <2>1. next_id <= next_id
    BY <1>1
  <2>2. u.id_to_key[new.id] = NoKey /\ \A l \in Labels : new.id \in u.label_index[l] => l \in new.labels
    BY <1>4, <1>7
  <2>. QED
    BY <1>1, <1>4, <1>5, <1>7, <1>9, <1>10, IndexOK DEF qs
<1>12. Keeps(p, q)
  BY <1>7, <1>11 DEF Keeps, Shrinks
<1>13. \A k \in Keys : qs[k] # NoSeries => \E j \in Keys : ks[j] # NoSeries /\ ks[j].id = qs[k].id
  BY <1>2, <1>4, <1>8
<1>14. next_id' \in 1 .. MaxId + 1 /\ next_id <= next_id'
  BY <1>3, DbFacts
<1>. HIDE DEF q
<1>. QED
  BY Zenon, <1>3, <1>6, <1>8, <1>11, <1>12, <1>13, <1>14, LocalStepOK

LEMMA DeleteOK ==
    ASSUME IInv, UNCHANGED <<replica, drain, context_db, torn>>,
           NEW db \in Dbs, NEW key \in Keys, Delete(db, key)
    PROVE  IInv'
<1>. DEFINE q == Unlink2(index[db], db, key)
            qs == Without(keyspace[db], key)
<1>1. /\ index' = [index EXCEPT ![db] = q]
      /\ keyspace' = [keyspace EXCEPT ![db] = qs]
      /\ next_id' = next_id
  BY DEF Delete, Without
<1>2. q \in PostingsType /\ DbOK(q, qs, next_id) /\ Keeps(index[db], q)
  BY DbFacts, VacateOK DEF Shrinks, Keeps
<1>3. /\ qs \in KeyspaceType
      /\ \A k \in Keys : qs[k] # NoSeries => keyspace[db][k] # NoSeries /\ keyspace[db][k].id = qs[k].id
  BY DbFacts DEF KeyspaceType, Without
<1>4. next_id' \in 1 .. MaxId + 1 /\ next_id <= next_id'
  BY <1>1, DbFacts
<1>. HIDE DEF q, qs
<1>. QED
  BY Zenon, <1>1, <1>2, <1>3, <1>4, LocalStepOK

\* The clock, or a command from the primary, changes whether a key has expired.
LEMMA ExpiryOK ==
    ASSUME IInv, UNCHANGED <<replica, drain, context_db, torn>>,
           NEW db \in Dbs, NEW key \in Keys, Expire(db, key) \/ ExtendExpiry(db, key)
    PROVE  IInv'
<1>. DEFINE p == index[db]
            ks == keyspace[db]
<1>2. index' = index /\ next_id' = next_id /\ ks[key] # NoSeries
  BY DEF Expire, ExtendExpiry, Holds
<1>3. /\ p \in PostingsType /\ ks \in KeyspaceType /\ DbOK(p, ks, next_id) /\ next_id \in Nat
      /\ ks[key] \in SeriesType /\ next_id' \in 1 .. MaxId + 1 /\ next_id <= next_id'
  BY <1>2, DbFacts
<1>4. PICK new \in SeriesType :
         /\ new.id = ks[key].id /\ new.labels = ks[key].labels
         /\ new.expired \/ p.id_to_key[ks[key].id] = key
         /\ keyspace' = [keyspace EXCEPT ![db] = [ks EXCEPT ![key] = new]]
  <2>1. CASE Expire(db, key)
    <3>. DEFINE new == [ks[key] EXCEPT !.expired = TRUE]
    <3>1. /\ new \in SeriesType /\ new.id = ks[key].id /\ new.labels = ks[key].labels
          /\ new.expired
      BY Zenon, <1>3 DEF SeriesType
    <3>2. keyspace' = [keyspace EXCEPT ![db] = [ks EXCEPT ![key] = new]]
      BY <2>1 DEF Expire
    <3>. QED
      BY Zenon, <3>1, <3>2
  <2>2. CASE ExtendExpiry(db, key)
    <3>. DEFINE new == [ks[key] EXCEPT !.expired = FALSE]
    <3>1. new \in SeriesType /\ new.id = ks[key].id /\ new.labels = ks[key].labels
      BY Zenon, <1>3 DEF SeriesType
    <3>2. /\ keyspace' = [keyspace EXCEPT ![db] = [ks EXCEPT ![key] = new]]
          /\ p.id_to_key[ks[key].id] = key
      BY <2>2 DEF ExtendExpiry
    <3>. QED
      BY Zenon, <3>1, <3>2
  <2>. QED
    BY <2>1, <2>2
<1>. DEFINE qs == [ks EXCEPT ![key] = new]
<1>5. new # NoSeries
  BY <1>4, PostingsAssumption
<1>6. qs \in KeyspaceType /\ qs[key] = new /\ \A k \in Keys : k # key => qs[k] = ks[k]
  BY <1>3, <1>4 DEF KeyspaceType
<1>7. keyspace' = [keyspace EXCEPT ![db] = qs] /\ index' = [index EXCEPT ![db] = p]
  <2>1. index = [index EXCEPT ![db] = p]
    BY DEF IInv, DrainTypeOK, TypeOK
  <2>. QED
    BY <1>2, <1>4, <2>1
<1>. HIDE DEF qs
<1>8. \A k \in Keys : /\ (qs[k] # NoSeries) <=> (ks[k] # NoSeries)
                      /\ ks[k] # NoSeries => qs[k].id = ks[k].id /\ qs[k].labels = ks[k].labels
                      /\ qs[k] # NoSeries /\ ~qs[k].expired => p.id_to_key[qs[k].id] = k
  <2>. TAKE k \in Keys
  <2>1. CASE k = key
    BY <1>2, <1>4, <1>5, <1>6, <2>1
  <2>2. CASE k # key
    <3>1. qs[k] = ks[k]
      BY <1>6, <2>2
    <3>. QED
      BY <1>3, <3>1 DEF DbOK, Listed, Found
  <2>. QED
    BY <2>1, <2>2
<1>9. DbOK(p, qs, next_id)
  <2>1. \A id \in Ids : p.id_to_key[id] \in {NoKey} \cup Keys
    BY <1>3, PostingsFields
  <2>2. \A id \in Ids : p.id_to_key[id] # NoKey =>
           qs[p.id_to_key[id]] # NoSeries /\ qs[p.id_to_key[id]].id = id
    BY <1>3, <1>8, <2>1 DEF DbOK, Resolves, HandedOut
  <2>3. Listed(p)
    BY <1>3 DEF DbOK
  <2>4. Resolves(p, qs)
    BY <2>2 DEF Resolves
  <2>5. Found(p, qs)
    BY <1>8 DEF Found
  <2>6. Posted(p, qs)
    BY <1>3, <1>8 DEF DbOK, Posted
  <2>7. PostedOnly(p, qs)
    BY <1>3, <1>8 DEF DbOK, PostedOnly
  <2>8. HandedOut(p, qs, next_id)
    BY <1>3, <1>8 DEF DbOK, HandedOut
  <2>9. KeysApart(qs)
    BY <1>3, <1>8 DEF DbOK, KeysApart
  <2>. QED
    BY <2>3, <2>4, <2>5, <2>6, <2>7, <2>8, <2>9 DEF DbOK
<1>10. \A k \in Keys : qs[k] # NoSeries => \E j \in Keys : ks[j] # NoSeries /\ ks[j].id = qs[k].id
  BY <1>8
<1>11. Keeps(p, p)
  BY DEF Keeps
<1>. DEFINE q == p
<1>12. /\ q \in PostingsType /\ DbOK(q, qs, next_id') /\ Keeps(index[db], q)
       /\ index' = [index EXCEPT ![db] = q]
  BY Zenon, <1>2, <1>3, <1>7, <1>9, <1>11
<1>13. /\ keyspace' = [keyspace EXCEPT ![db] = qs] /\ qs \in KeyspaceType
       /\ next_id' \in 1 .. MaxId + 1 /\ next_id <= next_id'
  BY <1>3, <1>6, <1>7
<1>. HIDE DEF q
<1>. QED
  BY Zenon, <1>10, <1>12, <1>13, LocalStepOK

LEMMA RenameOK ==
    ASSUME IInv, UNCHANGED <<replica, drain, context_db, torn>>,
           NEW db \in Dbs, NEW src \in Keys, NEW dst \in Keys, Rename(db, src, dst)
    PROVE  IInv'
<1>. DEFINE p == index[db]
            ks == keyspace[db]
            ts == ks[src]
            u1 == Unlink2(p, db, dst)
            ks1 == Without(ks, dst)
            u2 == Unlink2(u1, db, src)
            ks2 == Without(ks1, src)
            q == IndexTimeseries(u2, ts, dst)
            qs == [ks2 EXCEPT ![dst] = ts]
<1>1. p \in PostingsType /\ ks \in KeyspaceType /\ DbOK(p, ks, next_id) /\ next_id \in Nat
  BY DbFacts
<1>2. src # dst /\ ts # NoSeries /\ ts \in SeriesType /\ ts.id \in Ids
  BY DbFacts DEF Rename, Finds, Holds, SeriesType
<1>3. u1 \in PostingsType /\ DbOK(u1, ks1, next_id) /\ Shrinks(p, u1)
  BY <1>1, VacateOK
<1>4. /\ ks1 \in KeyspaceType /\ ks2 \in KeyspaceType /\ ks1[src] = ts
      /\ ks2[src] = NoSeries /\ ks2[dst] = NoSeries
      /\ \A k \in Keys : k # src /\ k # dst => ks2[k] = ks[k]
  BY <1>1, <1>2 DEF Without, KeyspaceType
<1>5. u2 = RemoveTimeseriesForKey(u1, ks1[src], src)
  BY <1>2, <1>4 DEF Unlink2, Holds
<1>. HIDE DEF u1, ks1
<1>6. u2 \in PostingsType /\ DbOK(u2, ks2, next_id) /\ Shrinks(u1, u2)
  BY <1>1, <1>2, <1>3, <1>4, <1>5, UnlinkOK
<1>7. keyspace' = [keyspace EXCEPT ![db] = qs] /\ next_id' = next_id
  BY <1>1, <1>2, DbFacts DEF Rename, ks1, Without, KeyspaceType, IInv, DrainTypeOK, TypeOK
<1>. HIDE DEF u2, ks2
<1>8. u2.id_to_key[ts.id] = NoKey
  <2>1. u2.id_to_key[ts.id] \in {NoKey} \cup Keys
    BY <1>2, <1>6, PostingsFields
  <2>2. ASSUME NEW k \in Keys, u2.id_to_key[ts.id] = k PROVE FALSE
    <3>1. ks2[k] # NoSeries /\ ks2[k].id = ts.id
      BY <1>2, <1>6, <2>2, PostingsAssumption DEF DbOK, Resolves
    <3>2. k # src /\ k # dst /\ ks[k] = ks2[k]
      BY <1>4, <3>1
    <3>. QED
      BY <1>1, <1>2, <3>1, <3>2 DEF DbOK, KeysApart
  <2>. QED
    BY <2>1, <2>2
<1>9. index' = [index EXCEPT ![db] = q]
  <2>1. index' = [index EXCEPT ![db] = ReindexTimeseries(u2, ts, src, dst)]
    BY DEF Rename, u1, u2
  <2>2. src # NoKey
    BY PostingsAssumption
  <2>3. RemoveTimeseriesForKey(u2, ts, src) = u2
    BY <1>8, <2>2 DEF RemoveTimeseriesForKey
  <2>. QED
    BY <2>1, <2>3 DEF ReindexTimeseries
<1>10. \A k \in Keys : ks2[k] # NoSeries => ks2[k].id # ts.id
  <2>. SUFFICES ASSUME NEW k \in Keys, ks2[k] # NoSeries PROVE ks2[k].id # ts.id
    OBVIOUS
  <2>1. k # src /\ k # dst /\ ks[k] = ks2[k]
    BY <1>4
  <2>. QED
    BY <1>1, <1>2, <2>1 DEF DbOK, KeysApart
<1>11. \A l \in Labels : ts.id \in u2.label_index[l] => l \in ts.labels
  BY <1>1, <1>2, <1>3, <1>6 DEF Shrinks, DbOK, PostedOnly
<1>12. ts.id < next_id /\ next_id <= next_id
  BY <1>1, <1>2 DEF DbOK, HandedOut
<1>13. /\ q \in PostingsType /\ DbOK(q, qs, next_id)
       /\ NoDead(u2) => NoDead(q)
       /\ \A c \in {0} \cup Labels : PassOK(u2, c) => PassOK(q, c)
  BY <1>1, <1>2, <1>4, <1>6, <1>8, <1>10, <1>11, <1>12, IndexOK
<1>14. Keeps(p, q)
  BY <1>3, <1>6, <1>13 DEF Keeps, Shrinks
<1>15. /\ qs \in KeyspaceType /\ qs[dst] = ts
       /\ \A k \in Keys : k # dst => qs[k] = ks2[k]
  BY <1>2, <1>4 DEF KeyspaceType
<1>. HIDE DEF q, qs
<1>16. \A k \in Keys : qs[k] # NoSeries => \E j \in Keys : ks[j] # NoSeries /\ ks[j].id = qs[k].id
  <2>. SUFFICES ASSUME NEW k \in Keys, qs[k] # NoSeries
                PROVE  \E j \in Keys : ks[j] # NoSeries /\ ks[j].id = qs[k].id
    OBVIOUS
  <2>1. CASE k = dst
    BY <1>2, <1>15, <2>1
  <2>2. CASE k # dst
    BY <1>4, <1>15, <2>2
  <2>. QED
    BY <2>1, <2>2
<1>17. next_id' \in 1 .. MaxId + 1 /\ next_id <= next_id' /\ DbOK(q, qs, next_id')
  BY <1>7, <1>13, DbFacts
<1>. QED
  BY Zenon, <1>7, <1>9, <1>13, <1>14, <1>15, <1>16, <1>17, LocalStepOK

\* index_loaded_series over a vacated key: nothing is registered under the key any more, so the
\* retirement of the old entry finds nothing and the value is indexed under the fresh id.
LEMMA LoadedOK ==
    ASSUME NEW db \in Dbs, NEW p \in PostingsType, keyspace[db] \in KeyspaceType, NEW n \in Ids,
           DbOK(p, keyspace[db], n), NEW key \in Keys, NEW ts \in SeriesType
    PROVE  LET q == IndexLoadedSeries(Unlink2(p, db, key), ts, key, n)
               new == [ts EXCEPT !.id = n]
           IN  /\ new \in SeriesType /\ new.id = n
               /\ q \in PostingsType
               /\ DbOK(q, [keyspace[db] EXCEPT ![key] = new], n + 1)
               /\ Keeps(p, q)
<1>. DEFINE new == [ts EXCEPT !.id = n]
            u == Unlink2(p, db, key)
<1>1. new \in SeriesType /\ new.id = n /\ ts.id \in Ids
  BY DEF SeriesType
<1>2. n \in Nat
  BY PostingsAssumption DEF Ids
<1>3. u.id_to_key[ts.id] # key
  BY <1>1, <1>2, VacateOK
<1>4. IndexLoadedSeries(u, ts, key, n) = IndexTimeseries(u, new, key)
  BY <1>3 DEF IndexLoadedSeries, RemoveTimeseriesForKey
<1>. HIDE DEF new
<1>5. LET q == IndexTimeseries(u, new, key)
      IN  /\ q \in PostingsType /\ DbOK(q, [keyspace[db] EXCEPT ![key] = new], n + 1)
          /\ Keeps(p, q)
  BY <1>1, StoreFreshOK
<1>. QED
  BY <1>1, <1>4, <1>5 DEF new

\* A step that stores a value from outside under a fresh id, in one database.
LEMMA LoadStepOK ==
    ASSUME IInv, UNCHANGED <<replica, drain, context_db, torn>>, next_id <= MaxId,
           NEW db \in Dbs, NEW key \in Keys, NEW ts \in SeriesType,
           index' = [index EXCEPT ![db] =
                        IndexLoadedSeries(Unlink2(index[db], db, key), ts, key, next_id)],
           keyspace' = [keyspace EXCEPT ![db] =
                           [keyspace[db] EXCEPT ![key] = [ts EXCEPT !.id = next_id]]],
           next_id' = next_id + 1
    PROVE  IInv'
<1>. DEFINE new == [ts EXCEPT !.id = next_id]
            q == IndexLoadedSeries(Unlink2(index[db], db, key), ts, key, next_id)
            qs == [keyspace[db] EXCEPT ![key] = new]
<1>1. /\ new \in SeriesType /\ new.id = next_id
      /\ q \in PostingsType /\ DbOK(q, qs, next_id + 1) /\ Keeps(index[db], q)
  BY DbFacts, LoadedOK
<1>. HIDE DEF new
<1>2. qs \in KeyspaceType /\ qs[key] = new /\ \A k \in Keys : k # key => qs[k] = keyspace[db][k]
  BY <1>1, DbFacts DEF KeyspaceType
<1>3. index' = [index EXCEPT ![db] = q] /\ keyspace' = [keyspace EXCEPT ![db] = qs]
  BY DEF new
<1>4. next_id' \in 1 .. MaxId + 1 /\ next_id <= next_id' /\ DbOK(q, qs, next_id')
  BY <1>1, DbFacts
<1>. HIDE DEF q, qs
<1>5. \A k \in Keys : qs[k] # NoSeries =>
         \/ \E j \in Keys : keyspace[db][j] # NoSeries /\ keyspace[db][j].id = qs[k].id
         \/ qs[k].id = next_id
  BY <1>1, <1>2
<1>. QED
  BY Zenon, <1>1, <1>2, <1>3, <1>4, <1>5, LocalStepOK

LEMMA RestoreOK ==
    ASSUME IInv, UNCHANGED <<replica, drain, context_db, torn>>,
           NEW db \in Dbs, NEW key \in Keys, NEW payload \in Payloads, Restore(db, key, payload)
    PROVE  IInv'
<1>1. payload \in SeriesType
  <2>1. PICK id \in Ids, labels \in InputLabels : payload = NewSeries(id, labels)
    BY DEF Payloads
  <2>2. labels \in SUBSET Labels
    BY IndexAssumption
  <2>. QED
    BY <2>1, <2>2 DEF NewSeries, SeriesType
<1>2. /\ next_id <= MaxId /\ next_id' = next_id + 1
      /\ index' = [index EXCEPT ![db] =
                      IndexLoadedSeries(Unlink2(index[db], db, key), payload, key, next_id)]
      /\ keyspace' = [keyspace EXCEPT ![db] =
                         [keyspace[db] EXCEPT ![key] = [payload EXCEPT !.id = next_id]]]
  BY DEF Restore
<1>. QED
  BY Zenon, <1>1, <1>2, LoadStepOK

LEMMA CopyOK ==
    ASSUME IInv, UNCHANGED <<replica, drain, context_db, torn>>,
           NEW from \in Dbs, NEW to \in Dbs, NEW src \in Keys, NEW dst \in Keys,
           Copy(from, src, to, dst)
    PROVE  IInv'
<1>. DEFINE ts == [keyspace[from][src] EXCEPT !.id = next_id]
<1>1. next_id <= MaxId /\ next_id' = next_id + 1 /\ keyspace[from][src] # NoSeries
  BY DEF Copy, Finds, Holds
<1>2. ts \in SeriesType /\ ts = [ts EXCEPT !.id = next_id]
  <2>1. keyspace[from][src] \in SeriesType /\ next_id \in Ids
    BY <1>1, DbFacts
  <2>. QED
    BY Zenon, <2>1 DEF SeriesType
<1>3. /\ index' = [index EXCEPT ![to] =
                       IndexLoadedSeries(Unlink2(index[to], to, dst), ts, dst, next_id)]
      /\ keyspace' = [keyspace EXCEPT ![to] = [keyspace[to] EXCEPT ![dst] = ts]]
  BY DEF Copy
<1>. HIDE DEF ts
<1>. QED
  BY Zenon, <1>1, <1>2, <1>3, LoadStepOK

LEMMA MoveOK ==
    ASSUME IInv, UNCHANGED <<replica, drain, context_db, torn>>,
           NEW from \in Dbs, NEW to \in Dbs, NEW key \in Keys, Move(from, to, key)
    PROVE  IInv'
<1>. DEFINE ts == keyspace[from][key]
            new == [ts EXCEPT !.id = next_id]
            old == Unlink2(index[from], from, key)
            olds == Without(keyspace[from], key)
            q == IndexLoadedSeries(Unlink2(index[to], to, key), ts, key, next_id)
            qs == [keyspace[to] EXCEPT ![key] = new]
<1>1. next_id <= MaxId /\ next_id' = next_id + 1 /\ ts # NoSeries /\ from # to
  BY DEF Move, Finds, Holds
<1>2. ts \in SeriesType /\ ts.id \in Ids
  BY <1>1, DbFacts DEF SeriesType
<1>3. /\ old \in PostingsType /\ DbOK(old, olds, next_id) /\ Shrinks(index[from], old)
      /\ \A id \in Ids : old.id_to_key[id] # key
  BY DbFacts, VacateOK
<1>4. RemoveTimeseriesForKey(old, ts, key) = old
  BY <1>2, <1>3 DEF RemoveTimeseriesForKey
<1>5. /\ new \in SeriesType /\ new.id = next_id
      /\ q \in PostingsType /\ DbOK(q, qs, next_id + 1) /\ Keeps(index[to], q)
  <2>1. /\ index[to] \in PostingsType /\ keyspace[to] \in KeyspaceType
        /\ DbOK(index[to], keyspace[to], next_id) /\ next_id \in Ids
    BY <1>1, DbFacts
  <2>. HIDE DEF ts
  <2>. QED
    BY <1>2, <2>1, LoadedOK
<1>6. index' = [index EXCEPT ![from] = old, ![to] = q]
  <2>1. index' = [index EXCEPT ![from] = RemoveTimeseriesForKey(old, ts, key),
                               ![to] = IndexLoadedSeries(Unlink2(index[to], to, key), ts, key, next_id)]
    BY <1>1 DEF Move
  <2>. QED
    BY <1>4, <2>1
<1>7. keyspace' = [keyspace EXCEPT ![from] = olds, ![to] = qs]
  BY Zenon DEF Move, Without
<1>. HIDE DEF new
<1>8. /\ olds \in KeyspaceType /\ qs \in KeyspaceType
      /\ qs[key] = new /\ \A k \in Keys : k # key => qs[k] = keyspace[to][k]
      /\ \A k \in Keys : olds[k] # NoSeries => olds[k] = keyspace[from][k]
  BY <1>5, DbFacts DEF KeyspaceType, Without
<1>. HIDE DEF old, olds, q, qs
<1>9. keyspace \in [Dbs -> KeyspaceType] /\ index \in [Dbs -> PostingsType]
  BY DEF IInv, DrainTypeOK, TypeOK, KeyspaceType
<1>10. keyspace' \in [Dbs -> KeyspaceType] /\ index' \in [Dbs -> PostingsType]
  BY <1>3, <1>5, <1>6, <1>7, <1>8, <1>9
<1>11. \A d \in Dbs : /\ d = to => index'[d] = q /\ keyspace'[d] = qs
                      /\ d = from => index'[d] = old /\ keyspace'[d] = olds
                      /\ d # to /\ d # from => index'[d] = index[d] /\ keyspace'[d] = keyspace[d]
  BY <1>1, <1>6, <1>7, <1>9
<1>12. next_id \in Nat /\ next_id' \in Nat /\ next_id <= next_id' /\ next_id' \in 1 .. MaxId + 1
  BY <1>1, DbFacts
<1>13. ASSUME NEW d \in Dbs
       PROVE  DbOK(index'[d], keyspace'[d], next_id') /\ Keeps(index[d], index'[d])
  <2>1. CASE d = to
    BY <1>1, <1>5, <1>11, <2>1
  <2>2. CASE d = from
    <3>1. DbOK(old, olds, next_id')
      BY <1>3, <1>8, <1>12, DbOKLater
    <3>. QED
      BY <1>3, <1>11, <2>2, <3>1 DEF Keeps, Shrinks
  <2>3. CASE d # to /\ d # from
    <3>1. DbOK(index[d], keyspace[d], next_id')
      BY <1>12, DbFacts, DbOKLater
    <3>. QED
      BY <1>11, <2>3, <3>1 DEF Keeps
  <2>. QED
    BY <2>1, <2>2, <2>3
<1>14. ASSUME NEW d \in Dbs, NEW k \in Keys, keyspace'[d][k] # NoSeries
       PROVE  \/ \E j \in Keys : keyspace[d][j] # NoSeries /\ keyspace[d][j].id = keyspace'[d][k].id
              \/ d = to /\ keyspace'[d][k].id = next_id
  BY <1>5, <1>8, <1>11, <1>14
<1>. QED
  BY <1>10, <1>12, <1>13, <1>14, DbFacts, StepOK

LEMMA QueryOK ==
    ASSUME IInv, UNCHANGED <<replica, drain, context_db, torn>>,
           NEW db \in Dbs, NEW l \in Labels, Query(db, l)
    PROVE  IInv'
<1>. DEFINE p == index[db]
            ks == keyspace[db]
            ids == PostingsForLabelValue(p, l)
            opens == {k \in Keys : Holds(db, k) /\ \E id \in ids : p.id_to_key[id] = k}
            reaped == {k \in opens : ks[k].expired /\ ~replica}
            found == {id \in ids : \E k \in opens : p.id_to_key[id] = k /\ ~ks[k].expired}
            u == Unlink2All(p, db, reaped)
            q == MarkIdsAsStale(u, ids \ found)
            qs == [k \in Keys |-> IF k \in reaped THEN NoSeries ELSE ks[k]]
<1>1. /\ index' = [index EXCEPT ![db] = q] /\ keyspace' = [keyspace EXCEPT ![db] = qs]
      /\ next_id' = next_id
  BY DEF Query
<1>2. p \in PostingsType /\ ks \in KeyspaceType /\ DbOK(p, ks, next_id) /\ next_id \in Nat
  BY DbFacts
<1>3. reaped \in SUBSET Keys /\ \A k \in reaped : ks[k] # NoSeries
  BY DEF Holds
<1>4. /\ u \in PostingsType /\ DbOK(u, qs, next_id) /\ Shrinks(p, u)
      /\ \A id \in Ids : u.id_to_key[id] = IF p.id_to_key[id] \in reaped THEN NoKey
                                           ELSE p.id_to_key[id]
  <2>. HIDE DEF reaped
  <2>. QED
    BY <1>2, <1>3, UnlinkAllOK
<1>5. /\ qs \in KeyspaceType
      /\ \A k \in Keys : qs[k] # NoSeries => qs[k] = ks[k]
      /\ \A k \in Keys : k \notin reaped => qs[k] = ks[k]
  BY <1>2 DEF KeyspaceType
<1>6. ids \in SUBSET Ids /\ \A id \in ids : id < next_id
  BY <1>2, PostingsFields DEF PostingsForLabelValue, DbOK, HandedOut
<1>7. ASSUME NEW id \in ids \ found, u.id_to_key[id] # NoKey
      PROVE  qs[u.id_to_key[id]].expired
  <2>1. id \in Ids /\ p.id_to_key[id] # NoKey /\ p.id_to_key[id] \notin reaped
        /\ u.id_to_key[id] = p.id_to_key[id]
    BY Zenon, <1>4, <1>6, <1>7
  <2>2. p.id_to_key[id] \in Keys
    BY Zenon, <1>2, <2>1, PostingsFields
  <2>3. ks[p.id_to_key[id]] # NoSeries
    BY Zenon, <1>2, <2>1 DEF DbOK, Resolves, HandedOut, KeysApart
  <2>4. p.id_to_key[id] \in opens
    BY <2>2, <2>3 DEF Holds
  <2>5. ks[p.id_to_key[id]].expired
    BY <2>4
  <2>. QED
    BY Zenon, <2>1, <2>2, <2>5
<1>. HIDE DEF reaped, found, ids, u
<1>8. /\ q \in PostingsType /\ DbOK(q, qs, next_id)
      /\ NoDead(u) => NoDead(q)
      /\ \A c \in {0} \cup Labels : PassOK(u, c) => PassOK(q, c)
  <2>. DEFINE gone == ids \ found
  <2>1. gone \in SUBSET Ids /\ \A id \in gone : id < next_id
    BY <1>6
  <2>2. \A id \in gone : u.id_to_key[id] # NoKey => qs[u.id_to_key[id]].expired
    BY <1>7
  <2>. HIDE DEF gone, qs
  <2>3. LET m == MarkIdsAsStale(u, gone)
        IN  /\ m \in PostingsType /\ DbOK(m, qs, next_id)
            /\ NoDead(u) => NoDead(m)
            /\ \A c \in {0} \cup Labels : PassOK(u, c) => PassOK(m, c)
    BY <1>2, <1>4, <1>5, <2>1, <2>2, MarkOK
  <2>. QED
    BY <2>3 DEF gone, qs
<1>9. Keeps(p, q)
  BY Zenon, <1>4, <1>8 DEF Keeps, Shrinks
<1>10. next_id' \in 1 .. MaxId + 1 /\ next_id <= next_id' /\ DbOK(q, qs, next_id')
  BY <1>1, <1>8, DbFacts
<1>. HIDE DEF q, qs
<1>11. \A k \in Keys : qs[k] # NoSeries => \E j \in Keys : ks[j] # NoSeries /\ ks[j].id = qs[k].id
  BY <1>5
<1>. QED
  BY Zenon, <1>1, <1>5, <1>8, <1>9, <1>10, LocalStepOK
==============================================================================
