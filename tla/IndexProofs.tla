----------------------------- MODULE IndexProofs -----------------------------
(***************************************************************************)
(* The index agrees with the keyspace, for every number of keys, labels,   *)
(* databases and ids and every batch size: the proofs for Index under the  *)
(* commands and server events, with the drain of IndexDrain beside them.   *)
(***************************************************************************)
EXTENDS IndexCommands, WellFoundedInduction

-----------------------------------------------------------------------------
(* A batch of the drain *)

\* A non-empty set of naturals has a least element.
LEMMA LeastExists ==
    ASSUME NEW S \in SUBSET Nat, S # {}
    PROVE  \E x \in S : \A y \in S : x <= y
<1>1. PICK x \in S : \A y \in S : ~(<<y, x>> \in OpToRel(<, Nat))
  BY Zenon, NatLessThanWellFounded, WFMin
<1>2. \A y \in S : ~(y < x)
  <2>1. S \subseteq Nat
    OBVIOUS
  <2>. QED
    BY <1>1, <2>1, Zenon DEF OpToRel
<1>. QED
  BY <1>2

\* remove_stale_ids hands back 0, or a label key such that every earlier key from the start on was
\* visited or holds no posting list.
LEMMA CursorFacts ==
    ASSUME NEW visited, NEW rest \in SUBSET Labels
    PROVE  LET next == NextCursor(visited, rest)
           IN  /\ next \in {0} \cup Labels
               /\ next = 0 <=> rest = {}
               /\ next # 0 => \A l \in Labels : l < next => l \notin rest
<1>1. CASE rest = {}
  BY <1>1 DEF NextCursor
<1>2. CASE rest # {}
  <2>1. rest \in SUBSET Nat
    BY PostingsAssumption DEF Labels
  <2>2. \E x \in rest : \A y \in rest : x <= y
    BY <1>2, <2>1, LeastExists
  <2>3. Min(rest) \in rest /\ \A y \in rest : Min(rest) <= y
    BY <2>2 DEF Min
  <2>4. NextCursor(visited, rest) = Min(rest)
    BY <1>2 DEF NextCursor
  <2>5. Min(rest) \in Labels /\ Min(rest) # 0
    <3>1. Min(rest) \in Labels
      BY <2>3
    <3>2. 0 \notin Labels
      BY PostingsAssumption DEF Labels
    <3>. QED
      BY <3>1, <3>2
  <2>6. ASSUME NEW l \in Labels, l < Min(rest) PROVE l \notin rest
    <3>1. l \in Nat /\ Min(rest) \in Nat
      BY <2>5, PostingsAssumption DEF Labels
    <3>. QED
      BY <2>3, <2>6, <3>1
  <2>. QED
    BY <1>2, <2>4, <2>5, <2>6
<1>. QED
  BY <1>1, <1>2

\* One batch of the drain.  Without a torn pass, the batch that ends a pass retires only ids that
\* no posting list holds any more.
LEMMA DrainBatchOK ==
    ASSUME NEW p \in PostingsType, NEW ks \in KeyspaceType, NEW n \in Nat, DbOK(p, ks, n),
           NEW start \in {0} \cup Labels
    PROVE  LET r == RemoveStaleIds(p, start, BatchSize)
           IN  /\ r.postings \in PostingsType
               /\ r.next \in {0} \cup Labels
               /\ DbOK(r.postings, ks, n)
               /\ NoDead(p) /\ (start # 0 => PassOK(p, start)) =>
                     /\ NoDead(r.postings)
                     /\ r.next # 0 => PassOK(r.postings, r.next)
<1>. DEFINE r == RemoveStaleIds(p, start, BatchSize)
            begun == IF start = 0 \/ p.pass = NoPass THEN BeginPass(p) ELSE p
            visited == Visited(p, start, BatchSize)
            rest == {l \in Labels : l >= start /\ p.label_index[l] # {} /\ l \notin visited}
            masked == [begun EXCEPT !.label_index =
                          [l \in Labels |-> IF l \in visited THEN @[l] \ p.stale_ids ELSE @[l]]]
            q == r.postings
<1>1. /\ p.label_index \in [Labels -> SUBSET Ids] /\ p.id_to_key \in [Ids -> {NoKey} \cup Keys]
      /\ p.all_postings \in SUBSET Ids /\ p.pass \in {NoPass} \cup SUBSET Ids
      /\ p.stale_ids \in SUBSET Ids
  BY PostingsFields
<1>2. CASE p.stale_ids = {}
  <2>1. q = p /\ r.next = 0
    BY <1>2 DEF RemoveStaleIds
  <2>. QED
    BY <2>1
<1>3. CASE p.stale_ids # {}
  <2>1. /\ q = IF visited # {} /\ rest = {} THEN FinishPass(masked) ELSE masked
        /\ r.next = NextCursor(visited, rest)
    BY <1>3 DEF RemoveStaleIds
  <2>2. /\ begun \in PostingsType
        /\ begun.label_index = p.label_index /\ begun.id_to_key = p.id_to_key
        /\ begun.stale_ids = p.stale_ids /\ begun.all_postings = p.all_postings
        /\ begun.pass = IF start = 0 \/ p.pass = NoPass THEN p.stale_ids ELSE p.pass
        /\ begun.pass \in SUBSET Ids
    BY <1>1 DEF BeginPass, PostingsType
  <2>. HIDE DEF begun
  <2>3. /\ masked \in PostingsType
        /\ masked.label_index = [l \in Labels |-> IF l \in visited THEN p.label_index[l] \ p.stale_ids
                                                  ELSE p.label_index[l]]
        /\ masked.id_to_key = p.id_to_key /\ masked.stale_ids = p.stale_ids
        /\ masked.all_postings = p.all_postings /\ masked.pass = begun.pass
    BY <1>1, <2>2 DEF PostingsType
  <2>. HIDE DEF masked, visited
  <2>4. begun.pass # NoPass
    BY <2>2, PostingsAssumption
  <2>5. /\ FinishPass(masked) \in PostingsType
        /\ FinishPass(masked).label_index = masked.label_index
        /\ FinishPass(masked).id_to_key = p.id_to_key
        /\ FinishPass(masked).all_postings = p.all_postings
        /\ FinishPass(masked).stale_ids = p.stale_ids \ begun.pass
    BY Zenon, <2>3, <2>4 DEF FinishPass, PostingsType
  <2>6. /\ q \in PostingsType
        /\ q.label_index = masked.label_index
        /\ q.id_to_key = p.id_to_key
        /\ q.all_postings = p.all_postings
        /\ q.stale_ids \subseteq p.stale_ids
        /\ rest # {} \/ visited = {} => q.stale_ids = p.stale_ids /\ q.pass = begun.pass
        /\ q.stale_ids = p.stale_ids \/ q.stale_ids = p.stale_ids \ begun.pass
    BY <2>1, <2>3, <2>5
  <2>7. /\ r.next \in {0} \cup Labels
        /\ r.next = 0 <=> rest = {}
        /\ r.next # 0 => \A l \in Labels : l < r.next => l \notin rest
    BY <2>1, CursorFacts
  <2>. HIDE DEF q, r
  <2>8. \A l \in Labels : /\ q.label_index[l] \subseteq p.label_index[l]
                          /\ \A id \in p.label_index[l] : id \notin p.stale_ids => id \in q.label_index[l]
                          /\ l \in visited => q.label_index[l] \cap p.stale_ids = {}
    BY <2>3, <2>6
  <2>9. DbOK(q, ks, n)
    <3>1. \A k \in Keys : ks[k] # NoSeries => ks[k].id \in Ids /\ ks[k].labels \in SUBSET Labels
      BY DEF KeyspaceType, SeriesType
    <3>2. ASSUME NEW k \in Keys, ks[k] # NoSeries, p.id_to_key[ks[k].id] = k
          PROVE  \A l \in ks[k].labels : ks[k].id \in q.label_index[l]
      <4>1. ks[k].id \in p.all_postings
        BY <3>1, <3>2, PostingsAssumption DEF DbOK, Listed
      <4>2. ks[k].id \notin p.stale_ids
        BY <4>1 DEF DbOK, Listed
      <4>3. \A l \in ks[k].labels : l \in Labels /\ ks[k].id \in p.label_index[l]
        BY <3>1, <3>2 DEF DbOK, Posted
      <4>. QED
        BY <2>8, <4>2, <4>3
    <3>. QED
      BY <2>6, <2>8, <3>2 DEF DbOK, Listed, Resolves, Found, Posted, PostedOnly, HandedOut
  <2>10. ASSUME NoDead(p), start # 0 => PassOK(p, start)
         PROVE  NoDead(q) /\ (r.next # 0 => PassOK(q, r.next))
    \* An id of the pass is off every key before the first one still to visit.
    <3>1. ASSUME NEW l \in Labels, l \notin rest, NEW id \in begun.pass, id \in p.stale_ids
          PROVE  id \notin q.label_index[l]
      <4>1. CASE l \in visited
        BY <2>8, <3>1, <4>1
      <4>2. CASE p.label_index[l] = {}
        BY <2>8, <4>2
      <4>3. CASE l < start
        <5>1. start # 0
          BY <4>3, PostingsAssumption DEF Labels
        <5>2. p.pass # NoPass /\ begun.pass = p.pass
          BY <2>2, <2>10, <5>1 DEF PassOK
        <5>. QED
          BY <2>8, <2>10, <3>1, <4>3, <5>1, <5>2 DEF PassOK
      <4>4. l \in Nat /\ start \in Nat
        BY PostingsAssumption DEF Labels
      <4>. QED
        BY <3>1, <4>1, <4>2, <4>3, <4>4
    <3>2. NoDead(q)
      <4>. SUFFICES ASSUME NEW l \in Labels, NEW id \in q.label_index[l], q.id_to_key[id] = NoKey
                    PROVE  id \in q.stale_ids
        BY DEF NoDead
      <4>1. id \in p.stale_ids
        BY <2>6, <2>8, <2>10 DEF NoDead
      <4>2. CASE rest = {}
        BY <2>6, <3>1, <4>1, <4>2
      <4>3. CASE rest # {}
        BY <2>6, <4>1, <4>3
      <4>. QED
        BY <4>2, <4>3
    <3>3. ASSUME r.next # 0 PROVE PassOK(q, r.next)
      <4>1. q.stale_ids = p.stale_ids /\ q.pass = begun.pass
        BY <2>6, <2>7, <3>3
      <4>. QED
        BY <2>4, <2>7, <3>1, <3>3, <4>1 DEF PassOK
    <3>. QED
      BY <3>2, <3>3
  <2>. QED
    BY <2>6, <2>7, <2>9, <2>10 DEF q, r
<1>. QED
  BY <1>2, <1>3

-----------------------------------------------------------------------------
(* Server events and the drain *)

\* The databases of the server are in order: FirstDb and NextDb are databases.
LEMMA NextDbOK ==
    /\ FirstDb \in Dbs
    /\ \A db \in Dbs : NextDb(db) \in Dbs
<1>1. FirstDb \in Dbs
  <2>1. \E x \in Dbs : \A y \in Dbs : x <= y
    BY IndexAssumption, LeastExists
  <2>. QED
    BY <2>1 DEF FirstDb
<1>2. ASSUME NEW db \in Dbs PROVE NextDb(db) \in Dbs
  <2>. DEFINE later == {d \in Dbs : d > db}
  <2>1. CASE later = {}
    BY <1>1, <2>1 DEF NextDb
  <2>2. CASE later # {}
    <3>1. \E d \in later : \A e \in later : d <= e
      BY Zenon, <2>2, IndexAssumption, LeastExists
    <3>2. (CHOOSE d \in later : \A e \in later : d <= e) \in later
      BY <3>1
    <3>. QED
      BY <2>2, <3>2 DEF NextDb
  <2>. QED
    BY <2>1, <2>2
<1>. QED
  BY <1>1, <1>2

\* An empty database is in order.
LEMMA EmptyOK ==
    ASSUME NEW n \in Nat
    PROVE  /\ EmptyPostings \in PostingsType
           /\ [k \in Keys |-> NoSeries] \in KeyspaceType
           /\ DbOK(EmptyPostings, [k \in Keys |-> NoSeries], n)
           /\ NoDead(EmptyPostings)
<1>1. /\ EmptyPostings \in PostingsType
      /\ EmptyPostings.label_index = [l \in Labels |-> {}]
      /\ EmptyPostings.id_to_key = [id \in Ids |-> NoKey]
      /\ EmptyPostings.stale_ids = {}
      /\ EmptyPostings.all_postings = {}
  BY DEF EmptyPostings, PostingsType
<1>2. NoDead(EmptyPostings)
  BY <1>1 DEF NoDead
<1>3. DbOK(EmptyPostings, [k \in Keys |-> NoSeries], n)
  BY <1>1 DEF DbOK, Listed, Resolves, Found, Posted, PostedOnly, HandedOut, KeysApart
<1>. QED
  BY <1>1, <1>2, <1>3 DEF KeyspaceType

\* FLUSHDB and FLUSHALL of any set of databases.
LEMMA FlushOK ==
    ASSUME IInv, UNCHANGED <<replica, drain, context_db>>, NEW dbs \in SUBSET Dbs, Flush(dbs),
           torn' = (torn \/ \E db \in dbs : MidPass(db))
    PROVE  IInv'
<1>1. keyspace \in [Dbs -> KeyspaceType] /\ index \in [Dbs -> PostingsType] /\ next_id \in Nat
  BY DbFacts, IndexAssumption DEF IInv, DrainTypeOK, TypeOK, KeyspaceType
<1>2. /\ \A d \in dbs : index'[d] = EmptyPostings /\ keyspace'[d] = [k \in Keys |-> NoSeries]
      /\ \A d \in Dbs \ dbs : index'[d] = index[d] /\ keyspace'[d] = keyspace[d]
      /\ next_id' = next_id
  BY DEF Flush
<1>3. keyspace' \in [Dbs -> KeyspaceType] /\ index' \in [Dbs -> PostingsType]
  BY <1>1, EmptyOK DEF Flush
<1>4. DrainTypeOK'
  <2>1. torn' \in BOOLEAN
    OBVIOUS
  <2>. QED
    BY <1>2, <1>3, <2>1 DEF IInv, DrainTypeOK, TypeOK, KeyspaceType
<1>5. \A d \in Dbs : DbOK(index'[d], keyspace'[d], next_id')
  <2>. TAKE d \in Dbs
  <2>1. CASE d \in dbs
    BY <1>1, <1>2, <2>1, EmptyOK
  <2>2. CASE d \notin dbs
    BY <1>2, <2>2 DEF IInv
  <2>. QED
    BY <2>1, <2>2
<1>6. \A d \in Dbs, k \in Keys : keyspace'[d][k] # NoSeries => keyspace'[d][k] = keyspace[d][k]
  BY <1>2
<1>7. IdsUnique'
  BY <1>6 DEF IInv, IdsUnique, Holds
<1>8. ASSUME ~torn', NEW d \in Dbs
      PROVE  NoDead(index'[d]) /\ (MidPass(d)' => PassOK(index'[d], drain'.cursor))
  <2>1. ~torn /\ \A db \in dbs : ~MidPass(db)
    BY Zenon, <1>8
  <2>2. (MidPass(d)' <=> MidPass(d)) /\ drain' = drain
    BY DEF MidPass
  <2>3. CASE d \in dbs
    BY <1>2, <2>1, <2>2, <2>3, EmptyOK
  <2>4. CASE d \notin dbs
    BY <1>2, <2>1, <2>2, <2>4 DEF IInv
  <2>. QED
    BY <2>3, <2>4
<1>. QED
  BY <1>4, <1>5, <1>7, <1>8 DEF IInv

LEMMA SwapDbOK ==
    ASSUME IInv, UNCHANGED <<replica, drain, context_db>>, NEW a \in Dbs, NEW b \in Dbs,
           SwapDb(a, b), torn' = (torn \/ MidPass(a) \/ MidPass(b))
    PROVE  IInv'
<1>. DEFINE other(d) == IF d = a THEN b ELSE IF d = b THEN a ELSE d
<1>1. keyspace \in [Dbs -> KeyspaceType] /\ index \in [Dbs -> PostingsType]
  BY DEF IInv, DrainTypeOK, TypeOK, KeyspaceType
<1>2. /\ \A d \in Dbs : other(d) \in Dbs /\ index'[d] = index[other(d)] /\ keyspace'[d] = keyspace[other(d)]
      /\ next_id' = next_id
  BY <1>1 DEF SwapDb
<1>3. keyspace' \in [Dbs -> KeyspaceType] /\ index' \in [Dbs -> PostingsType]
  BY <1>1 DEF SwapDb
<1>4. \A d, e \in Dbs : other(d) = other(e) => d = e
  OBVIOUS
<1>5. \A d \in Dbs : other(d) # d => d = a \/ d = b
  OBVIOUS
<1>. HIDE DEF other
<1>6. DrainTypeOK'
  <2>1. torn' \in BOOLEAN
    OBVIOUS
  <2>. QED
    BY <1>2, <1>3, <2>1 DEF IInv, DrainTypeOK, TypeOK, KeyspaceType
<1>7. \A d \in Dbs : DbOK(index'[d], keyspace'[d], next_id')
  BY <1>2 DEF IInv
<1>8. IdsUnique'
  BY <1>2, <1>4 DEF IInv, IdsUnique, Holds
<1>9. ASSUME ~torn', NEW d \in Dbs
      PROVE  NoDead(index'[d]) /\ (MidPass(d)' => PassOK(index'[d], drain'.cursor))
  <2>1. ~torn /\ ~MidPass(a) /\ ~MidPass(b)
    BY Zenon, <1>9
  <2>2. (MidPass(d)' <=> MidPass(d)) /\ drain' = drain
    BY DEF MidPass
  <2>3. NoDead(index'[d])
    BY <1>2, <2>1 DEF IInv
  <2>4. CASE other(d) = d
    BY <1>2, <2>1, <2>2, <2>4 DEF IInv
  <2>5. CASE other(d) # d
    BY <1>5, <2>1, <2>2, <2>3, <2>5
  <2>. QED
    BY <2>4, <2>5
<1>. QED
  BY <1>6, <1>7, <1>8, <1>9 DEF IInv

LEMMA DrainStepOK ==
    ASSUME IInv, DrainBatch
    PROVE  IInv'
<1>. DEFINE db == drain.db
            c == drain.cursor
            r == RemoveStaleIds(index[db], c, BatchSize)
<1>1. /\ db \in Dbs /\ c \in {0} \cup Labels /\ drain.active
      /\ drain \in [active : BOOLEAN, db : Dbs, cursor : {0} \cup Labels]
  BY DEF IInv, DrainTypeOK, DrainBatch
<1>2. /\ index' = [index EXCEPT ![db] = r.postings]
      /\ drain' = [drain EXCEPT !.active = r.next # 0, !.cursor = r.next]
      /\ context_db' = IF r.next = 0 THEN NextDb(db) ELSE context_db
      /\ keyspace' = keyspace /\ next_id' = next_id /\ replica' = replica /\ torn' = torn
  BY DEF DrainBatch
<1>3. /\ index[db] \in PostingsType /\ keyspace[db] \in KeyspaceType /\ next_id \in Nat
      /\ DbOK(index[db], keyspace[db], next_id)
  BY <1>1, DbFacts
<1>4. /\ r.postings \in PostingsType
      /\ r.next \in {0} \cup Labels
      /\ DbOK(r.postings, keyspace[db], next_id)
      /\ NoDead(index[db]) /\ (c # 0 => PassOK(index[db], c)) =>
            /\ NoDead(r.postings)
            /\ r.next # 0 => PassOK(r.postings, r.next)
  BY Zenon, <1>1, <1>3, DrainBatchOK
<1>. HIDE DEF r
<1>5. /\ drain'.db = db /\ drain'.cursor = r.next
      /\ drain' \in [active : BOOLEAN, db : Dbs, cursor : {0} \cup Labels]
  BY Zenon, <1>1, <1>2, <1>4
<1>6. index \in [Dbs -> PostingsType]
  BY DEF IInv, DrainTypeOK, TypeOK
<1>7. DrainTypeOK'
  <2>1. context_db' \in Dbs
    BY <1>1, <1>2, NextDbOK DEF IInv, DrainTypeOK
  <2>2. TypeOK'
    BY <1>1, <1>2, <1>4, <1>6 DEF IInv, DrainTypeOK, TypeOK
  <2>. QED
    BY <1>2, <1>5, <2>1, <2>2 DEF IInv, DrainTypeOK
<1>8. \A d \in Dbs : index'[d] = IF d = db THEN r.postings ELSE index[d]
  BY <1>2, <1>6
<1>9. \A d \in Dbs : DbOK(index'[d], keyspace'[d], next_id')
  BY <1>2, <1>4, <1>8 DEF IInv
<1>10. IdsUnique'
  BY <1>2 DEF IInv, IdsUnique, Holds
<1>11. ASSUME ~torn', NEW d \in Dbs
       PROVE  NoDead(index'[d]) /\ (MidPass(d)' => PassOK(index'[d], drain'.cursor))
  <2>1. \A e \in Dbs : NoDead(index[e]) /\ (MidPass(e) => PassOK(index[e], c))
    BY <1>2, <1>11 DEF IInv
  <2>2. c # 0 => PassOK(index[db], c)
    BY <1>1, <2>1 DEF MidPass
  <2>3. CASE d = db
    BY <1>1, <1>4, <1>5, <1>8, <2>1, <2>2, <2>3 DEF MidPass
  <2>4. CASE d # db
    BY <1>5, <1>8, <2>1, <2>4 DEF MidPass
  <2>. QED
    BY <2>3, <2>4
<1>. QED
  BY <1>7, <1>9, <1>10, <1>11 DEF IInv

-----------------------------------------------------------------------------
(* Theorems *)

LEMMA InitOK == DrainInit => IInv
<1>. SUFFICES ASSUME DrainInit PROVE IInv
  OBVIOUS
<1>1. /\ keyspace = [db \in Dbs |-> [k \in Keys |-> NoSeries]] /\ index = [db \in Dbs |-> EmptyPostings]
      /\ next_id = 1 /\ replica \in BOOLEAN
      /\ drain = [active |-> FALSE, db |-> FirstDb, cursor |-> 0] /\ context_db = FirstDb /\ torn = FALSE
  BY DEF DrainInit, Init
<1>2. next_id \in 1 .. MaxId + 1 /\ next_id \in Nat
  BY <1>1, PostingsAssumption
<1>3. DrainTypeOK
  <2>1. TypeOK
    BY <1>1, <1>2, EmptyOK DEF TypeOK, KeyspaceType
  <2>. QED
    BY Zenon, <1>1, <2>1, NextDbOK DEF DrainTypeOK
<1>4. IdsUnique
  BY <1>1 DEF IdsUnique, Holds
<1>5. \A db \in Dbs : DbOK(index[db], keyspace[db], next_id) /\ NoDead(index[db]) /\ ~MidPass(db)
  BY <1>1, <1>2, EmptyOK DEF MidPass
<1>. QED
  BY <1>3, <1>4, <1>5 DEF IInv

LEMMA CommandOK ==
    ASSUME IInv, DrainCommand
    PROVE  IInv'
<1>1. PICK db \in Dbs : Command(db)
  BY DEF DrainCommand
<1>2. UNCHANGED <<replica, drain, context_db, torn>>
  BY DEF DrainCommand
<1>3. ASSUME NEW key \in Keys, NEW labels \in InputLabels,
             Create(db, key, labels) \/ AlterLabels(db, key, labels)
      PROVE  IInv'
  BY <1>2, <1>3, CreateOK, AlterLabelsOK
<1>4. ASSUME NEW key \in Keys, Delete(db, key) \/ Expire(db, key) \/ ExtendExpiry(db, key)
      PROVE  IInv'
  BY <1>2, <1>4, DeleteOK, ExpiryOK
<1>5. ASSUME NEW src \in Keys, NEW dst \in Keys, Rename(db, src, dst) PROVE IInv'
  BY <1>2, <1>5, RenameOK
<1>6. ASSUME NEW to \in Dbs, NEW key \in Keys, Move(db, to, key) PROVE IInv'
  BY <1>2, <1>6, MoveOK
<1>7. ASSUME NEW src \in Keys, NEW dst \in Keys, NEW to \in Dbs, Copy(db, src, to, dst) PROVE IInv'
  BY <1>2, <1>7, CopyOK
<1>8. ASSUME NEW key \in Keys, NEW payload \in Payloads, Restore(db, key, payload) PROVE IInv'
  BY <1>2, <1>8, RestoreOK
<1>9. ASSUME NEW l \in Labels, Query(db, l) PROVE IInv'
  BY <1>2, <1>9, QueryOK
<1>. QED
  BY <1>1, <1>3, <1>4, <1>5, <1>6, <1>7, <1>8, <1>9 DEF Command

LEMMA NextOK == IInv /\ [DrainNext]_dvars => IInv'
<1>. SUFFICES ASSUME IInv, [DrainNext]_dvars PROVE IInv'
  OBVIOUS
<1>1. CASE DrainStart
  <2>1. /\ drain' = [active |-> TRUE, db |-> context_db, cursor |-> 0]
        /\ keyspace' = keyspace /\ index' = index /\ next_id' = next_id /\ replica' = replica
        /\ context_db' = context_db /\ torn' = torn
    BY <1>1 DEF DrainStart, ivars
  <2>2. DrainTypeOK' /\ \A db \in Dbs : ~MidPass(db)'
    BY <2>1 DEF IInv, DrainTypeOK, TypeOK, MidPass
  <2>. QED
    BY <2>1, <2>2 DEF IInv, IdsUnique, Holds
<1>2. CASE DrainBatch
  BY <1>2, DrainStepOK
<1>3. CASE DrainCommand
  BY <1>3, CommandOK
<1>4. CASE DrainDbEvent
  <2>1. UNCHANGED <<replica, drain, context_db>>
    BY <1>4 DEF DrainDbEvent
  <2>2. CASE \E db \in Dbs : Flush({db}) /\ torn' = (torn \/ MidPass(db))
    <3>1. PICK db \in Dbs : Flush({db}) /\ torn' = (torn \/ MidPass(db))
      BY <2>2
    <3>2. torn' = (torn \/ \E d \in {db} : MidPass(d)) /\ {db} \in SUBSET Dbs
      BY <3>1
    <3>. QED
      BY <2>1, <3>1, <3>2, FlushOK
  <2>3. CASE Flush(Dbs) /\ torn' = (torn \/ \E db \in Dbs : MidPass(db))
    <3>1. Dbs \in SUBSET Dbs
      OBVIOUS
    <3>. QED
      BY <2>1, <2>3, <3>1, FlushOK
  <2>4. CASE \E a, b \in Dbs : SwapDb(a, b) /\ torn' = (torn \/ MidPass(a) \/ MidPass(b))
    BY <2>1, <2>4, SwapDbOK
  <2>. QED
    BY <1>4, <2>2, <2>3, <2>4 DEF DrainDbEvent
<1>5. CASE DrainFailover
  BY <1>5 DEF DrainFailover, Failover, IInv, DrainTypeOK, TypeOK, IdsUnique, Holds, MidPass
<1>6. CASE UNCHANGED dvars
  BY <1>6 DEF dvars, IInv, DrainTypeOK, TypeOK, IdsUnique, Holds, MidPass
<1>. QED
  BY <1>1, <1>2, <1>3, <1>4, <1>5, <1>6 DEF DrainNext

\* The strengthened invariant holds of the index and the keyspace under every command, server
\* event and drain batch.
THEOREM Invariance == DrainSpec => []IInv
BY InitOK, NextOK, PTL DEF DrainSpec

\* Every command, event and batch leaves well-typed state: in particular the drain's cursor is a
\* label key or the start, and it is only ever handed to a database of the server.
THEOREM TypeCorrect == DrainSpec => []DrainTypeOK
<1>1. IInv => DrainTypeOK
  BY DEF IInv
<1>. QED
  BY <1>1, Invariance, PTL

\* No two keys of the server hold the same id: next_timeseries_id hands out each id once, and
\* index_loaded_series gives a copied, moved or restored series a new one.
THEOREM UniqueIds == DrainSpec => []IdsUnique
<1>1. IInv => IdsUnique
  BY DEF IInv
<1>. QED
  BY <1>1, Invariance, PTL

\* The id directory agrees with the keyspace: every live series under its own key, nothing under
\* a key that holds another series or none.
THEOREM Directory == DrainSpec => []DirectoryExact
<1>1. IInv => DirectoryExact
  BY DEF IInv, DbOK, Resolves, Found, DirectoryExact, LiveKeys, Holds
<1>. QED
  BY <1>1, Invariance, PTL

\* all_postings is the directory's domain and no id of it is stale.
THEOREM StaleFree == DrainSpec => []AllStaleFree
<1>1. IInv => AllStaleFree
  BY DEF IInv, DbOK, Listed, AllStaleFree
<1>. QED
  BY <1>1, Invariance, PTL

\* Label lookups stay exact however commands, expiries and failovers interleave with the batches
\* of the drain, for every batch size, as long as no flush or swap replaces an index mid-pass.
THEOREM Lookups == DrainSpec => []DrainKeepsLookups
<1>1. IInv => DrainKeepsLookups
  <2>. SUFFICES ASSUME IInv, ~torn, NEW db \in Dbs, NEW l \in Labels
                PROVE  LET found == PostingsForLabelValue(index[db], l)
                       IN  /\ \A k \in LiveKeys(db) :
                                 keyspace[db][k].id \in found <=> l \in keyspace[db][k].labels
                           /\ \A id \in found : \E k \in Keys : Holds(db, k) /\ keyspace[db][k].id = id
    BY DEF DrainKeepsLookups, LookupsExact
  <2>. DEFINE p == index[db]
              ks == keyspace[db]
              found == PostingsForLabelValue(p, l)
  <2>1. p \in PostingsType /\ ks \in KeyspaceType /\ DbOK(p, ks, next_id) /\ NoDead(p)
    BY DbFacts DEF IInv
  <2>2. found = p.label_index[l] \ p.stale_ids
    BY DEF PostingsForLabelValue
  <2>3. ASSUME NEW k \in Keys, ks[k] # NoSeries, ~ks[k].expired
        PROVE  ks[k].id \in found <=> l \in ks[k].labels
    <3>1. ks[k].id \in Ids /\ p.id_to_key[ks[k].id] = k /\ k # NoKey
      BY <2>1, <2>3, PostingsAssumption DEF DbOK, Found, KeyspaceType, SeriesType
    <3>2. ks[k].id \notin p.stale_ids
      BY <2>1, <3>1 DEF DbOK, Listed
    <3>. QED
      BY <2>1, <2>2, <2>3, <3>1, <3>2 DEF DbOK, Posted, PostedOnly
  <2>4. ASSUME NEW id \in found PROVE \E k \in Keys : ks[k] # NoSeries /\ ks[k].id = id
    <3>1. id \in Ids /\ p.id_to_key[id] \in {NoKey} \cup Keys
      BY <2>1, <2>2, <2>4, PostingsFields
    <3>2. p.id_to_key[id] # NoKey
      BY <2>1, <2>2, <2>4 DEF NoDead
    <3>. QED
      BY <2>1, <3>1, <3>2 DEF DbOK, Resolves
  <2>. QED
    BY <2>3, <2>4 DEF LiveKeys, Holds
<1>. QED
  BY <1>1, Invariance, PTL
==============================================================================
