-------------------------- MODULE TableStoreProofs --------------------------
(***************************************************************************)
(* The collections of LokiTableMetadataStore stay well formed, whatever    *)
(* tables, keys and properties there are and however long a batch may be.  *)
(* WellFormed is inductive: what an operation on a collection returns is   *)
(* again a collection with one document per key and per $loki value, and   *)
(* so is what a rollback makes of one.                                     *)
(* For batches that name one table in lower case, the two lists of a batch *)
(* hold the way back (BatchInv), and the store implements TableService.    *)
(***************************************************************************)
EXTENDS TableStore, TLAPS

\* A collection in which a key, and a $loki value, stands for one document.
GoodCollection(c) ==
    /\ c.last \in Nat
    /\ c.docs \subseteq Documents
    /\ \A a, b \in c.docs : a.ent.key = b.ent.key \/ a.id = b.id => a = b
    /\ \A doc \in c.docs : doc.id <= c.last

\* What the operations of the store may return.
GoodOutcome(o) ==
    /\ o.ok \in BOOLEAN
    /\ GoodCollection(o.coll)
    /\ o.rollback \in Seq(Documents)
    /\ o.added \in Seq(Documents)

-----------------------------------------------------------------------------
\* The entity that a handler makes of a request is one a document may hold.
LEMMA EntityType ==
    ASSUME NEW k \in Keys, NEW ps \in SUBSET Props, NEW e \in 0..MaxEtags,
           NEW id \in Nat
    PROVE  Document(id, Entity(k, ps, e)) \in Documents
  BY BoundsAssumption DEF Document, Entity, Documents

\* In a good collection the document that findOne returns for a key is the
\* only one there is.
LEMMA FoundIsFirst ==
    ASSUME NEW c, GoodCollection(c), NEW k \in Keys, Found(c, k) # {}
    PROVE  /\ FirstFound(c, k) \in c.docs
           /\ FirstFound(c, k).ent.key = k
           /\ \A doc \in c.docs : doc.ent.key = k => doc = FirstFound(c, k)
  <1>1. PICK doc \in Found(c, k) : TRUE
    OBVIOUS
  <1>2. doc \in c.docs /\ doc.ent.key = k /\ doc.id \in Nat
    BY <1>1 DEF Found, GoodCollection, Documents
  <1>3. \A other \in Found(c, k) : other = doc
    BY <1>1, <1>2 DEF Found, GoodCollection
  <1>4. \A other \in Found(c, k) : doc.id <= other.id
    BY <1>2, <1>3
  <1>5. FirstFound(c, k) \in Found(c, k)
    BY <1>1, <1>4 DEF FirstFound
  <1> QED
    BY <1>2, <1>3, <1>5 DEF Found

\* insertTableEntity() adds a document only if the key has none.
LEMMA InsertGood ==
    ASSUME NEW c, GoodCollection(c), NEW k \in Keys, NEW ps \in SUBSET Props,
           NEW e \in 0..MaxEtags
    PROVE  GoodOutcome(InsertTableEntity(c, k, ps, e))
  <1> DEFINE doc == Document(c.last + 1, Entity(k, ps, e))
  <1>1. c.last + 1 \in Nat /\ doc \in Documents
    BY EntityType DEF GoodCollection
  <1>2. CASE Found(c, k) # {}
    BY <1>2 DEF InsertTableEntity, Refused, GoodOutcome
  <1>3. CASE Found(c, k) = {}
    <2> DEFINE new == [docs |-> c.docs \cup {doc}, last |-> c.last + 1]
    <2>1. doc.id = c.last + 1 /\ doc.ent.key = k
      BY DEF Document, Entity
    <2>2. \A a \in c.docs : a.ent.key # k /\ a.id # c.last + 1 /\ a.id <= c.last + 1
      BY <1>3 DEF Found, GoodCollection, Documents
    <2>3. GoodCollection(new)
      BY <1>1, <2>1, <2>2 DEF GoodCollection
    <2> HIDE DEF doc
    <2>4. <<doc>> \in Seq(Documents) /\ <<>> \in Seq(Documents)
      BY <1>1
    <2>5. InsertTableEntity(c, k, ps, e) =
             [ok |-> TRUE, coll |-> new, rollback |-> <<>>, added |-> <<doc>>]
      BY <1>3 DEF InsertTableEntity, Done, doc
    <2> QED
      BY <2>3, <2>4, <2>5 DEF GoodOutcome
  <1> QED
    BY <1>2, <1>3

\* Replacing the one document of a key leaves a good collection.
LEMMA ReplaceGood ==
    ASSUME NEW c, GoodCollection(c), NEW old \in c.docs, NEW new \in Documents,
           NEW last \in Nat, last >= c.last, new.ent.key = old.ent.key,
           new.id <= last, new.id = old.id \/ new.id > c.last
    PROVE  GoodCollection([docs |-> (c.docs \ {old}) \cup {new}, last |-> last])
  <1>1. \A a \in c.docs \ {old} : a.ent.key # new.ent.key /\ a.id # new.id /\ a.id <= last
    BY DEF GoodCollection, Documents
  <1> QED
    BY <1>1 DEF GoodCollection

\* updateTableEntity() puts a new document in the place of the old one.
LEMMA UpdateGood ==
    ASSUME NEW c, GoodCollection(c), NEW k \in Keys, NEW ps \in SUBSET Props,
           NEW m, NEW e \in 0..MaxEtags
    PROVE  GoodOutcome(UpdateTableEntity(c, k, ps, m, e))
  <1> DEFINE doc == FirstFound(c, k)
             new == Document(c.last + 1, Entity(k, ps, e))
  <1>1. CASE Found(c, k) = {}
    BY <1>1 DEF UpdateTableEntity, Refused, GoodOutcome
  <1>2. CASE Found(c, k) # {}
    <2>1. doc \in c.docs /\ doc.ent.key = k /\ doc \in Documents
      BY <1>2, FoundIsFirst DEF GoodCollection
    <2>2. new \in Documents /\ new.id = c.last + 1 /\ new.ent.key = k /\ c.last \in Nat
      <3>1. c.last \in Nat /\ c.last + 1 \in Nat
        BY DEF GoodCollection
      <3> QED
        BY <3>1, EntityType DEF Document, Entity
    <2>3. GoodCollection([docs |-> (c.docs \ {doc}) \cup {new}, last |-> c.last + 1])
      <3> HIDE DEF doc, new
      <3> QED
        BY <2>1, <2>2, ReplaceGood
    <2>4. UpdateTableEntity(c, k, ps, m, e) =
            IF ~Matches(m, doc) THEN Refused(c, <<doc>>)
            ELSE Done((c.docs \ {doc}) \cup {new}, c.last + 1, <<doc>>, <<>>)
      BY <1>2 DEF UpdateTableEntity
    <2> HIDE DEF doc, new
    <2>5. <<doc>> \in Seq(Documents) /\ <<>> \in Seq(Documents)
      BY <2>1
    <2> QED
      BY <2>3, <2>4, <2>5 DEF Refused, Done, GoodOutcome
  <1> QED
    BY <1>1, <1>2

\* mergeTableEntity() changes the document in place.
LEMMA MergeGood ==
    ASSUME NEW c, GoodCollection(c), NEW k \in Keys, NEW ps \in SUBSET Props,
           NEW m, NEW e \in 0..MaxEtags
    PROVE  GoodOutcome(MergeTableEntity(c, k, ps, m, e))
  <1> DEFINE doc == FirstFound(c, k)
             new == Merged(doc, ps, e)
  <1>1. CASE Found(c, k) = {}
    BY <1>1 DEF MergeTableEntity, Refused, GoodOutcome
  <1>2. CASE Found(c, k) # {}
    <2>1. doc \in c.docs /\ doc.ent.key = k /\ doc \in Documents
      BY <1>2, FoundIsFirst DEF GoodCollection
    <2>2. new \in Documents /\ new.id = doc.id /\ new.ent.key = k
      <3> HIDE DEF doc
      <3> QED
        BY <2>1 DEF Documents, Merged
    <2>3. GoodCollection([docs |-> (c.docs \ {doc}) \cup {new}, last |-> c.last])
      <3>1. c.last \in Nat /\ doc.id <= c.last
        BY <2>1 DEF GoodCollection
      <3> HIDE DEF doc, new
      <3> QED
        BY <2>1, <2>2, <3>1, ReplaceGood
    <2>4. MergeTableEntity(c, k, ps, m, e) =
            IF ~Matches(m, doc) THEN Refused(c, <<doc>>)
            ELSE Done((c.docs \ {doc}) \cup {new}, c.last, <<doc>>, <<>>)
      BY <1>2 DEF MergeTableEntity
    <2> HIDE DEF doc, new
    <2>5. <<doc>> \in Seq(Documents) /\ <<>> \in Seq(Documents)
      BY <2>1
    <2> QED
      BY <2>3, <2>4, <2>5 DEF Refused, Done, GoodOutcome
  <1> QED
    BY <1>1, <1>2

\* deleteTableEntity() removes the document.
LEMMA DeleteGood ==
    ASSUME NEW c, GoodCollection(c), NEW k \in Keys, NEW m
    PROVE  GoodOutcome(DeleteTableEntity(c, k, m))
  <1> DEFINE doc == FirstFound(c, k)
  <1>1. CASE Found(c, k) = {} \/ ~Matches(m, doc)
    <2>1. DeleteTableEntity(c, k, m) = Refused(c, <<>>)
      BY <1>1 DEF DeleteTableEntity
    <2> QED
      BY <2>1 DEF Refused, GoodOutcome
  <1>2. CASE Found(c, k) # {} /\ Matches(m, doc)
    <2>1. doc \in Documents
      BY <1>2, FoundIsFirst DEF GoodCollection
    <2>2. GoodCollection([docs |-> c.docs \ {doc}, last |-> c.last])
      BY DEF GoodCollection
    <2>3. DeleteTableEntity(c, k, m) = Done(c.docs \ {doc}, c.last, <<doc>>, <<>>)
      BY <1>2 DEF DeleteTableEntity
    <2> HIDE DEF doc
    <2>4. <<doc>> \in Seq(Documents) /\ <<>> \in Seq(Documents)
      BY <2>1
    <2> QED
      BY <2>2, <2>3, <2>4 DEF Done, GoodOutcome
  <1> QED
    BY <1>1, <1>2

\* A query returns the collection as it is.
LEMMA QueryGood ==
    ASSUME NEW c, GoodCollection(c), NEW k \in Keys
    PROVE  GoodOutcome(QueryTableEntitiesWithPartitionAndRowKey(c, k))
  <1>1. GoodCollection([docs |-> c.docs, last |-> c.last])
    BY DEF GoodCollection
  <1> QED
    BY <1>1 DEF QueryTableEntitiesWithPartitionAndRowKey, Refused, Done, GoodOutcome

\* The upserts insert or write.
LEMMA UpsertGood ==
    ASSUME NEW c, GoodCollection(c), NEW k \in Keys, NEW ps \in SUBSET Props,
           NEW m, NEW e \in 0..MaxEtags
    PROVE  /\ GoodOutcome(InsertOrUpdateTableEntity(c, k, ps, m, e))
           /\ GoodOutcome(InsertOrMergeTableEntity(c, k, ps, m, e))
  BY InsertGood, UpdateGood, MergeGood
  DEF InsertOrUpdateTableEntity, InsertOrMergeTableEntity

\* rollbackEntityChanges() replaces what the collection has for the keys of
\* the list; the copies get $loki values of their own.
LEMMA RollbackGood ==
    ASSUME NEW c, GoodCollection(c),
           transactionRollbackTheseEntities \in Seq(Documents)
    PROVE  GoodCollection(RollbackEntityChanges(c))
  <1> DEFINE list == transactionRollbackTheseEntities
             wins == {i \in DOMAIN list : \A j \in DOMAIN list :
                         j > i => list[j].ent.key # list[i].ent.key}
             kept == {doc \in c.docs : \A i \in DOMAIN list :
                         list[i].ent.key # doc.ent.key}
             copies == {Document(c.last + i, list[i].ent) : i \in wins}
  <1>1. DOMAIN list = 1..Len(list) /\ Len(list) \in Nat /\ c.last \in Nat
    BY DEF GoodCollection
  <1>2. \A i \in DOMAIN list : list[i] \in Documents
    BY <1>1
  <1>3. RollbackEntityChanges(c) = [docs |-> kept \cup copies, last |-> c.last + Len(list)]
    BY DEF RollbackEntityChanges
  <1> HIDE DEF list
  <1>4. \A i \in wins : /\ Document(c.last + i, list[i].ent) \in Documents
                        /\ c.last + i <= c.last + Len(list)
                        /\ c.last + i > c.last
    BY <1>1, <1>2 DEF Document, Documents
  <1>5. \A i, j \in wins : list[i].ent.key = list[j].ent.key => i = j
    BY <1>1
  <1>6. \A a, b \in copies : a.ent.key = b.ent.key \/ a.id = b.id => a = b
    <2> SUFFICES ASSUME NEW i \in wins, NEW j \in wins,
                        \/ Document(c.last + i, list[i].ent).ent.key
                              = Document(c.last + j, list[j].ent).ent.key
                        \/ Document(c.last + i, list[i].ent).id
                              = Document(c.last + j, list[j].ent).id
                 PROVE  i = j
      OBVIOUS
    <2>1. i \in Int /\ j \in Int
      BY <1>1
    <2> QED
      BY <1>1, <1>5, <2>1 DEF Document
  <1>7. \A a \in kept, b \in copies : a.ent.key # b.ent.key /\ a.id # b.id
    BY <1>1, <1>4 DEF Document, GoodCollection, Documents
  <1>8. \A a \in copies : a \in Documents /\ a.id <= c.last + Len(list)
    BY <1>4 DEF Document
  <1>9. \A a \in kept : a \in Documents /\ a.id <= c.last + Len(list)
    BY <1>1 DEF GoodCollection, Documents
  <1>10. \A a, b \in kept : a.ent.key = b.ent.key \/ a.id = b.id => a = b
    BY DEF GoodCollection
  <1> HIDE DEF kept, copies
  <1>11. c.last + Len(list) \in Nat
    BY <1>1
  <1> QED
    BY <1>3, <1>6, <1>7, <1>8, <1>9, <1>10, <1>11 DEF GoodCollection

\* removeEntitiesAddedInBatch() only removes.
LEMMA RemoveGood ==
    ASSUME NEW docs, NEW last, GoodCollection([docs |-> docs, last |-> last])
    PROVE  GoodCollection(RemoveEntitiesAddedInBatch([docs |-> docs, last |-> last]))
  BY DEF GoodCollection, RemoveEntitiesAddedInBatch

-----------------------------------------------------------------------------
\* In a well-formed store every collection is good.
LEMMA CollectionsGood ==
    ASSUME TypeOK, CollectionsMatch
    PROVE  \A n \in DOMAIN collections : GoodCollection(collections[n])
  BY DEF TypeOK, CollectionsMatch, GoodCollection

\* Writing a good collection to its place keeps the collections.
LEMMA WriteCollection ==
    ASSUME TypeOK, CollectionsMatch, UNCHANGED registry,
           NEW n \in DOMAIN collections, NEW c, GoodCollection(c),
           collections' = [collections EXCEPT ![n] = c]
    PROVE  /\ DOMAIN collections' \subseteq Names
           /\ \A x \in DOMAIN collections' :
                 collections'[x].last \in Nat /\ collections'[x].docs \subseteq Documents
           /\ CollectionsMatch'
  <1>1. DOMAIN collections' = DOMAIN collections
    OBVIOUS
  <1>2. \A x \in DOMAIN collections' : GoodCollection(collections'[x])
    BY CollectionsGood, <1>1
  <1> QED
    BY <1>1, <1>2 DEF TypeOK, CollectionsMatch, GoodCollection

\* An entity operation on its own.
LEMMA RequestStep ==
    ASSUME WellFormed, NEW name, Exists(name), etags < MaxEtags, batch = None,
           NEW outcome, GoodOutcome(outcome), NEW spent \in {0, 1},
           Request(name, outcome, spent)
    PROVE  WellFormed'
  <1> USE DEF WellFormed
  <1>1. CollectionName(name) \in DOMAIN collections /\ GoodCollection(outcome.coll)
    BY DEF Exists, GoodOutcome
  <1>2. /\ DOMAIN collections' \subseteq Names
        /\ \A x \in DOMAIN collections' :
              collections'[x].last \in Nat /\ collections'[x].docs \subseteq Documents
        /\ CollectionsMatch'
    BY <1>1, WriteCollection DEF Request
  <1>3. etags' \in 0..MaxEtags
    BY BoundsAssumption DEF Request, TypeOK
  <1> QED
    BY <1>2, <1>3 DEF Request, TypeOK, ListsAreReset, lists

\* A batch remains under way until it ends.
LEMMA BatchGoesOn ==
    ASSUME WellFormed, NEW name, batch # None, NEW keys \in SUBSET Keys, NEW outcome,
           NEW spent, DispatchBatchRequest(name, keys, outcome, spent)
    PROVE  batch' \in Batches /\ batch' # None
  <1> DEFINE refused == ~Exists(name) \/ keys \cap batch.seen # {}
  <1>1. batch \in Batches /\ batch.count < MaxOperations
    BY DEF WellFormed, TypeOK, DispatchBatchRequest, WithinLimit
  <1>2. batch' = [batch EXCEPT !.count = batch.count + 1,
                               !.seen = batch.seen \cup keys,
                               !.failed = refused \/ ~outcome.ok]
    BY DEF DispatchBatchRequest
  <1>3. batch.count + 1 \in 0..MaxOperations /\ batch.seen \cup keys \in SUBSET Keys
    BY <1>1, BoundsAssumption DEF Batches
  <1>4. (refused \/ ~outcome.ok) \in BOOLEAN
    OBVIOUS
  <1>5. batch' \in Batches
    <2> HIDE DEF refused
    <2> QED
      BY <1>1, <1>2, <1>3, <1>4 DEF Batches
  <1> QED
    BY <1>5, NoneAssumption

\* An operation of a batch.
LEMMA DispatchStep ==
    ASSUME WellFormed, NEW name, etags < MaxEtags, batch # None,
           NEW keys \in SUBSET Keys,
           NEW outcome, Exists(name) => GoodOutcome(outcome), NEW spent \in {0, 1},
           DispatchBatchRequest(name, keys, outcome, spent)
    PROVE  WellFormed'
  <1> DEFINE refused == ~Exists(name) \/ keys \cap batch.seen # {}
  <1>5. batch' \in Batches
    BY BatchGoesOn
  <1>6. batch' # None
    BY <1>5, NoneAssumption
  <1>7. UNCHANGED <<registry, before>>
    BY DEF DispatchBatchRequest
  <1>8. CASE refused
    <2>1. UNCHANGED <<collections, lists, etags>>
      BY <1>8 DEF DispatchBatchRequest
    <2> QED
      BY <1>5, <1>6, <1>7, <2>1
      DEF WellFormed, TypeOK, CollectionsMatch, ListsAreReset, lists
  <1>9. CASE ~refused
    <2>1. /\ collections' = [collections EXCEPT ![CollectionName(name)] = outcome.coll]
          /\ transactionRollbackTheseEntities' = transactionRollbackTheseEntities \o outcome.rollback
          /\ transactionDeleteTheseEntities' = transactionDeleteTheseEntities \o outcome.added
          /\ etags' = IF outcome.ok THEN etags + spent ELSE etags
      BY <1>9 DEF DispatchBatchRequest
    <2>2. CollectionName(name) \in DOMAIN collections /\ GoodOutcome(outcome)
      BY <1>9 DEF Exists
    <2>3. /\ DOMAIN collections' \subseteq Names
          /\ \A x \in DOMAIN collections' :
                collections'[x].last \in Nat /\ collections'[x].docs \subseteq Documents
          /\ CollectionsMatch'
      BY <1>7, <2>1, <2>2, WriteCollection DEF WellFormed, GoodOutcome
    <2>4. /\ transactionRollbackTheseEntities' \in Seq(Documents)
          /\ transactionDeleteTheseEntities' \in Seq(Documents)
      BY <2>1, <2>2 DEF GoodOutcome, WellFormed, TypeOK
    <2>5. etags' \in 0..MaxEtags
      BY <2>1, BoundsAssumption DEF WellFormed, TypeOK
    <2> QED
      BY <1>5, <1>6, <1>7, <2>3, <2>4, <2>5 DEF WellFormed, TypeOK, ListsAreReset
  <1> QED
    BY <1>8, <1>9

\* The entity operations outside a batch.
LEMMA EntityRequestStep ==
    ASSUME WellFormed, NEW name, Exists(name), etags < MaxEtags, batch = None,
           NEW k \in Keys, EntityRequest(name, k)
    PROVE  WellFormed'
  <1>1. GoodCollection(Collection(name))
    BY CollectionsGood DEF WellFormed, Collection, Exists
  <1>2. \A e \in NewEtags : e \in 0..MaxEtags /\ Spent(e) \in {0, 1}
    BY BoundsAssumption DEF WellFormed, TypeOK, NewEtags, Spent
  <1>3. ASSUME NEW ps \in SUBSET Props, NEW e \in NewEtags, InsertEntity(name, k, ps, e)
        PROVE  WellFormed'
    BY <1>1, <1>2, <1>3, InsertGood, RequestStep DEF InsertEntity
  <1>4. ASSUME NEW ps \in SUBSET Props, NEW e \in NewEtags, NEW m \in IfMatches, UpdateEntity(name, k, ps, m, e)
        PROVE  WellFormed'
    BY <1>1, <1>2, <1>4, UpsertGood, RequestStep DEF UpdateEntity
  <1>5. ASSUME NEW ps \in SUBSET Props, NEW e \in NewEtags, NEW m \in IfMatches, MergeEntity(name, k, ps, m, e)
        PROVE  WellFormed'
    BY <1>1, <1>2, <1>5, UpsertGood, RequestStep DEF MergeEntity
  <1>6. ASSUME NEW m \in IfMatches, DeleteEntity(name, k, m)
        PROVE  WellFormed'
    BY <1>1, <1>6, DeleteGood, RequestStep DEF DeleteEntity
  <1> QED
    BY <1>3, <1>4, <1>5, <1>6 DEF EntityRequest

\* The operations of a batch.
LEMMA BatchRequestStep ==
    ASSUME WellFormed, NEW name, etags < MaxEtags, batch # None,
           NEW k \in Keys, BatchRequest(name, k)
    PROVE  WellFormed'
  <1>1. Exists(name) => GoodCollection(Collection(name))
    BY CollectionsGood DEF WellFormed, Collection, Exists
  <1>2. \A e \in NewEtags : e \in 0..MaxEtags /\ Spent(e) \in {0, 1}
    BY BoundsAssumption DEF WellFormed, TypeOK, NewEtags, Spent
  <1>3. {k} \in SUBSET Keys /\ {} \in SUBSET Keys
    OBVIOUS
  <1>4. ASSUME NEW ps \in SUBSET Props, NEW e \in NewEtags, HandleBatchInsert(name, k, ps, e)
        PROVE  WellFormed'
    <2> DEFINE o == InsertTableEntity(Collection(name), k, ps, e)
    <2>1. Exists(name) => GoodOutcome(o)
      BY <1>1, <1>2, InsertGood
    <2>2. DispatchBatchRequest(name, {k}, o, Spent(e))
      BY <1>4 DEF HandleBatchInsert
    <2> HIDE DEF o
    <2> QED
      BY <1>2, <1>3, <2>1, <2>2, DispatchStep
  <1>5. ASSUME NEW ps \in SUBSET Props, NEW e \in NewEtags, NEW m \in IfMatches, HandleBatchUpdate(name, k, ps, m, e)
        PROVE  WellFormed'
    <2> DEFINE o == InsertOrUpdateTableEntity(Collection(name), k, ps, m, e)
    <2>1. Exists(name) => GoodOutcome(o)
      BY <1>1, <1>2, UpsertGood
    <2>2. DispatchBatchRequest(name, {k}, o, Spent(e))
      BY <1>5 DEF HandleBatchUpdate
    <2> HIDE DEF o
    <2> QED
      BY <1>2, <1>3, <2>1, <2>2, DispatchStep
  <1>6. ASSUME NEW ps \in SUBSET Props, NEW e \in NewEtags, NEW m \in IfMatches, HandleBatchMerge(name, k, ps, m, e)
        PROVE  WellFormed'
    <2> DEFINE o == InsertOrMergeTableEntity(Collection(name), k, ps, m, e)
    <2>1. Exists(name) => GoodOutcome(o)
      BY <1>1, <1>2, UpsertGood
    <2>2. DispatchBatchRequest(name, {k}, o, Spent(e))
      BY <1>6 DEF HandleBatchMerge
    <2> HIDE DEF o
    <2> QED
      BY <1>2, <1>3, <2>1, <2>2, DispatchStep
  <1>7. ASSUME NEW m \in IfMatches, HandleBatchDelete(name, k, m)
        PROVE  WellFormed'
    <2> DEFINE o == DeleteTableEntity(Collection(name), k, IF m = None THEN Wildcard ELSE m)
    <2>1. Exists(name) => GoodOutcome(o)
      BY <1>1, DeleteGood
    <2>2. DispatchBatchRequest(name, {k}, o, 0)
      BY <1>7 DEF HandleBatchDelete
    <2> HIDE DEF o
    <2> QED
      BY <1>3, <2>1, <2>2, DispatchStep
  <1>8. ASSUME HandleBatchQuery(name, k)
        PROVE  WellFormed'
    <2> DEFINE o == QueryTableEntitiesWithPartitionAndRowKey(Collection(name), k)
    <2>1. Exists(name) => GoodOutcome(o)
      BY <1>1, QueryGood
    <2>2. DispatchBatchRequest(name, {}, o, 0)
      BY <1>8 DEF HandleBatchQuery
    <2> HIDE DEF o
    <2> QED
      BY <1>3, <2>1, <2>2, DispatchStep
  <1> QED
    BY <1>4, <1>5, <1>6, <1>7, <1>8 DEF BatchRequest

\* The end of a batch, with or without a rollback.
LEMMA EndBatchStep ==
    ASSUME WellFormed, EndBatchTransaction
    PROVE  WellFormed'
  <1>1. /\ DOMAIN collections' \subseteq Names
        /\ \A x \in DOMAIN collections' :
              collections'[x].last \in Nat /\ collections'[x].docs \subseteq Documents
        /\ CollectionsMatch'
    <2>1. CASE batch.failed /\ batch.name \in DOMAIN collections
      <3> DEFINE back == RollbackEntityChanges(collections[batch.name])
      <3>1. GoodCollection(back)
        BY <2>1, CollectionsGood, RollbackGood DEF WellFormed, TypeOK
      <3>2. back = [docs |-> back.docs, last |-> back.last]
        BY DEF RollbackEntityChanges
      <3>3. collections' = [collections EXCEPT ![batch.name] = RemoveEntitiesAddedInBatch(back)]
        BY <2>1 DEF EndBatchTransaction
      <3> HIDE DEF back
      <3>4. GoodCollection(RemoveEntitiesAddedInBatch(back))
        BY <3>1, <3>2, RemoveGood
      <3> QED
        BY <2>1, <3>3, <3>4, WriteCollection DEF WellFormed, EndBatchTransaction
    <2>2. CASE ~(batch.failed /\ batch.name \in DOMAIN collections)
      BY <2>2 DEF EndBatchTransaction, WellFormed, TypeOK, CollectionsMatch
    <2> QED
      BY <2>1, <2>2
  <1> QED
    BY <1>1 DEF EndBatchTransaction, WellFormed, TypeOK, ListsAreReset

\* Creating and deleting a table keep the registry and the collections in
\* step, and setting a policy changes neither name.
LEMMA TableStep ==
    ASSUME WellFormed, batch = None, NEW name \in Names,
           \/ CreateTable(name) \/ DeleteTable(name)
           \/ \E policies \in 0..MaxPolicies + 1 : SetAccessPolicy(name, policies)
    PROVE  WellFormed'
  <1> USE DEF WellFormed
  <1>1. CASE CreateTable(name)
    <2> DEFINE doc == [name |-> name, acl |-> 0]
    <2>1. registry' = registry \cup {doc} /\ doc \in [name : Names, acl : 0..MaxPolicies]
      BY <1>1, BoundsAssumption DEF CreateTable
    <2>2. DOMAIN collections' = DOMAIN collections \cup {name}
      BY <1>1 DEF CreateTable
    <2>3. \A n \in DOMAIN collections' :
             collections'[n] = IF n = name THEN NoDocuments ELSE collections[n]
      BY <1>1, <2>2 DEF CreateTable
    <2>4. \A n \in DOMAIN collections' : GoodCollection(collections'[n])
      <3>1. GoodCollection(NoDocuments)
        BY DEF NoDocuments, GoodCollection
      <3> QED
        BY <2>2, <2>3, <3>1, CollectionsGood
    <2>5. \A a \in registry : a.name[1] # doc.name[1]
      BY <1>1 DEF CreateTable, Registered
    <2>6. \A a, b \in registry' : a.name[1] = b.name[1] => a = b
      BY <2>1, <2>5 DEF CollectionsMatch
    <2>7. DOMAIN collections' = {d.name : d \in registry'}
      <3>1. doc.name = name
        OBVIOUS
      <3> HIDE DEF doc
      <3>2. {d.name : d \in registry \cup {doc}} = {d.name : d \in registry} \cup {doc.name}
        OBVIOUS
      <3> QED
        BY <2>1, <2>2, <3>1, <3>2 DEF CollectionsMatch
    <2>8. CollectionsMatch'
      BY <2>4, <2>6, <2>7 DEF CollectionsMatch, GoodCollection
    <2> HIDE DEF doc
    <2> QED
      BY <1>1, <2>1, <2>2, <2>4, <2>8
      DEF TypeOK, ListsAreReset, CreateTable, lists, GoodCollection
  <1>2. CASE DeleteTable(name)
    <2>1. PICK doc \in registry :
             /\ registry' = registry \ {doc}
             /\ collections' = [n \in DOMAIN collections \ {doc.name} |-> collections[n]]
      BY <1>2 DEF DeleteTable, Registered
    <2>2. \A d \in registry : d.name = doc.name => d = doc
      BY <2>1 DEF CollectionsMatch
    <2>3. DOMAIN collections' = {d.name : d \in registry'}
      BY <2>1, <2>2 DEF CollectionsMatch
    <2>4. CollectionsMatch'
      BY <2>1, <2>3 DEF CollectionsMatch
    <2> QED
      BY <1>2, <2>1, <2>4 DEF TypeOK, ListsAreReset, DeleteTable, lists
  <1>3. ASSUME NEW policies \in 0..MaxPolicies + 1, SetAccessPolicy(name, policies)
        PROVE  WellFormed'
    <2>1. policies \in 0..MaxPolicies
      BY <1>3, BoundsAssumption DEF SetAccessPolicy
    <2>2. PICK doc \in registry :
             registry' = (registry \ {doc}) \cup {[doc EXCEPT !.acl = policies]}
      BY <1>3 DEF SetAccessPolicy, SetTableACL, Registered
    <2> DEFINE new == [doc EXCEPT !.acl = policies]
    <2>3. new \in [name : Names, acl : 0..MaxPolicies] /\ new.name = doc.name
      BY <2>1 DEF TypeOK
    <2> HIDE DEF new
    <2>4. registry' = (registry \ {doc}) \cup {new}
      BY <2>2 DEF new
    <2>5. {d.name : d \in registry'} = {d.name : d \in registry}
      BY <2>3, <2>4
    <2>6. \A a, b \in registry' : a.name[1] = b.name[1] => a = b
      BY <2>3, <2>4 DEF CollectionsMatch
    <2>7. UNCHANGED <<collections, lists, batch, etags, before>>
      BY <1>3 DEF SetAccessPolicy, SetTableACL
    <2> QED
      BY <2>3, <2>4, <2>5, <2>6, <2>7
      DEF TypeOK, CollectionsMatch, ListsAreReset, lists
  <1> QED
    BY <1>1, <1>2, <1>3

-----------------------------------------------------------------------------
\* A key has one document without an index to see to it, $loki values are
\* not reused, a table exists under one spelling with a collection of that
\* name, a batch keeps to its limit and leaves the lists of
\* beginBatchTransaction() empty, also when batches are rolled back on the
\* wrong collection: for any tables, spellings, keys and properties.
THEOREM TableStoreWellFormed == Spec => []WellFormed
  <1>1. Init => WellFormed
    BY BoundsAssumption
    DEF Init, WellFormed, TypeOK, CollectionsMatch, ListsAreReset
  <1>2. WellFormed /\ [Next]_vars => WellFormed'
    <2> SUFFICES ASSUME WellFormed, [Next]_vars
                 PROVE  WellFormed'
      OBVIOUS
    <2>1. ASSUME batch = None, NEW name \in Names,
                 \/ CreateTable(name) \/ DeleteTable(name)
                 \/ \E policies \in 0..MaxPolicies + 1 : SetAccessPolicy(name, policies)
          PROVE  WellFormed'
      BY <2>1, TableStep
    <2>2. ASSUME batch = None, NEW name \in Names, Exists(name), etags < MaxEtags,
                 NEW k \in Keys, EntityRequest(name, k)
          PROVE  WellFormed'
      BY <2>2, EntityRequestStep
    <2>3. ASSUME batch = None, NEW name \in Tables \X BatchCases,
                 BeginBatchTransaction(name)
          PROVE  WellFormed'
      <3>1. name \in Names
        BY <2>3, CasesAssumption DEF Names
      <3>2. batch' \in Batches
        BY <2>3, <3>1, BoundsAssumption DEF BeginBatchTransaction, Batches
      <3> QED
        BY <2>3, <3>2
        DEF WellFormed, TypeOK, CollectionsMatch, ListsAreReset, BeginBatchTransaction, lists
    <2>4. ASSUME batch # None, etags < MaxEtags, NEW name \in Tables \X BatchCases,
                 NEW k \in Keys, BatchRequest(name, k)
          PROVE  WellFormed'
      BY <2>4, BatchRequestStep
    <2>5. CASE EndBatchTransaction
      BY <2>5, EndBatchStep
    <2>6. CASE UNCHANGED vars
      BY <2>6 DEF WellFormed, TypeOK, CollectionsMatch, ListsAreReset, vars
    <2> QED
      BY <2>1, <2>2, <2>3, <2>4, <2>5, <2>6 DEF Next
  <1> QED
    BY <1>1, <1>2, PTL DEF Spec

-----------------------------------------------------------------------------
(***************************************************************************)
(* Rollback.  While a batch runs, the two lists tell for every key how to  *)
(* get back to what the key held when the batch began: a key of the        *)
(* rollback list held the entity listed there, a key of the other list     *)
(* held nothing and has the document with the listed $loki, and a key of   *)
(* neither list is as it was.                                              *)
(***************************************************************************)

\* What a collection holds under a key, and what clients see of collections.
EntityOf(c, k) == IF Found(c, k) # {} THEN FirstFound(c, k).ent ELSE NoEntity
ViewOf(cs) ==
    [t \in Tables |->
        LET names == {n \in DOMAIN cs : n[1] = t}
        IN [k \in Keys |->
               IF \E n \in names : Found(cs[n], k) # {}
               THEN FirstFound(cs[CHOOSE n \in names : Found(cs[n], k) # {}], k).ent
               ELSE NoEntity]]

Undoable(c, view, rollback, added, seen) ==
    /\ \A i \in DOMAIN rollback :
          /\ rollback[i].ent.key \in seen
          /\ rollback[i].ent = view[rollback[i].ent.key]
    /\ \A i, j \in DOMAIN rollback : rollback[i].ent.key = rollback[j].ent.key => i = j
    /\ \A j \in DOMAIN added :
          /\ added[j].ent.key \in seen
          /\ added[j].id <= c.last
          /\ view[added[j].ent.key] = NoEntity
          /\ \A doc \in c.docs : doc.id = added[j].id <=> doc.ent.key = added[j].ent.key
    /\ \A k \in Keys :
          /\ \A i \in DOMAIN rollback : rollback[i].ent.key # k
          /\ \A j \in DOMAIN added : added[j].ent.key # k
          => EntityOf(c, k) = view[k]

BatchInv ==
    batch # None =>
        /\ batch.name \in Tables \X {LowerCase}
        /\ before.view = [t \in Tables |-> [k \in Keys |-> before.view[t][k]]]
        /\ \A t \in Tables, k \in Keys :
              t # batch.name[1] \/ batch.name \notin DOMAIN collections
                 => ViewOf(collections)[t][k] = before.view[t][k]
        /\ batch.name \in DOMAIN collections =>
              Undoable(collections[batch.name], before.view[batch.name[1]],
                       transactionRollbackTheseEntities,
                       transactionDeleteTheseEntities, batch.seen)

\* A collection holds the entity of its document, or nothing.
LEMMA EntityOfDocument ==
    ASSUME NEW c, GoodCollection(c), NEW k \in Keys
    PROVE  /\ \A doc \in c.docs : doc.ent.key = k => EntityOf(c, k) = doc.ent
           /\ (\A doc \in c.docs : doc.ent.key # k) => EntityOf(c, k) = NoEntity
  <1>1. ASSUME NEW doc \in c.docs, doc.ent.key = k
        PROVE  EntityOf(c, k) = doc.ent
    <2>1. Found(c, k) # {}
      BY <1>1 DEF Found
    <2> QED
      BY <1>1, <2>1, FoundIsFirst DEF EntityOf
  <1>2. ASSUME \A doc \in c.docs : doc.ent.key # k
        PROVE  EntityOf(c, k) = NoEntity
    BY <1>2 DEF Found, EntityOf
  <1> QED
    BY <1>1, <1>2

\* Collections that agree on a key hold the same under it.
LEMMA EntityOfSame ==
    ASSUME NEW c, GoodCollection(c), NEW d, GoodCollection(d), NEW k \in Keys,
           \A doc : doc \in c.docs /\ doc.ent.key = k <=> doc \in d.docs /\ doc.ent.key = k
    PROVE  EntityOf(c, k) = EntityOf(d, k)
  <1>1. CASE \E doc \in c.docs : doc.ent.key = k
    BY <1>1, EntityOfDocument
  <1>2. CASE \A doc \in c.docs : doc.ent.key # k
    BY <1>2, EntityOfDocument
  <1> QED
    BY <1>1, <1>2

\* Of a table that exists under one spelling clients see its collection.
LEMMA ViewOfTable ==
    ASSUME NEW cs, NEW n \in DOMAIN cs, n[1] \in Tables,
           \A m \in DOMAIN cs : m[1] = n[1] => m = n, NEW k \in Keys
    PROVE  ViewOf(cs)[n[1]][k] = EntityOf(cs[n], k)
  <1> DEFINE names == {m \in DOMAIN cs : m[1] = n[1]}
  <1>1. names = {n}
    OBVIOUS
  <1>2. ViewOf(cs)[n[1]][k] =
           IF \E m \in names : Found(cs[m], k) # {}
           THEN FirstFound(cs[CHOOSE m \in names : Found(cs[m], k) # {}], k).ent
           ELSE NoEntity
    BY DEF ViewOf
  <1> HIDE DEF names
  <1>3. CASE Found(cs[n], k) # {}
    <2>1. (CHOOSE m \in names : Found(cs[m], k) # {}) = n
      BY <1>1, <1>3
    <2> QED
      BY <1>1, <1>2, <1>3, <2>1 DEF EntityOf
  <1>4. CASE Found(cs[n], k) = {}
    BY <1>1, <1>2, <1>4 DEF EntityOf
  <1> QED
    BY <1>3, <1>4

\* What clients see of a table depends on the collections of its name only.
LEMMA ViewOfOthers ==
    ASSUME NEW cs, NEW ds, NEW t \in Tables,
           {m \in DOMAIN ds : m[1] = t} = {m \in DOMAIN cs : m[1] = t},
           \A m \in DOMAIN cs : m[1] = t => ds[m] = cs[m]
    PROVE  ViewOf(ds)[t] = ViewOf(cs)[t]
  <1> DEFINE names == {m \in DOMAIN cs : m[1] = t}
  <1>1. \A m \in names : ds[m] = cs[m]
    OBVIOUS
  <1>2. {m \in DOMAIN ds : m[1] = t} = names
    OBVIOUS
  <1>3. \A k \in Keys : \A m \in names : Found(ds[m], k) # {} <=> Found(cs[m], k) # {}
    BY <1>1
  <1>4. ASSUME NEW k \in Keys
        PROVE  (IF \E m \in names : Found(ds[m], k) # {}
                THEN FirstFound(ds[CHOOSE m \in names : Found(ds[m], k) # {}], k).ent
                ELSE NoEntity)
               = (IF \E m \in names : Found(cs[m], k) # {}
                  THEN FirstFound(cs[CHOOSE m \in names : Found(cs[m], k) # {}], k).ent
                  ELSE NoEntity)
    <2> HIDE DEF names
    <2>1. (CHOOSE m \in names : Found(ds[m], k) # {}) = (CHOOSE m \in names : Found(cs[m], k) # {})
      BY <1>3
    <2>2. CASE \E m \in names : Found(cs[m], k) # {}
      <3>1. (CHOOSE m \in names : Found(cs[m], k) # {}) \in names
        BY <2>2
      <3> QED
        BY <1>1, <1>3, <2>1, <2>2, <3>1
    <2>3. CASE ~ \E m \in names : Found(cs[m], k) # {}
      BY <1>3, <2>3
    <2> QED
      BY <2>2, <2>3
  <1>5. ViewOf(ds)[t] = [k \in Keys |->
               IF \E m \in names : Found(ds[m], k) # {}
               THEN FirstFound(ds[CHOOSE m \in names : Found(ds[m], k) # {}], k).ent
               ELSE NoEntity]
    BY <1>2 DEF ViewOf
  <1>6. ViewOf(cs)[t] = [k \in Keys |->
               IF \E m \in names : Found(cs[m], k) # {}
               THEN FirstFound(cs[CHOOSE m \in names : Found(cs[m], k) # {}], k).ent
               ELSE NoEntity]
    BY DEF ViewOf
  <1> QED
    BY <1>4, <1>5, <1>6

\* What an operation on a key remembers of what it does: nothing if it
\* changes nothing, the document it replaces or removes, or the one it adds.
Recorded(c, k, o) ==
    /\ o.coll.last >= c.last
    /\ \A doc : doc.ent.key # k => (doc \in o.coll.docs <=> doc \in c.docs)
    /\ \A doc \in o.coll.docs : doc \notin c.docs =>
          doc.id > c.last \/ \E old \in c.docs : old.id = doc.id /\ old.ent.key = k
    /\ \/ o.rollback = <<>> /\ o.added = <<>> /\ o.coll.docs = c.docs
       \/ \E old \in c.docs :
             old.ent.key = k /\ o.rollback = <<old>> /\ o.added = <<>>
       \/ \E new \in o.coll.docs :
             /\ \A doc \in c.docs : doc.ent.key # k
             /\ new.ent.key = k /\ new.id = c.last + 1 /\ o.coll.last = c.last + 1
             /\ o.rollback = <<>> /\ o.added = <<new>>

LEMMA RefusedRecorded ==
    ASSUME NEW c, GoodCollection(c), NEW k
    PROVE  Recorded(c, k, Refused(c, <<>>))
  BY DEF GoodCollection, Refused, Recorded

LEMMA InsertRecorded ==
    ASSUME NEW c, GoodCollection(c), NEW k \in Keys, NEW ps, NEW e
    PROVE  Recorded(c, k, InsertTableEntity(c, k, ps, e))
  <1> DEFINE doc == Document(c.last + 1, Entity(k, ps, e))
  <1>1. CASE Found(c, k) # {}
    BY <1>1, RefusedRecorded DEF InsertTableEntity
  <1>2. CASE Found(c, k) = {}
    <2>1. doc.id = c.last + 1 /\ doc.ent.key = k
      BY DEF Document, Entity
    <2>2. \A d \in c.docs : d.ent.key # k
      BY <1>2 DEF Found
    <2>3. InsertTableEntity(c, k, ps, e) =
             [ok |-> TRUE, coll |-> [docs |-> c.docs \cup {doc}, last |-> c.last + 1],
              rollback |-> <<>>, added |-> <<doc>>]
      BY <1>2 DEF InsertTableEntity, Done
    <2>4. c.last \in Nat
      BY DEF GoodCollection
    <2> HIDE DEF doc
    <2> QED
      BY <2>1, <2>2, <2>3, <2>4 DEF Recorded
  <1> QED
    BY <1>1, <1>2

\* Refusing, replacing or removing the document of a key.
LEMMA ReplaceRecorded ==
    ASSUME NEW c, GoodCollection(c), NEW k \in Keys, NEW old \in c.docs,
           old.ent.key = k, NEW new, new.ent.key = k, NEW last \in Nat,
           last >= c.last, new.id = old.id \/ new.id > c.last
    PROVE  /\ Recorded(c, k, Refused(c, <<old>>))
           /\ Recorded(c, k, Done((c.docs \ {old}) \cup {new}, last, <<old>>, <<>>))
           /\ Recorded(c, k, Done(c.docs \ {old}, c.last, <<old>>, <<>>))
  <1>1. c.last \in Nat
    BY DEF GoodCollection
  <1>2. Recorded(c, k, Refused(c, <<old>>))
    BY <1>1 DEF Refused, Recorded
  <1>3. Recorded(c, k, Done((c.docs \ {old}) \cup {new}, last, <<old>>, <<>>))
    BY <1>1 DEF Done, Recorded
  <1>4. Recorded(c, k, Done(c.docs \ {old}, c.last, <<old>>, <<>>))
    BY <1>1 DEF Done, Recorded
  <1> QED
    BY <1>2, <1>3, <1>4

LEMMA UpdateRecorded ==
    ASSUME NEW c, GoodCollection(c), NEW k \in Keys, NEW ps, NEW m, NEW e
    PROVE  Recorded(c, k, UpdateTableEntity(c, k, ps, m, e))
  <1> DEFINE doc == FirstFound(c, k)
             new == Document(c.last + 1, Entity(k, ps, e))
  <1>1. CASE Found(c, k) = {}
    BY <1>1, RefusedRecorded DEF UpdateTableEntity
  <1>2. CASE Found(c, k) # {}
    <2>1. doc \in c.docs /\ doc.ent.key = k
      BY <1>2, FoundIsFirst
    <2>2. new.id = c.last + 1 /\ new.ent.key = k /\ c.last \in Nat
      BY DEF Document, Entity, GoodCollection
    <2>4. c.last + 1 \in Nat /\ c.last + 1 >= c.last /\ new.id > c.last
      BY <2>2
    <2>3. UpdateTableEntity(c, k, ps, m, e) =
            IF ~Matches(m, doc) THEN Refused(c, <<doc>>)
            ELSE Done((c.docs \ {doc}) \cup {new}, c.last + 1, <<doc>>, <<>>)
      BY <1>2 DEF UpdateTableEntity
    <2> HIDE DEF doc, new
    <2>5. /\ Recorded(c, k, Refused(c, <<doc>>))
          /\ Recorded(c, k, Done((c.docs \ {doc}) \cup {new}, c.last + 1, <<doc>>, <<>>))
      BY <2>1, <2>2, <2>4, ReplaceRecorded
    <2> QED
      BY <2>3, <2>5
  <1> QED
    BY <1>1, <1>2

LEMMA MergeRecorded ==
    ASSUME NEW c, GoodCollection(c), NEW k \in Keys, NEW ps, NEW m, NEW e
    PROVE  Recorded(c, k, MergeTableEntity(c, k, ps, m, e))
  <1> DEFINE doc == FirstFound(c, k)
             new == Merged(doc, ps, e)
  <1>1. CASE Found(c, k) = {}
    BY <1>1, RefusedRecorded DEF MergeTableEntity
  <1>2. CASE Found(c, k) # {}
    <2>1. doc \in c.docs /\ doc.ent.key = k /\ doc \in Documents
      BY <1>2, FoundIsFirst DEF GoodCollection
    <2>2. new.id = doc.id /\ new.ent.key = k /\ c.last \in Nat
      <3> HIDE DEF doc
      <3> QED
        BY <2>1 DEF Documents, Merged, GoodCollection
    <2>3. MergeTableEntity(c, k, ps, m, e) =
            IF ~Matches(m, doc) THEN Refused(c, <<doc>>)
            ELSE Done((c.docs \ {doc}) \cup {new}, c.last, <<doc>>, <<>>)
      BY <1>2 DEF MergeTableEntity
    <2> HIDE DEF doc, new
    <2>4. c.last >= c.last
      BY <2>2
    <2>5. /\ Recorded(c, k, Refused(c, <<doc>>))
          /\ Recorded(c, k, Done((c.docs \ {doc}) \cup {new}, c.last, <<doc>>, <<>>))
      BY <2>1, <2>2, <2>4, ReplaceRecorded
    <2> QED
      BY <2>3, <2>5
  <1> QED
    BY <1>1, <1>2

LEMMA UpsertRecorded ==
    ASSUME NEW c, GoodCollection(c), NEW k \in Keys, NEW ps, NEW m, NEW e
    PROVE  /\ Recorded(c, k, InsertOrUpdateTableEntity(c, k, ps, m, e))
           /\ Recorded(c, k, InsertOrMergeTableEntity(c, k, ps, m, e))
  BY InsertRecorded, UpdateRecorded, MergeRecorded
  DEF InsertOrUpdateTableEntity, InsertOrMergeTableEntity

LEMMA DeleteRecorded ==
    ASSUME NEW c, GoodCollection(c), NEW k \in Keys, NEW m
    PROVE  Recorded(c, k, DeleteTableEntity(c, k, m))
  <1> DEFINE doc == FirstFound(c, k)
  <1>1. CASE Found(c, k) = {} \/ ~Matches(m, doc)
    <2>1. DeleteTableEntity(c, k, m) = Refused(c, <<>>)
      BY <1>1 DEF DeleteTableEntity
    <2> QED
      BY <2>1, RefusedRecorded
  <1>2. CASE Found(c, k) # {} /\ Matches(m, doc)
    <2>1. doc \in c.docs /\ doc.ent.key = k
      BY <1>2, FoundIsFirst
    <2>2. DeleteTableEntity(c, k, m) = Done(c.docs \ {doc}, c.last, <<doc>>, <<>>)
      BY <1>2 DEF DeleteTableEntity
    <2>3. c.last \in Nat /\ c.last >= c.last
      BY DEF GoodCollection
    <2> HIDE DEF doc
    <2>4. Recorded(c, k, Done(c.docs \ {doc}, c.last, <<doc>>, <<>>))
      BY <2>1, <2>3, ReplaceRecorded
    <2> QED
      BY <2>2, <2>4
  <1> QED
    BY <1>1, <1>2

LEMMA QueryRecorded ==
    ASSUME NEW c, GoodCollection(c), NEW k \in Keys
    PROVE  LET o == QueryTableEntitiesWithPartitionAndRowKey(c, k)
           IN  o.coll.docs = c.docs /\ o.coll.last = c.last /\ o.rollback = <<>> /\ o.added = <<>>
  BY DEF QueryTableEntitiesWithPartitionAndRowKey, Refused, Done

\* The list t is s with one more element x.
Extends(t, s, x) ==
    /\ \A i \in DOMAIN t : (i \in DOMAIN s /\ t[i] = s[i]) \/ t[i] = x
    /\ \A i \in DOMAIN s : i \in DOMAIN t /\ t[i] = s[i]
    /\ \E i \in DOMAIN t : t[i] = x
    /\ \A i, j \in DOMAIN t : i \notin DOMAIN s /\ j \notin DOMAIN s => i = j

\* A list that an operation adds a document to.
LEMMA OneMore ==
    ASSUME NEW s \in Seq(Documents), NEW x \in Documents
    PROVE  Extends(s \o <<x>>, s, x)
  <1> DEFINE t == s \o <<x>>
  <1>1. /\ Len(s) \in Nat /\ DOMAIN s = 1..Len(s)
        /\ DOMAIN t = 1..Len(s) + 1
        /\ \A i \in 1..Len(s) : t[i] = s[i]
        /\ t[Len(s) + 1] = x
    OBVIOUS
  <1> HIDE DEF t
  <1>2. Extends(t, s, x)
    BY <1>1 DEF Extends
  <1> QED
    BY <1>2 DEF t

\* An operation on a key that the batch has not touched keeps the way back.
LEMMA UndoableStep ==
    ASSUME NEW c, GoodCollection(c), NEW view, NEW R \in Seq(Documents),
           NEW A \in Seq(Documents), NEW seen \in SUBSET Keys, NEW k \in Keys,
           k \notin seen, Undoable(c, view, R, A, seen),
           NEW o, GoodOutcome(o), Recorded(c, k, o)
    PROVE  Undoable(o.coll, view, R \o o.rollback, A \o o.added, seen \cup {k})
  <1>1. GoodCollection(o.coll) /\ c.last \in Nat /\ o.coll.last \in Nat
    BY DEF GoodOutcome, GoodCollection
  <1>2. EntityOf(c, k) = view[k]
    BY DEF Undoable
  <1>3. \A x \in Keys \ {k} : EntityOf(o.coll, x) = EntityOf(c, x)
    <2> TAKE x \in Keys \ {k}
    <2>1. \A doc : doc \in o.coll.docs /\ doc.ent.key = x <=> doc \in c.docs /\ doc.ent.key = x
      BY DEF Recorded
    <2> QED
      BY <1>1, <2>1, EntityOfSame
  <1>4. ASSUME NEW j \in DOMAIN A
        PROVE  /\ A[j].ent.key \in seen \cup {k}
               /\ A[j].id <= o.coll.last
               /\ view[A[j].ent.key] = NoEntity
               /\ \A doc \in o.coll.docs : doc.id = A[j].id <=> doc.ent.key = A[j].ent.key
    <2>1. /\ A[j].ent.key \in seen /\ A[j].id <= c.last /\ view[A[j].ent.key] = NoEntity
          /\ \A doc \in c.docs : doc.id = A[j].id <=> doc.ent.key = A[j].ent.key
      BY <1>4 DEF Undoable
    <2> DEFINE added == A[j]
    <2>a. added \in Documents
      BY <1>4
    <2> HIDE DEF added
    <2>b. added.id \in Nat
      BY <2>a DEF Documents
    <2>2. A[j].id \in Nat
      BY <2>b DEF added
    <2>3. A[j].id <= o.coll.last
      BY <1>1, <2>1, <2>2 DEF Recorded
    <2>4. ASSUME NEW doc \in o.coll.docs
          PROVE  doc.id = A[j].id <=> doc.ent.key = A[j].ent.key
      <3>1. CASE doc \in c.docs
        BY <2>1, <3>1
      <3>2. CASE doc \notin c.docs
        <4>1. doc.ent.key = k /\ doc.id \in Nat
          BY <1>1, <2>4, <3>2 DEF Recorded, GoodCollection, Documents
        <4>2. doc.id > c.last \/ \E old \in c.docs : old.id = doc.id /\ old.ent.key = k
          BY <2>4, <3>2 DEF Recorded
        <4>3. doc.id # A[j].id
          BY <1>1, <2>1, <2>2, <4>1, <4>2
        <4> QED
          BY <2>1, <4>1, <4>3
      <3> QED
        BY <3>1, <3>2
    <2> QED
      BY <2>1, <2>3, <2>4
  <1>5. /\ \A i \in DOMAIN R : R[i].ent.key \in seen \cup {k} /\ R[i].ent = view[R[i].ent.key]
        /\ \A i, j \in DOMAIN R : R[i].ent.key = R[j].ent.key => i = j
    BY DEF Undoable
  <1>6. \A x \in Keys \ {k} :
           /\ \A i \in DOMAIN R : R[i].ent.key # x
           /\ \A j \in DOMAIN A : A[j].ent.key # x
           => EntityOf(o.coll, x) = view[x]
    BY <1>3 DEF Undoable
  <1>7. CASE o.rollback = <<>> /\ o.added = <<>> /\ o.coll.docs = c.docs
    <2>1. R \o o.rollback = R /\ A \o o.added = A
      BY <1>7
    <2>2. EntityOf(o.coll, k) = view[k]
      BY <1>1, <1>2, <1>7, EntityOfSame
    <2>3. Undoable(o.coll, view, R, A, seen \cup {k})
      BY <1>4, <1>5, <1>6, <2>2 DEF Undoable
    <2> QED
      BY <2>1, <2>3
  <1>8. CASE \E old \in c.docs :
                old.ent.key = k /\ o.rollback = <<old>> /\ o.added = <<>>
    <2>1. PICK old \in c.docs : old.ent.key = k /\ o.rollback = <<old>> /\ o.added = <<>>
      BY <1>8
    <2>2. old \in Documents /\ old.ent = view[k]
      BY <1>2, <2>1, EntityOfDocument DEF GoodCollection
    <2> DEFINE R1 == R \o <<old>>
    <2>3. /\ \A i \in DOMAIN R1 : (i \in DOMAIN R /\ R1[i] = R[i]) \/ R1[i] = old
          /\ \A i \in DOMAIN R : i \in DOMAIN R1 /\ R1[i] = R[i]
          /\ \E i \in DOMAIN R1 : R1[i] = old
          /\ \A i, j \in DOMAIN R1 : i \notin DOMAIN R /\ j \notin DOMAIN R => i = j
      <3>1. Extends(R \o <<old>>, R, old)
        BY <2>2, OneMore
      <3>2. Extends(R1, R, old)
        BY <3>1 DEF R1
      <3> HIDE DEF R1
      <3> QED
        BY <3>2 DEF Extends
    <2>4. R \o o.rollback = R1 /\ A \o o.added = A
      BY <2>1
    <2> HIDE DEF R1
    <2>5. \A i \in DOMAIN R1 : R1[i].ent.key \in seen \cup {k} /\ R1[i].ent = view[R1[i].ent.key]
      BY <1>5, <2>1, <2>2, <2>3
    <2>a. \A i \in DOMAIN R : R[i].ent.key # k
      BY DEF Undoable
    <2>b. \A i, j \in DOMAIN R1 : R1[i].ent.key = R1[j].ent.key => i = j
      <3> SUFFICES ASSUME NEW i \in DOMAIN R1, NEW j \in DOMAIN R1, R1[i].ent.key = R1[j].ent.key
                   PROVE  i = j
        OBVIOUS
      <3>1. CASE i \in DOMAIN R /\ j \in DOMAIN R
        <4>1. R1[i] = R[i] /\ R1[j] = R[j]
          BY <2>3, <3>1
        <4> QED
          BY <1>5, <3>1, <4>1
      <3>2. CASE i \in DOMAIN R /\ j \notin DOMAIN R
        BY <2>1, <2>3, <2>a, <3>2
      <3>3. CASE i \notin DOMAIN R /\ j \in DOMAIN R
        BY <2>1, <2>3, <2>a, <3>3
      <3>4. CASE i \notin DOMAIN R /\ j \notin DOMAIN R
        BY <2>3, <3>4
      <3> QED
        BY <3>1, <3>2, <3>3, <3>4
    <2>6. \A x \in Keys :
             /\ \A i \in DOMAIN R1 : R1[i].ent.key # x
             /\ \A j \in DOMAIN A : A[j].ent.key # x
             => EntityOf(o.coll, x) = view[x]
      BY <1>6, <2>1, <2>3
    <2>7. Undoable(o.coll, view, R1, A, seen \cup {k})
      BY <1>4, <2>5, <2>6, <2>b DEF Undoable
    <2> QED
      BY <2>4, <2>7
  <1>9. CASE \E new \in o.coll.docs :
                /\ \A doc \in c.docs : doc.ent.key # k
                /\ new.ent.key = k /\ new.id = c.last + 1 /\ o.coll.last = c.last + 1
                /\ o.rollback = <<>> /\ o.added = <<new>>
    <2>1. PICK new \in o.coll.docs :
                /\ \A doc \in c.docs : doc.ent.key # k
                /\ new.ent.key = k /\ new.id = c.last + 1 /\ o.coll.last = c.last + 1
                /\ o.rollback = <<>> /\ o.added = <<new>>
      BY <1>9
    <2>2. new \in Documents /\ view[k] = NoEntity
      BY <1>1, <1>2, <2>1, EntityOfDocument DEF GoodCollection
    <2> DEFINE A1 == A \o <<new>>
    <2>3. /\ \A i \in DOMAIN A1 : (i \in DOMAIN A /\ A1[i] = A[i]) \/ A1[i] = new
          /\ \A i \in DOMAIN A : i \in DOMAIN A1 /\ A1[i] = A[i]
          /\ \E i \in DOMAIN A1 : A1[i] = new
      <3>1. Extends(A \o <<new>>, A, new)
        BY <2>2, OneMore
      <3>2. Extends(A1, A, new)
        BY <3>1 DEF A1
      <3> HIDE DEF A1
      <3> QED
        BY <3>2 DEF Extends
    <2>4. R \o o.rollback = R /\ A \o o.added = A1
      BY <2>1
    <2>5. /\ new.ent.key \in seen \cup {k} /\ new.id <= o.coll.last
          /\ view[new.ent.key] = NoEntity
          /\ \A doc \in o.coll.docs : doc.id = new.id <=> doc.ent.key = new.ent.key
      BY <1>1, <2>1, <2>2 DEF GoodCollection
    <2> HIDE DEF A1
    <2>6. ASSUME NEW j \in DOMAIN A1
          PROVE  /\ A1[j].ent.key \in seen \cup {k} /\ A1[j].id <= o.coll.last
                 /\ view[A1[j].ent.key] = NoEntity
                 /\ \A doc \in o.coll.docs : doc.id = A1[j].id <=> doc.ent.key = A1[j].ent.key
      <3>1. CASE j \in DOMAIN A /\ A1[j] = A[j]
        BY <1>4, <3>1
      <3>2. CASE A1[j] = new
        BY <2>5, <3>2
      <3> QED
        BY <2>3, <2>6, <3>1, <3>2
    <2>7. \A x \in Keys :
             /\ \A i \in DOMAIN R : R[i].ent.key # x
             /\ \A j \in DOMAIN A1 : A1[j].ent.key # x
             => EntityOf(o.coll, x) = view[x]
      BY <1>6, <2>1, <2>3
    <2>8. Undoable(o.coll, view, R, A1, seen \cup {k})
      BY <1>5, <2>6, <2>7 DEF Undoable
    <2> QED
      BY <2>4, <2>8
  <1> QED
    BY <1>7, <1>8, <1>9 DEF Recorded

\* Reading changes nothing, and a key may be marked as seen.
LEMMA UndoableSame ==
    ASSUME NEW c, GoodCollection(c), NEW view, NEW R, NEW A, NEW seen, NEW more,
           seen \subseteq more, Undoable(c, view, R, A, seen),
           NEW d, GoodCollection(d), d.docs = c.docs, d.last = c.last
    PROVE  Undoable(d, view, R, A, more)
  <1>1. \A k \in Keys : EntityOf(d, k) = EntityOf(c, k)
    BY EntityOfSame
  <1> QED
    BY <1>1 DEF Undoable

\* The rollback restores every key of the collection.
LEMMA RollbackRestores ==
    ASSUME NEW c, GoodCollection(c), NEW view, NEW seen,
           transactionRollbackTheseEntities \in Seq(Documents),
           transactionDeleteTheseEntities \in Seq(Documents),
           Undoable(c, view, transactionRollbackTheseEntities,
                    transactionDeleteTheseEntities, seen)
    PROVE  LET d == RemoveEntitiesAddedInBatch(RollbackEntityChanges(c))
           IN  GoodCollection(d) /\ \A k \in Keys : EntityOf(d, k) = view[k]
  <1> DEFINE R == transactionRollbackTheseEntities
             A == transactionDeleteTheseEntities
             b == RollbackEntityChanges(c)
             d == RemoveEntitiesAddedInBatch(b)
             wins == {i \in DOMAIN R : \A j \in DOMAIN R : j > i => R[j].ent.key # R[i].ent.key}
  <1>1. GoodCollection(b)
    BY RollbackGood
  <1>2. b = [docs |-> b.docs, last |-> b.last]
    BY DEF RollbackEntityChanges
  <1>3. b.docs = {doc \in c.docs : \A i \in DOMAIN R : R[i].ent.key # doc.ent.key}
                 \cup {Document(c.last + i, R[i].ent) : i \in wins}
    BY DEF RollbackEntityChanges
  <1>4. DOMAIN R \subseteq Nat \ {0} /\ c.last \in Nat
    BY DEF GoodCollection
  <1>5. wins = DOMAIN R
    <2>1. \A i, j \in DOMAIN R : R[i].ent.key = R[j].ent.key => i = j
      BY DEF Undoable
    <2>2. \A i \in DOMAIN R : i \in Nat
      BY <1>4
    <2> HIDE DEF R
    <2>3. \A i \in DOMAIN R : ~(i > i)
      BY <2>2
    <2> QED
      BY <2>1, <2>3
  <1> HIDE DEF b, wins
  <1>6. d.docs = {doc \in b.docs : \A j \in DOMAIN A : A[j].id # doc.id}
    BY <1>2 DEF RemoveEntitiesAddedInBatch
  <1>7. GoodCollection(d)
    BY <1>1, <1>2, RemoveGood
  <1> HIDE DEF d
  <1>8. \A doc : doc \in b.docs <=>
           \/ doc \in c.docs /\ \A i \in DOMAIN R : R[i].ent.key # doc.ent.key
           \/ \E i \in DOMAIN R : doc = Document(c.last + i, R[i].ent)
    BY <1>3, <1>5
  <1>9. \A j \in DOMAIN A : A[j].id \in Nat /\ A[j].id <= c.last
    <2> TAKE j \in DOMAIN A
    <2> DEFINE added == A[j]
    <2>1. added \in Documents
      OBVIOUS
    <2> HIDE DEF added
    <2>2. added.id \in Nat
      BY <2>1 DEF Documents
    <2>3. A[j].id <= c.last
      BY DEF Undoable
    <2> QED
      BY <2>2, <2>3 DEF added
  <1>10. ASSUME NEW k \in Keys
         PROVE  EntityOf(d, k) = view[k]
    <2>1. CASE \E i \in DOMAIN R : R[i].ent.key = k
      <3>1. PICK i \in DOMAIN R : R[i].ent.key = k
        BY <2>1
      <3> DEFINE doc == Document(c.last + i, R[i].ent)
      <3>2. doc.id = c.last + i /\ doc.ent = R[i].ent
        BY DEF Document
      <3>3. doc \in b.docs
        BY <1>8
      <3> HIDE DEF doc
      <3>4. \A j \in DOMAIN A : A[j].id # doc.id
        BY <1>4, <1>9, <3>2
      <3>5. doc \in d.docs /\ doc.ent.key = k
        BY <1>6, <3>1, <3>2, <3>3, <3>4
      <3>6. EntityOf(d, k) = doc.ent
        BY <1>7, <3>5, EntityOfDocument
      <3>7. R[i].ent = view[k]
        BY <3>1 DEF Undoable
      <3> QED
        BY <3>2, <3>6, <3>7
    <2>2. CASE /\ \A i \in DOMAIN R : R[i].ent.key # k
               /\ \E j \in DOMAIN A : A[j].ent.key = k
      <3>1. PICK j \in DOMAIN A : A[j].ent.key = k
        BY <2>2
      <3>2. /\ view[k] = NoEntity
            /\ \A doc \in c.docs : doc.id = A[j].id <=> doc.ent.key = k
        BY <3>1 DEF Undoable
      <3>3. ASSUME NEW doc \in d.docs, doc.ent.key = k
            PROVE  FALSE
        <4>1. doc \in b.docs /\ A[j].id # doc.id
          BY <1>6, <3>3
        <4>2. doc \notin c.docs
          BY <3>2, <3>3, <4>1
        <4>3. PICK i \in DOMAIN R : doc = Document(c.last + i, R[i].ent)
          BY <1>8, <4>1, <4>2
        <4>4. doc.ent = R[i].ent
          BY <4>3 DEF Document
        <4> QED
          BY <2>2, <3>3, <4>4
      <3> QED
        BY <1>7, <3>2, <3>3, EntityOfDocument
    <2>3. CASE /\ \A i \in DOMAIN R : R[i].ent.key # k
               /\ \A j \in DOMAIN A : A[j].ent.key # k
      <3>1. EntityOf(c, k) = view[k]
        BY <2>3 DEF Undoable
      <3>2. ASSUME NEW doc, doc \in c.docs, doc.ent.key = k
            PROVE  doc \in d.docs
        <4>1. doc \in b.docs
          BY <1>8, <2>3, <3>2
        <4>2. \A j \in DOMAIN A : A[j].id # doc.id
          BY <2>3, <3>2 DEF Undoable
        <4> QED
          BY <1>6, <4>1, <4>2
      <3>3. ASSUME NEW doc, doc \in d.docs, doc.ent.key = k
            PROVE  doc \in c.docs
        <4>1. doc \in b.docs
          BY <1>6, <3>3
        <4>2. ASSUME NEW i \in DOMAIN R, doc = Document(c.last + i, R[i].ent)
              PROVE  FALSE
          BY <2>3, <3>3, <4>2 DEF Document
        <4> QED
          BY <1>8, <4>1, <4>2
      <3>4. EntityOf(d, k) = EntityOf(c, k)
        BY <1>7, <3>2, <3>3, EntityOfSame
      <3> QED
        BY <3>1, <3>4
    <2> QED
      BY <2>1, <2>2, <2>3
  <1> QED
    BY <1>7, <1>10 DEF d, b

\* What clients see is given by the collections alone.
LEMMA ViewIsViewOf == View = ViewOf(collections) /\ View' = ViewOf(collections')
  BY DEF View, ViewOf

\* The view is a function on tables and keys.
LEMMA ViewOfType ==
    ASSUME NEW cs
    PROVE  ViewOf(cs) = [t \in Tables |-> [k \in Keys |-> ViewOf(cs)[t][k]]]
  BY DEF ViewOf

\* No two collections belong to one table.
LEMMA OneCollection ==
    ASSUME CollectionsMatch
    PROVE  \A m, n \in DOMAIN collections : m[1] = n[1] => m = n
  BY DEF CollectionsMatch

\* Writing one collection leaves the other tables as they were.
LEMMA OthersUnchanged ==
    ASSUME NEW n, NEW d, collections' = [collections EXCEPT ![n] = d]
    PROVE  \A t \in Tables : t # n[1] => ViewOf(collections')[t] = ViewOf(collections)[t]
  <1> SUFFICES ASSUME NEW t \in Tables, t # n[1]
               PROVE  ViewOf(collections')[t] = ViewOf(collections)[t]
    OBVIOUS
  <1> DEFINE cs == collections
             ds == collections'
  <1>1. DOMAIN ds = DOMAIN cs /\ \A m \in DOMAIN cs : m[1] = t => ds[m] = cs[m]
    OBVIOUS
  <1> HIDE DEF cs, ds
  <1>2. {m \in DOMAIN ds : m[1] = t} = {m \in DOMAIN cs : m[1] = t}
    BY <1>1
  <1>3. ViewOf(ds)[t] = ViewOf(cs)[t]
    BY <1>1, <1>2, ViewOfOthers
  <1> QED
    BY <1>3 DEF cs, ds

\* A failed batch leaves what was there before.
LEMMA FailedBatchRestores ==
    ASSUME WellFormed, BatchInv, batch # None, batch.failed, EndBatchTransaction
    PROVE  View' = before.view
  <1>1. before.view = [t \in Tables |-> [k \in Keys |-> before.view[t][k]]]
    BY DEF BatchInv
  <1>2. ViewOf(collections') = [t \in Tables |-> [k \in Keys |-> ViewOf(collections')[t][k]]]
    BY ViewOfType
  <1> SUFFICES ASSUME NEW t \in Tables, NEW k \in Keys
               PROVE  ViewOf(collections')[t][k] = before.view[t][k]
    BY <1>1, <1>2, ViewIsViewOf
  <1> DEFINE n == batch.name
  <1>3. CASE n \notin DOMAIN collections
    <2>1. collections' = collections
      BY <1>3 DEF EndBatchTransaction
    <2> QED
      BY <1>3, <2>1 DEF BatchInv
  <1>4. CASE n \in DOMAIN collections
    <2> DEFINE d == RemoveEntitiesAddedInBatch(RollbackEntityChanges(collections[n]))
    <2>1. collections' = [collections EXCEPT ![n] = d]
      BY <1>4 DEF EndBatchTransaction
    <2>2. GoodCollection(d) /\ \A x \in Keys : EntityOf(d, x) = before.view[n[1]][x]
      <3>1. GoodCollection(collections[n])
        BY <1>4, CollectionsGood DEF WellFormed
      <3>2. Undoable(collections[n], before.view[n[1]], transactionRollbackTheseEntities,
                     transactionDeleteTheseEntities, batch.seen)
        BY <1>4 DEF BatchInv
      <3> QED
        BY <3>1, <3>2, RollbackRestores DEF WellFormed, TypeOK
    <2> HIDE DEF d
    <2>3. CASE t # n[1]
      <3>1. ViewOf(collections')[t] = ViewOf(collections)[t]
        <4> HIDE DEF n
        <4> QED
          BY <2>1, <2>3, OthersUnchanged
      <3>2. ViewOf(collections)[t][k] = before.view[t][k]
        BY <2>3 DEF BatchInv
      <3> QED
        BY <3>1, <3>2
    <2>4. CASE t = n[1]
      <3> DEFINE ds == collections'
      <3>1. n \in DOMAIN ds /\ ds[n] = d /\ \A m \in DOMAIN ds : m[1] = n[1] => m = n
        BY <1>4, <2>1, OneCollection DEF WellFormed
      <3> HIDE DEF ds
      <3>2. ViewOf(ds)[n[1]][k] = EntityOf(ds[n], k)
        BY <2>4, <3>1, ViewOfTable
      <3> QED
        BY <2>2, <2>4, <3>1, <3>2 DEF ds
    <2> QED
      BY <2>3, <2>4
  <1> QED
    BY <1>3, <1>4

\* A batch that names one table, in lower case, works on the collection
\* that its rollback asks for.
LEMMA DispatchKeepsBatchInv ==
    ASSUME WellFormed, BatchInv, WellFormed', batch # None,
           OneTableBatch, BatchCases = {LowerCase},
           NEW name \in Tables \X BatchCases, NEW keys \in SUBSET Keys,
           NEW o, NEW spent, DispatchBatchRequest(name, keys, o, spent),
           Exists(name) =>
              /\ GoodOutcome(o)
              /\ \/ \E k \in Keys : keys = {k} /\ Recorded(Collection(name), k, o)
                 \/ /\ keys = {}
                    /\ o.coll.docs = Collection(name).docs
                    /\ o.coll.last = Collection(name).last
                    /\ o.rollback = <<>> /\ o.added = <<>>
    PROVE  BatchInv'
  <1> DEFINE n == batch.name
             R == transactionRollbackTheseEntities
             A == transactionDeleteTheseEntities
             refused == ~Exists(name) \/ keys \cap batch.seen # {}
  <1>1. batch \in Batches
    BY DEF WellFormed, TypeOK
  <1>2. name = n /\ CollectionName(name) = n /\ n \in Tables \X {LowerCase}
    BY DEF DispatchBatchRequest, CollectionName, Lower
  <1>3. batch'.name = n /\ batch'.seen = batch.seen \cup keys /\ before' = before
    BY <1>1 DEF DispatchBatchRequest, Batches
  <1>4. batch.seen \in SUBSET Keys /\ R \in Seq(Documents) /\ A \in Seq(Documents)
    BY <1>1 DEF WellFormed, TypeOK, Batches
  <1>5. CASE refused
    <2>1. collections' = collections /\ R' = R /\ A' = A
      BY <1>5 DEF DispatchBatchRequest, lists
    <2>2. ASSUME n \in DOMAIN collections
          PROVE  Undoable(collections[n], before.view[n[1]], R, A, batch.seen \cup keys)
      <3>1. GoodCollection(collections[n])
        BY <2>2, CollectionsGood DEF WellFormed
      <3>2. Undoable(collections[n], before.view[n[1]], R, A, batch.seen)
        BY <2>2 DEF BatchInv
      <3> HIDE DEF n, R, A
      <3> QED
        BY <3>1, <3>2, UndoableSame
    <2> QED
      BY <1>2, <1>3, <2>1, <2>2 DEF BatchInv
  <1>6. CASE ~refused
    <2> DEFINE c == collections[n]
    <2>1. /\ collections' = [collections EXCEPT ![n] = o.coll]
          /\ R' = R \o o.rollback
          /\ A' = A \o o.added
      BY <1>2, <1>6 DEF DispatchBatchRequest
    <2>2. /\ n \in DOMAIN collections /\ Collection(name) = c /\ GoodCollection(c)
          /\ GoodOutcome(o) /\ keys \cap batch.seen = {}
      BY <1>2, <1>6, CollectionsGood DEF Exists, Collection, WellFormed
    <2>3. Undoable(c, before.view[n[1]], R, A, batch.seen)
      BY <2>2 DEF BatchInv
    <2>4. Undoable(o.coll, before.view[n[1]], R \o o.rollback, A \o o.added, batch.seen \cup keys)
      <3>1. ASSUME NEW k \in Keys, keys = {k}, Recorded(c, k, o)
            PROVE  Undoable(o.coll, before.view[n[1]], R \o o.rollback, A \o o.added,
                            batch.seen \cup keys)
        <4>1. k \notin batch.seen
          BY <2>2, <3>1
        <4> HIDE DEF c, n, R, A
        <4> QED
          BY <1>4, <2>2, <2>3, <3>1, <4>1, UndoableStep
      <3>2. CASE /\ keys = {}
                 /\ o.coll.docs = c.docs /\ o.coll.last = c.last
                 /\ o.rollback = <<>> /\ o.added = <<>>
        <4>1. R \o o.rollback = R /\ A \o o.added = A
          BY <1>4, <3>2
        <4>2. GoodCollection(o.coll) /\ batch.seen \subseteq batch.seen \cup keys
          BY <2>2 DEF GoodOutcome
        <4> HIDE DEF c, n, R, A
        <4>3. Undoable(o.coll, before.view[n[1]], R, A, batch.seen \cup keys)
          BY <2>2, <2>3, <3>2, <4>2, UndoableSame
        <4> QED
          BY <4>1, <4>3
      <3>3. Exists(name)
        BY <1>6
      <3> QED
        BY <2>2, <3>1, <3>2, <3>3
    <2>5. \A t \in Tables : t # n[1] => ViewOf(collections')[t] = ViewOf(collections)[t]
      <3> HIDE DEF c, n, R, A, refused
      <3> QED
        BY <2>1, OthersUnchanged
    <2>6. n \in DOMAIN collections' /\ collections'[n] = o.coll
      BY <2>1, <2>2
    <2>7. \A t \in Tables, k \in Keys : t # n[1] => ViewOf(collections')[t][k] = before.view[t][k]
      BY <2>5 DEF BatchInv
    <2>8. before.view = [t \in Tables |-> [k \in Keys |-> before.view[t][k]]]
      BY DEF BatchInv
    <2>9. Undoable(collections'[n], before.view[n[1]], R', A', batch.seen \cup keys)
      BY <2>1, <2>4, <2>6
    <2> HIDE DEF c
    <2> QED
      BY <1>2, <1>3, <2>6, <2>7, <2>8, <2>9 DEF BatchInv
  <1> QED
    BY <1>5, <1>6

LEMMA BatchRequestKeepsBatchInv ==
    ASSUME WellFormed, BatchInv, WellFormed', batch # None, etags < MaxEtags,
           OneTableBatch, BatchCases = {LowerCase},
           NEW name \in Tables \X BatchCases, NEW k \in Keys, BatchRequest(name, k)
    PROVE  BatchInv'
  <1> DEFINE c == Collection(name)
  <1>1. Exists(name) => GoodCollection(c)
    BY CollectionsGood DEF WellFormed, Collection, Exists
  <1>2. \A e \in NewEtags : e \in 0..MaxEtags /\ Spent(e) \in {0, 1}
    BY BoundsAssumption DEF WellFormed, TypeOK, NewEtags, Spent
  <1>3. {k} \in SUBSET Keys /\ {} \in SUBSET Keys
    OBVIOUS
  <1>4. ASSUME NEW o, NEW spent, DispatchBatchRequest(name, {k}, o, spent),
               Exists(name) => GoodOutcome(o) /\ Recorded(c, k, o)
        PROVE  BatchInv'
    BY <1>3, <1>4, DispatchKeepsBatchInv
  <1>5. ASSUME NEW ps \in SUBSET Props, NEW e \in NewEtags, HandleBatchInsert(name, k, ps, e)
        PROVE  BatchInv'
    <2> DEFINE o == InsertTableEntity(c, k, ps, e)
    <2>1. Exists(name) => GoodOutcome(o) /\ Recorded(c, k, o)
      <3> HIDE DEF c
      <3> QED
        BY <1>1, <1>2, InsertGood, InsertRecorded
    <2>2. DispatchBatchRequest(name, {k}, o, Spent(e))
      BY <1>5 DEF HandleBatchInsert
    <2> HIDE DEF o, c
    <2> QED
      BY <1>4, <2>1, <2>2
  <1>6. ASSUME NEW ps \in SUBSET Props, NEW e \in NewEtags, NEW m \in IfMatches, HandleBatchUpdate(name, k, ps, m, e)
        PROVE  BatchInv'
    <2> DEFINE o == InsertOrUpdateTableEntity(c, k, ps, m, e)
    <2>1. Exists(name) => GoodOutcome(o) /\ Recorded(c, k, o)
      <3> HIDE DEF c
      <3> QED
        BY <1>1, <1>2, UpsertGood, UpsertRecorded
    <2>2. DispatchBatchRequest(name, {k}, o, Spent(e))
      BY <1>6 DEF HandleBatchUpdate
    <2> HIDE DEF o, c
    <2> QED
      BY <1>4, <2>1, <2>2
  <1>7. ASSUME NEW ps \in SUBSET Props, NEW e \in NewEtags, NEW m \in IfMatches, HandleBatchMerge(name, k, ps, m, e)
        PROVE  BatchInv'
    <2> DEFINE o == InsertOrMergeTableEntity(c, k, ps, m, e)
    <2>1. Exists(name) => GoodOutcome(o) /\ Recorded(c, k, o)
      <3> HIDE DEF c
      <3> QED
        BY <1>1, <1>2, UpsertGood, UpsertRecorded
    <2>2. DispatchBatchRequest(name, {k}, o, Spent(e))
      BY <1>7 DEF HandleBatchMerge
    <2> HIDE DEF o, c
    <2> QED
      BY <1>4, <2>1, <2>2
  <1>8. ASSUME NEW m \in IfMatches, HandleBatchDelete(name, k, m)
        PROVE  BatchInv'
    <2> DEFINE o == DeleteTableEntity(c, k, IF m = None THEN Wildcard ELSE m)
    <2>1. Exists(name) => GoodOutcome(o) /\ Recorded(c, k, o)
      <3> HIDE DEF c
      <3> QED
        BY <1>1, DeleteGood, DeleteRecorded
    <2>2. DispatchBatchRequest(name, {k}, o, 0)
      BY <1>8 DEF HandleBatchDelete
    <2> HIDE DEF o, c
    <2> QED
      BY <1>4, <2>1, <2>2
  <1>9. ASSUME HandleBatchQuery(name, k)
        PROVE  BatchInv'
    <2> DEFINE o == QueryTableEntitiesWithPartitionAndRowKey(c, k)
    <2>1. Exists(name) => /\ GoodOutcome(o)
                          /\ o.coll.docs = c.docs /\ o.coll.last = c.last
                          /\ o.rollback = <<>> /\ o.added = <<>>
      <3> HIDE DEF c
      <3> QED
        BY <1>1, QueryGood, QueryRecorded
    <2>2. DispatchBatchRequest(name, {}, o, 0)
      BY <1>9 DEF HandleBatchQuery
    <2> HIDE DEF o
    <2> QED
      BY <1>3, <2>1, <2>2, DispatchKeepsBatchInv
  <1> QED
    BY <1>5, <1>6, <1>7, <1>8, <1>9 DEF BatchRequest

\* A batch begins with empty lists and what clients see.
LEMMA BeginBatchStarts ==
    ASSUME WellFormed, BatchCases = {LowerCase}, NEW name \in Tables \X BatchCases,
           BeginBatchTransaction(name)
    PROVE  BatchInv'
  <1>1. /\ batch' = [name |-> name, seen |-> {}, count |-> 0, failed |-> FALSE]
        /\ before'.view = ViewOf(collections) /\ collections' = collections
        /\ transactionRollbackTheseEntities' = <<>>
        /\ transactionDeleteTheseEntities' = <<>>
    BY ViewIsViewOf DEF BeginBatchTransaction, lists
  <1>2. batch'.name = name /\ name[1] \in Tables
    BY <1>1
  <1>3. before'.view = [t \in Tables |-> [k \in Keys |-> before'.view[t][k]]]
    BY <1>1, ViewOfType
  <1>4. ASSUME name \in DOMAIN collections
        PROVE  Undoable(collections[name], before'.view[name[1]], <<>>, <<>>, {})
    <2>1. \A m \in DOMAIN collections : m[1] = name[1] => m = name
      BY <1>4, OneCollection DEF WellFormed
    <2>2. \A k \in Keys : EntityOf(collections[name], k) = before'.view[name[1]][k]
      BY <1>1, <1>2, <1>4, <2>1, ViewOfTable
    <2> QED
      BY <2>2 DEF Undoable
  <1>5. batch'.seen = {}
    BY <1>1
  <1> QED
    BY <1>1, <1>2, <1>3, <1>4, <1>5 DEF BatchInv

-----------------------------------------------------------------------------
\* While a batch runs the lists tell how to undo it.
LEMMA BatchUndoable ==
    ASSUME OneTableBatch, BatchCases = {LowerCase}
    PROVE  Spec => []BatchInv
  <1>1. Init => BatchInv
    BY DEF Init, BatchInv
  <1>2. WellFormed /\ BatchInv /\ WellFormed' /\ [Next]_vars => BatchInv'
    <2> SUFFICES ASSUME WellFormed, BatchInv, WellFormed', [Next]_vars
                 PROVE  BatchInv'
      OBVIOUS
    <2>1. CASE batch' = None
      BY <2>1 DEF BatchInv
    <2>2. ASSUME batch = None, NEW name \in Names,
                 \/ CreateTable(name) \/ DeleteTable(name)
                 \/ \E policies \in 0..MaxPolicies + 1 : SetAccessPolicy(name, policies)
          PROVE  batch' = None
      BY <2>2 DEF CreateTable, DeleteTable, SetAccessPolicy, SetTableACL
    <2>3. ASSUME batch = None, NEW name \in Names, NEW k \in Keys, EntityRequest(name, k)
          PROVE  batch' = None
      BY <2>3 DEF EntityRequest, InsertEntity, UpdateEntity, MergeEntity, DeleteEntity, Request
    <2>4. ASSUME NEW name \in Tables \X BatchCases, BeginBatchTransaction(name)
          PROVE  BatchInv'
      BY <2>4, BeginBatchStarts
    <2>5. ASSUME batch # None, etags < MaxEtags, NEW name \in Tables \X BatchCases,
                 NEW k \in Keys, BatchRequest(name, k)
          PROVE  BatchInv'
      BY <2>5, BatchRequestKeepsBatchInv
    <2>6. CASE EndBatchTransaction
      BY <2>1, <2>6 DEF EndBatchTransaction
    <2>7. CASE UNCHANGED vars
      BY <2>7 DEF vars, BatchInv
    <2> QED
      BY <2>1, <2>2, <2>3, <2>4, <2>5, <2>6, <2>7 DEF Next
  <1> QED
    BY <1>1, <1>2, TableStoreWellFormed, PTL DEF Spec

\* Whatever the operations of a batch are and whichever of them fails, the
\* tables are then as they were when the batch began, provided that all of
\* them name one table, in lower case: for any number of operations, keys
\* and properties.  Without the proviso endBatchTransaction() asks for a
\* collection that the operations did not write.
THEOREM BatchesAreAtomic ==
    ASSUME OneTableBatch, BatchCases = {LowerCase}
    PROVE  Spec => BatchIsAtomic
  <1>1. WellFormed /\ BatchInv /\ [Next]_vars =>
           [batch # None /\ batch.failed /\ batch' = None => View' = before.view]_vars
    <2> SUFFICES ASSUME WellFormed, BatchInv, Next,
                        batch # None, batch.failed, batch' = None
                 PROVE  View' = before.view
      OBVIOUS
    <2>1. ASSUME NEW name \in Tables \X BatchCases, NEW k \in Keys, BatchRequest(name, k)
          PROVE  FALSE
      <3>1. {k} \in SUBSET Keys /\ {} \in SUBSET Keys
        OBVIOUS
      <3>2. \A keys \in SUBSET Keys : \A o, spent : ~DispatchBatchRequest(name, keys, o, spent)
        BY BatchGoesOn
      <3> QED
        BY <2>1, <3>1, <3>2
        DEF BatchRequest, HandleBatchInsert, HandleBatchUpdate, HandleBatchMerge,
            HandleBatchDelete, HandleBatchQuery
    <2>2. EndBatchTransaction
      BY <2>1 DEF Next
    <2> QED
      BY <2>2, FailedBatchRestores
  <1> QED
    BY <1>1, BatchUndoable, TableStoreWellFormed, PTL DEF Spec, BatchIsAtomic

-----------------------------------------------------------------------------
(***************************************************************************)
(* Refinement.  What clients see carries etags that were given out; while  *)
(* a batch runs, what it wrote so far carries etags from the time of the   *)
(* batch.                                                                  *)
(***************************************************************************)

TableEtags(v, e) == \A k \in Keys : v[k] # NoEntity => v[k].etag \in 1..e

EtagInv ==
    /\ \A t \in Tables : TableEtags(ViewOf(collections)[t], etags)
    /\ batch # None =>
          /\ before.etags \in 0..etags
          /\ \A t \in Tables : TableEtags(before.view[t], before.etags)
          /\ batch.name \notin DOMAIN collections => etags = before.etags
          /\ \A k \in Keys :
                LET v == ViewOf(collections)[batch.name[1]][k]
                IN  \/ v = before.view[batch.name[1]][k]
                    \/ v = NoEntity
                    \/ v.etag \in before.etags + 1 .. etags

\* What an operation on a key leaves in the collection: under the other
\* keys what was there, and under this one that too, nothing, or an entity
\* with an etag of es.
Writes(c, k, es, o) ==
    /\ \A x \in Keys \ {k} : EntityOf(o.coll, x) = EntityOf(c, x)
    /\ \/ EntityOf(o.coll, k) = EntityOf(c, k)
       \/ o.ok /\ EntityOf(o.coll, k) = NoEntity
       \/ o.ok /\ EntityOf(o.coll, k).etag \in es

\* What is recorded for a key leaves the other keys alone.
LEMMA RecordedOthers ==
    ASSUME NEW c, GoodCollection(c), NEW k \in Keys, NEW o, GoodOutcome(o),
           Recorded(c, k, o)
    PROVE  \A x \in Keys \ {k} : EntityOf(o.coll, x) = EntityOf(c, x)
  <1> SUFFICES ASSUME NEW x \in Keys, x # k
               PROVE  EntityOf(o.coll, x) = EntityOf(c, x)
    OBVIOUS
  <1>1. \A doc : doc \in o.coll.docs /\ doc.ent.key = x <=> doc \in c.docs /\ doc.ent.key = x
    BY DEF Recorded
  <1>2. GoodCollection(o.coll)
    BY DEF GoodOutcome
  <1> QED
    BY <1>1, <1>2, EntityOfSame

LEMMA InsertWrites ==
    ASSUME NEW c, GoodCollection(c), NEW k \in Keys, NEW ps \in SUBSET Props,
           NEW e \in 0..MaxEtags
    PROVE  Writes(c, k, {e}, InsertTableEntity(c, k, ps, e))
  <1> DEFINE o == InsertTableEntity(c, k, ps, e)
             doc == Document(c.last + 1, Entity(k, ps, e))
  <1>1. GoodOutcome(o) /\ Recorded(c, k, o)
    BY InsertGood, InsertRecorded
  <1>2. \A x \in Keys \ {k} : EntityOf(o.coll, x) = EntityOf(c, x)
    <2> HIDE DEF o
    <2> QED
      BY <1>1, RecordedOthers
  <1>3. CASE Found(c, k) # {}
    <2>1. o.coll = c
      BY <1>3 DEF InsertTableEntity, Refused
    <2> QED
      BY <1>2, <2>1 DEF Writes
  <1>4. CASE Found(c, k) = {}
    <2>1. o = Done(c.docs \cup {doc}, c.last + 1, <<>>, <<doc>>)
      BY <1>4 DEF InsertTableEntity
    <2>2. doc.ent.key = k /\ doc.ent.etag = e
      BY DEF Document, Entity
    <2> HIDE DEF doc
    <2>3. o.ok /\ doc \in o.coll.docs
      BY <2>1 DEF Done
    <2> HIDE DEF o
    <2>4. EntityOf(o.coll, k) = doc.ent
      BY <1>1, <2>2, <2>3, EntityOfDocument DEF GoodOutcome
    <2>5. Writes(c, k, {e}, o)
      BY <1>2, <2>2, <2>3, <2>4 DEF Writes
    <2> QED
      BY <2>5 DEF o
  <1> QED
    BY <1>3, <1>4

LEMMA UpdateWrites ==
    ASSUME NEW c, GoodCollection(c), NEW k \in Keys, NEW ps \in SUBSET Props,
           NEW m, NEW e \in 0..MaxEtags
    PROVE  Writes(c, k, {e}, UpdateTableEntity(c, k, ps, m, e))
  <1> DEFINE o == UpdateTableEntity(c, k, ps, m, e)
             doc == FirstFound(c, k)
             new == Document(c.last + 1, Entity(k, ps, e))
  <1>1. GoodOutcome(o) /\ Recorded(c, k, o)
    BY UpdateGood, UpdateRecorded
  <1>2. new.ent.key = k /\ new.ent.etag = e
    BY DEF Document, Entity
  <1>3. o.coll = c \/ (o.ok /\ new \in o.coll.docs)
    <2>1. o = IF Found(c, k) = {} THEN Refused(c, <<>>)
              ELSE IF ~Matches(m, doc) THEN Refused(c, <<doc>>)
              ELSE Done((c.docs \ {doc}) \cup {new}, c.last + 1, <<doc>>, <<>>)
      BY DEF UpdateTableEntity
    <2> HIDE DEF doc, new, o
    <2> QED
      BY <2>1 DEF Refused, Done
  <1> HIDE DEF o, new
  <1>4. \A x \in Keys \ {k} : EntityOf(o.coll, x) = EntityOf(c, x)
    BY <1>1, RecordedOthers
  <1>5. o.ok /\ new \in o.coll.docs => EntityOf(o.coll, k) = new.ent
    BY <1>1, <1>2, EntityOfDocument DEF GoodOutcome
  <1>6. Writes(c, k, {e}, o)
    BY <1>2, <1>3, <1>4, <1>5 DEF Writes
  <1> QED
    BY <1>6 DEF o

LEMMA MergeWrites ==
    ASSUME NEW c, GoodCollection(c), NEW k \in Keys, NEW ps \in SUBSET Props,
           NEW m, NEW e \in 0..MaxEtags
    PROVE  Writes(c, k, {e}, MergeTableEntity(c, k, ps, m, e))
  <1> DEFINE o == MergeTableEntity(c, k, ps, m, e)
             doc == FirstFound(c, k)
             new == Merged(doc, ps, e)
  <1>1. GoodOutcome(o) /\ Recorded(c, k, o)
    BY MergeGood, MergeRecorded
  <1>2. Found(c, k) # {} => new.ent.key = k /\ new.ent.etag = e
    <2> SUFFICES ASSUME Found(c, k) # {} PROVE new.ent.key = k /\ new.ent.etag = e
      OBVIOUS
    <2>1. doc \in Documents /\ doc.ent.key = k
      BY FoundIsFirst DEF GoodCollection
    <2> HIDE DEF doc
    <2> QED
      BY <2>1 DEF Documents, Merged
  <1>3. o.coll = c \/ (Found(c, k) # {} /\ o.ok /\ new \in o.coll.docs)
    <2>1. o = IF Found(c, k) = {} THEN Refused(c, <<>>)
              ELSE IF ~Matches(m, doc) THEN Refused(c, <<doc>>)
              ELSE Done((c.docs \ {doc}) \cup {new}, c.last, <<doc>>, <<>>)
      BY DEF MergeTableEntity
    <2> HIDE DEF doc, new, o
    <2> QED
      BY <2>1 DEF Refused, Done
  <1> HIDE DEF o, new
  <1>4. \A x \in Keys \ {k} : EntityOf(o.coll, x) = EntityOf(c, x)
    BY <1>1, RecordedOthers
  <1>5. Found(c, k) # {} /\ o.ok /\ new \in o.coll.docs => EntityOf(o.coll, k) = new.ent
    BY <1>1, <1>2, EntityOfDocument DEF GoodOutcome
  <1>6. Writes(c, k, {e}, o)
    BY <1>2, <1>3, <1>4, <1>5 DEF Writes
  <1> QED
    BY <1>6 DEF o

LEMMA UpsertWrites ==
    ASSUME NEW c, GoodCollection(c), NEW k \in Keys, NEW ps \in SUBSET Props,
           NEW m, NEW e \in 0..MaxEtags
    PROVE  /\ Writes(c, k, {e}, InsertOrUpdateTableEntity(c, k, ps, m, e))
           /\ Writes(c, k, {e}, InsertOrMergeTableEntity(c, k, ps, m, e))
  BY InsertWrites, UpdateWrites, MergeWrites
  DEF InsertOrUpdateTableEntity, InsertOrMergeTableEntity

\* A delete writes no etag.
LEMMA DeleteWrites ==
    ASSUME NEW c, GoodCollection(c), NEW k \in Keys, NEW m
    PROVE  Writes(c, k, {}, DeleteTableEntity(c, k, m))
  <1> DEFINE o == DeleteTableEntity(c, k, m)
             doc == FirstFound(c, k)
  <1>1. GoodOutcome(o) /\ Recorded(c, k, o)
    BY DeleteGood, DeleteRecorded
  <1>2. \A x \in Keys \ {k} : EntityOf(o.coll, x) = EntityOf(c, x)
    <2> HIDE DEF o
    <2> QED
      BY <1>1, RecordedOthers
  <1>3. CASE Found(c, k) = {} \/ ~Matches(m, doc)
    <2>1. o.coll = c
      BY <1>3 DEF DeleteTableEntity, Refused
    <2> QED
      BY <1>2, <2>1 DEF Writes
  <1>4. CASE Found(c, k) # {} /\ Matches(m, doc)
    <2>1. o.ok /\ o.coll.docs = c.docs \ {doc}
      BY <1>4 DEF DeleteTableEntity, Done
    <2>2. \A d \in c.docs \ {doc} : d.ent.key # k
      BY <1>4, FoundIsFirst
    <2> HIDE DEF o, doc
    <2>3. EntityOf(o.coll, k) = NoEntity
      BY <1>1, <2>1, <2>2, EntityOfDocument DEF GoodOutcome
    <2>4. Writes(c, k, {}, o)
      BY <1>2, <2>1, <2>3 DEF Writes
    <2> QED
      BY <2>4 DEF o
  <1> QED
    BY <1>3, <1>4

\* A query writes nothing.
LEMMA QueryWrites ==
    ASSUME NEW c, GoodCollection(c), NEW k \in Keys
    PROVE  Writes(c, k, {}, QueryTableEntitiesWithPartitionAndRowKey(c, k))
  <1> DEFINE o == QueryTableEntitiesWithPartitionAndRowKey(c, k)
  <1>1. GoodOutcome(o) /\ o.coll.docs = c.docs
    BY QueryGood, QueryRecorded
  <1> HIDE DEF o
  <1>2. \A x \in Keys : EntityOf(o.coll, x) = EntityOf(c, x)
    BY <1>1, EntityOfSame DEF GoodOutcome
  <1>3. Writes(c, k, {}, o)
    BY <1>2 DEF Writes
  <1> QED
    BY <1>3 DEF o

-----------------------------------------------------------------------------
\* Writing a collection is seen in its table only.
LEMMA ViewWritten ==
    ASSUME WellFormed, NEW n \in DOMAIN collections, NEW c,
           collections' = [collections EXCEPT ![n] = c]
    PROVE  /\ n[1] \in Tables
           /\ \A t \in Tables : t # n[1] => ViewOf(collections')[t] = ViewOf(collections)[t]
           /\ \A k \in Keys : /\ ViewOf(collections)[n[1]][k] = EntityOf(collections[n], k)
                              /\ ViewOf(collections')[n[1]][k] = EntityOf(c, k)
  <1>1. n[1] \in Tables
    BY DEF WellFormed, TypeOK, Names
  <1>2. \A m \in DOMAIN collections : m[1] = n[1] => m = n
    BY OneCollection DEF WellFormed
  <1>3. \A k \in Keys : ViewOf(collections)[n[1]][k] = EntityOf(collections[n], k)
    BY <1>1, <1>2, ViewOfTable
  <1> DEFINE ds == collections'
  <1>4. n \in DOMAIN ds /\ ds[n] = c /\ \A m \in DOMAIN ds : m[1] = n[1] => m = n
    BY <1>2
  <1> HIDE DEF ds
  <1>5. \A k \in Keys : ViewOf(ds)[n[1]][k] = EntityOf(c, k)
    BY <1>1, <1>4, ViewOfTable
  <1> QED
    BY <1>1, <1>3, <1>5, OthersUnchanged DEF ds

\* What clients see after the outcome of an operation was stored.
LEMMA StoreWrites ==
    ASSUME WellFormed, \A t \in Tables : TableEtags(ViewOf(collections)[t], etags),
           NEW n \in DOMAIN collections, NEW k \in Keys, NEW spent \in {0, 1},
           NEW es, NEW o, Writes(collections[n], k, es, o),
           \A e \in es : e \in 1 .. etags + spent,
           collections' = [collections EXCEPT ![n] = o.coll],
           etags' = IF o.ok THEN etags + spent ELSE etags
    PROVE  /\ etags' >= etags
           /\ \A t \in Tables : TableEtags(ViewOf(collections')[t], etags')
           /\ \A x \in Keys : \/ ViewOf(collections')[n[1]][x] = ViewOf(collections)[n[1]][x]
                              \/ ViewOf(collections')[n[1]][x] = NoEntity
                              \/ ViewOf(collections')[n[1]][x].etag \in es \cap 1..etags'
  <1> DEFINE v == ViewOf(collections)[n[1]]
             w == ViewOf(collections')[n[1]]
  <1>1. etags \in Nat /\ etags' \in {etags, etags + 1} /\ etags' \in Nat
    BY BoundsAssumption DEF WellFormed, TypeOK
  <1>2. \A x \in Keys : v[x] = EntityOf(collections[n], x) /\ w[x] = EntityOf(o.coll, x)
    BY ViewWritten
  <1>3. /\ \A x \in Keys \ {k} : w[x] = v[x]
        /\ w[k] = v[k] \/ w[k] = NoEntity \/ w[k].etag \in es \cap 1..etags'
    BY <1>2 DEF Writes
  <1>4. n[1] \in Tables
    BY ViewWritten
  <1>5. TableEtags(v, etags)
    BY <1>4
  <1>6. \A e \in 1..etags : e \in 1..etags'
    BY <1>1
  <1>7. TableEtags(w, etags')
    <2> HIDE DEF v, w
    <2> QED
      BY <1>3, <1>5, <1>6 DEF TableEtags
  <1>8. ASSUME NEW t \in Tables, t # n[1]
        PROVE  TableEtags(ViewOf(collections')[t], etags')
    <2>1. ViewOf(collections')[t] = ViewOf(collections)[t]
      BY <1>8, ViewWritten
    <2>2. TableEtags(ViewOf(collections)[t], etags)
      BY <1>8
    <2> DEFINE u == ViewOf(collections)[t]
    <2> HIDE DEF u
    <2>3. TableEtags(u, etags')
      BY <1>6, <2>2 DEF TableEtags, u
    <2> QED
      BY <2>1, <2>3 DEF u
  <1>9. \A x \in Keys : w[x] = v[x] \/ w[x] = NoEntity \/ w[x].etag \in es \cap 1..etags'
    <2> HIDE DEF v, w
    <2> QED
      BY <1>3
  <1>10. etags' >= etags
    BY <1>1
  <1> QED
    BY <1>7, <1>8, <1>9, <1>10

\* The table of a name exists if its collection does.
LEMMA CollectionOfTable ==
    ASSUME WellFormed, NEW n \in DOMAIN collections
    PROVE  n[1] \in {doc.name[1] : doc \in registry} /\ n[1] \in Tables
  BY DEF WellFormed, TypeOK, CollectionsMatch, Names

\* An entity request writes one table.
LEMMA RequestImplements ==
    ASSUME WellFormed, WellFormed', EtagInv, batch = None, NEW name \in Names,
           Exists(name), NEW k \in Keys, NEW spent \in {0, 1}, NEW es, NEW o,
           \A e \in es : e \in etags + 1 .. etags + spent,
           Writes(Collection(name), k, es, o), Request(name, o, spent)
    PROVE  EtagInv' /\ Service!Next
  <1> DEFINE n == CollectionName(name)
             t == n[1]
  <1>1. n \in DOMAIN collections /\ Writes(collections[n], k, es, o)
    BY DEF Exists, Collection
  <1>2. /\ o.ok
        /\ collections' = [collections EXCEPT ![n] = o.coll]
        /\ etags' = etags + spent
        /\ UNCHANGED <<registry, batch, before>>
    BY DEF Request
  <1>3. \A s \in Tables : TableEtags(ViewOf(collections)[s], etags)
    BY DEF EtagInv
  <1> HIDE DEF n
  <1>4. /\ etags' >= etags
        /\ \A s \in Tables : TableEtags(ViewOf(collections')[s], etags')
        /\ \A x \in Keys : \/ ViewOf(collections')[t][x] = ViewOf(collections)[t][x]
                           \/ ViewOf(collections')[t][x] = NoEntity
                           \/ ViewOf(collections')[t][x].etag \in es
    <2>1. etags \in Nat
      BY BoundsAssumption DEF WellFormed, TypeOK
    <2>2. \A e \in es : e \in 1 .. etags + spent
      BY <2>1
    <2> QED
      BY <1>1, <1>2, <1>3, <2>2, StoreWrites
  <1>5. EtagInv'
    BY <1>2, <1>4 DEF EtagInv
  <1>6. \A s \in Tables : s # t => ViewOf(collections')[s] = ViewOf(collections)[s]
    BY <1>1, <1>2, ViewWritten
  <1>7. t \in {doc.name[1] : doc \in registry} /\ t \in Tables
    BY <1>1, CollectionOfTable
  <1>8. etags \in 0..MaxEtags /\ etags' \in 0..MaxEtags /\ MaxEtags \in Nat
    BY BoundsAssumption DEF WellFormed, TypeOK
  <1>9. 1..etags \subseteq 1..etags' /\ 1..etags' \in SUBSET (1..MaxEtags)
        /\ \A e \in es : e \in (1..etags') \ (1..etags)
    BY <1>2, <1>4, <1>8
  <1> HIDE DEF t
  <1>10. Service!Write(t)
    <2>1. batch' = None /\ registry' = registry
      BY <1>2
    <2>2. \A x \in Keys : \/ View'[t][x] = View[t][x]
                          \/ View'[t][x] = NoEntity
                          \/ View'[t][x].etag \in (1..etags') \ (1..etags)
      BY <1>4, <1>9, ViewIsViewOf
    <2>3. \A s \in Tables \ {t} : View'[s] = View[s]
      BY <1>6, ViewIsViewOf
    <2>4. batch = None
      OBVIOUS
    <2> QED
      BY <1>7, <1>9, <2>1, <2>2, <2>3, <2>4 DEF Service!Write, EtagsOfEarlierRequests
  <1> QED
    BY <1>5, <1>7, <1>10 DEF Service!Next

LEMMA EntityRequestImplements ==
    ASSUME RequestsApart, WellFormed, WellFormed', EtagInv, batch = None, NEW name \in Names,
           Exists(name), etags < MaxEtags, NEW k \in Keys, EntityRequest(name, k)
    PROVE  EtagInv' /\ Service!Next
  <1> DEFINE c == Collection(name)
  <1>1. GoodCollection(c)
    BY CollectionsGood DEF WellFormed, Collection, Exists
  <1>2. \A e \in NewEtags : e \in 0..MaxEtags /\ Spent(e) \in {0, 1}
    BY BoundsAssumption DEF WellFormed, TypeOK, NewEtags, Spent
  <1>3. ASSUME NEW e \in NewEtags, NEW o, Writes(c, k, {e}, o), Request(name, o, Spent(e))
        PROVE  EtagInv' /\ Service!Next
    <2>1. e = etags + 1 /\ etags \in Nat
      BY BoundsAssumption DEF WellFormed, TypeOK, NewEtags, EtagsOfEarlierRequests
    <2>2. Spent(e) = 1 /\ \A f \in {e} : f \in etags + 1 .. etags + 1
      BY <2>1 DEF Spent
    <2> QED
      BY <1>3, <2>2, RequestImplements
  <1>4. ASSUME NEW ps \in SUBSET Props, NEW e \in NewEtags, InsertEntity(name, k, ps, e)
        PROVE  EtagInv' /\ Service!Next
    <2>1. Writes(c, k, {e}, InsertTableEntity(c, k, ps, e))
      <3> HIDE DEF c
      <3> QED BY <1>1, <1>2, InsertWrites
    <2> QED BY <1>3, <1>4, <2>1 DEF InsertEntity
  <1>5. ASSUME NEW ps \in SUBSET Props, NEW e \in NewEtags, NEW m \in IfMatches, UpdateEntity(name, k, ps, m, e)
        PROVE  EtagInv' /\ Service!Next
    <2>1. Writes(c, k, {e}, InsertOrUpdateTableEntity(c, k, ps, m, e))
      <3> HIDE DEF c
      <3> QED BY <1>1, <1>2, UpsertWrites
    <2> QED BY <1>3, <1>5, <2>1 DEF UpdateEntity
  <1>6. ASSUME NEW ps \in SUBSET Props, NEW e \in NewEtags, NEW m \in IfMatches, MergeEntity(name, k, ps, m, e)
        PROVE  EtagInv' /\ Service!Next
    <2>1. Writes(c, k, {e}, InsertOrMergeTableEntity(c, k, ps, m, e))
      <3> HIDE DEF c
      <3> QED BY <1>1, <1>2, UpsertWrites
    <2> QED BY <1>3, <1>6, <2>1 DEF MergeEntity
  <1>7. ASSUME NEW m \in IfMatches, DeleteEntity(name, k, m)
        PROVE  EtagInv' /\ Service!Next
    <2>1. Writes(c, k, {}, DeleteTableEntity(c, k, m))
      <3> HIDE DEF c
      <3> QED BY <1>1, DeleteWrites
    <2> QED BY <1>7, <2>1, RequestImplements DEF DeleteEntity
  <1> QED
    BY <1>4, <1>5, <1>6, <1>7 DEF EntityRequest

\* Clients see nothing in a table whose collections are empty.
LEMMA EmptyTable ==
    ASSUME NEW cs, NEW t \in Tables,
           \A n \in DOMAIN cs : n[1] = t => cs[n].docs = {}
    PROVE  ViewOf(cs)[t] = [k \in Keys |-> NoEntity]
  <1> DEFINE names == {n \in DOMAIN cs : n[1] = t}
  <1>1. \A k \in Keys : ~ \E n \in names : Found(cs[n], k) # {}
    BY DEF Found
  <1>2. ViewOf(cs)[t] = [k \in Keys |->
               IF \E n \in names : Found(cs[n], k) # {}
               THEN FirstFound(cs[CHOOSE n \in names : Found(cs[n], k) # {}], k).ent
               ELSE NoEntity]
    BY DEF ViewOf
  <1> HIDE DEF names
  <1> QED
    BY <1>1, <1>2

\* Creating a table and deleting one are steps of the service, and setting
\* a policy is not seen there.
LEMMA TableImplements ==
    ASSUME WellFormed, WellFormed', EtagInv, batch = None, NEW name \in Names,
           \/ CreateTable(name) \/ DeleteTable(name)
           \/ \E policies \in 0..MaxPolicies + 1 : SetAccessPolicy(name, policies)
    PROVE  EtagInv' /\ [Service!Next]_(Service!vars)
  <1> DEFINE cs == collections
             ds == collections'
  <1>1. batch' = None /\ UNCHANGED <<etags, before>>
    BY DEF CreateTable, DeleteTable, SetAccessPolicy, SetTableACL
  <1>2. \A t \in Tables : TableEtags([k \in Keys |-> NoEntity], etags)
    BY DEF TableEtags
  <1>3. ViewOf(cs) = [t \in Tables |-> ViewOf(cs)[t]] /\ ViewOf(ds) = [t \in Tables |-> ViewOf(ds)[t]]
    BY DEF ViewOf
  <1>4. \A t \in Tables : TableEtags(ViewOf(cs)[t], etags)
    BY DEF EtagInv
  <1>5. ASSUME \A t \in Tables : \/ ViewOf(ds)[t] = ViewOf(cs)[t]
                                 \/ ViewOf(ds)[t] = [k \in Keys |-> NoEntity]
        PROVE  EtagInv'
    <2>1. \A t \in Tables : TableEtags(ViewOf(ds)[t], etags)
      BY <1>2, <1>4, <1>5
    <2> QED
      BY <1>1, <2>1 DEF EtagInv
  <1>6. CASE CreateTable(name)
    <2> DEFINE s == name[1]
    <2>1. s \in Tables /\ s \notin {doc.name[1] : doc \in registry}
      BY <1>6 DEF CreateTable, Registered, Names
    <2>2. {doc.name[1] : doc \in registry'} = {doc.name[1] : doc \in registry} \cup {s}
      <3> DEFINE new == [name |-> name, acl |-> 0]
      <3>1. registry' = registry \cup {new} /\ new.name[1] = s
        BY <1>6 DEF CreateTable
      <3> HIDE DEF new
      <3> QED
        BY <3>1
    <2>3. /\ DOMAIN ds = DOMAIN cs \cup {name}
          /\ \A n \in DOMAIN ds : ds[n] = IF n = name THEN NoDocuments ELSE cs[n]
      BY <1>6 DEF CreateTable
    <2>4. \A n \in DOMAIN cs : n[1] # s
      BY <2>1 DEF WellFormed, CollectionsMatch
    <2>5. ASSUME NEW t \in Tables PROVE ViewOf(ds)[t] = ViewOf(cs)[t]
      <3>1. CASE t # s
        <4>1. {m \in DOMAIN ds : m[1] = t} = {m \in DOMAIN cs : m[1] = t}
          BY <2>3, <3>1
        <4>2. \A m \in DOMAIN cs : m[1] = t => ds[m] = cs[m]
          BY <2>3, <3>1
        <4> HIDE DEF cs, ds
        <4> QED
          BY <4>1, <4>2, ViewOfOthers
      <3>2. CASE t = s
        <4>1. \A n \in DOMAIN ds : n[1] = t => ds[n].docs = {}
          BY <2>3, <2>4, <3>2 DEF NoDocuments
        <4>2. \A n \in DOMAIN cs : n[1] = t => cs[n].docs = {}
          BY <2>4, <3>2
        <4> HIDE DEF cs, ds
        <4> QED
          BY <4>1, <4>2, EmptyTable
      <3> QED
        BY <3>1, <3>2
    <2>6. ViewOf(ds) = ViewOf(cs)
      BY <1>3, <2>5
    <2>7. Service!Create(s)
      BY <1>1, <2>1, <2>2, <2>6, ViewIsViewOf DEF Service!Create, EtagsOfEarlierRequests
    <2> QED
      BY <1>5, <2>1, <2>5, <2>7 DEF Service!Next
  <1>7. CASE DeleteTable(name)
    <2>1. PICK doc \in registry :
             /\ registry' = registry \ {doc}
             /\ collections' = [n \in DOMAIN collections \ {doc.name} |-> collections[n]]
      BY <1>7 DEF DeleteTable, Registered
    <2> DEFINE s == doc.name[1]
    <2>2. s \in Tables /\ s \in {d.name[1] : d \in registry}
      BY DEF WellFormed, TypeOK, Names
    <2>3. \A d \in registry : d.name[1] = s => d = doc
      BY DEF WellFormed, CollectionsMatch
    <2>4. {d.name[1] : d \in registry'} = {d.name[1] : d \in registry} \ {s}
      BY <2>1, <2>3
    <2>5. /\ DOMAIN ds = DOMAIN cs \ {doc.name}
          /\ \A n \in DOMAIN ds : ds[n] = cs[n] /\ n[1] # s
      BY <2>1, <2>3 DEF WellFormed, CollectionsMatch
    <2>6. ASSUME NEW t \in Tables, t # s PROVE ViewOf(ds)[t] = ViewOf(cs)[t]
      <3>1. {m \in DOMAIN ds : m[1] = t} = {m \in DOMAIN cs : m[1] = t}
        BY <2>5, <2>6
      <3>2. \A m \in DOMAIN cs : m[1] = t => ds[m] = cs[m]
        BY <2>5, <2>6
      <3> HIDE DEF cs, ds
      <3> QED
        BY <3>1, <3>2, ViewOfOthers
    <2>7. ViewOf(ds)[s] = [k \in Keys |-> NoEntity]
      <3> HIDE DEF cs, ds
      <3> QED
        BY <2>2, <2>5, EmptyTable
    <2>8. ViewOf(ds) = [ViewOf(cs) EXCEPT ![s] = [k \in Keys |-> NoEntity]]
      BY <1>3, <2>6, <2>7
    <2>9. Service!Delete(s)
      BY <1>1, <2>2, <2>4, <2>8, ViewIsViewOf DEF Service!Delete, EtagsOfEarlierRequests
    <2> QED
      BY <1>5, <2>2, <2>6, <2>7, <2>9 DEF Service!Next
  <1>8. ASSUME NEW policies \in 0..MaxPolicies + 1, SetAccessPolicy(name, policies)
        PROVE  EtagInv' /\ [Service!Next]_(Service!vars)
    <2>1. PICK doc \in registry :
             registry' = (registry \ {doc}) \cup {[doc EXCEPT !.acl = policies]}
      BY <1>8 DEF SetAccessPolicy, SetTableACL, Registered
    <2> DEFINE new == [doc EXCEPT !.acl = policies]
    <2>2. new.name = doc.name
      BY DEF WellFormed, TypeOK
    <2>3. registry' = (registry \ {doc}) \cup {new}
      BY <2>1
    <2> HIDE DEF new
    <2>4. {d.name[1] : d \in registry'} = {d.name[1] : d \in registry}
      BY <2>2, <2>3
    <2>5. collections' = collections
      BY <1>8 DEF SetAccessPolicy, SetTableACL
    <2>6. UNCHANGED Service!vars
      BY <1>1, <2>4, <2>5, ViewIsViewOf DEF Service!vars, EtagsOfEarlierRequests
    <2> QED
      BY <1>5, <2>5, <2>6
  <1> QED
    BY <1>6, <1>7, <1>8

\* Etags that were given out stay given out.
LEMMA TableEtagsGrow ==
    ASSUME NEW v, NEW e \in Nat, NEW f \in Nat, e <= f, TableEtags(v, e)
    PROVE  TableEtags(v, f)
  <1>1. \A x \in 1..e : x \in 1..f
    OBVIOUS
  <1> QED
    BY <1>1 DEF TableEtags

\* Clients do not see an operation of a batch, and what it writes carries
\* an etag from the time of the batch.
LEMMA DispatchImplements ==
    ASSUME WellFormed, BatchInv, EtagInv, WellFormed', batch # None,
           OneTableBatch, BatchCases = {LowerCase},
           NEW name \in Tables \X BatchCases, NEW keys \in SUBSET Keys, NEW k \in Keys,
           NEW es, NEW o, NEW spent \in {0, 1}, DispatchBatchRequest(name, keys, o, spent),
           \A e \in es : e \in before.etags + 1 .. etags + spent,
           Exists(name) => Writes(Collection(name), k, es, o)
    PROVE  EtagInv' /\ UNCHANGED Service!vars
  <1> DEFINE n == batch.name
             refused == ~Exists(name) \/ keys \cap batch.seen # {}
  <1>1. batch \in Batches /\ etags \in Nat
    BY BoundsAssumption DEF WellFormed, TypeOK
  <1>2. name = n /\ CollectionName(name) = n
    BY DEF DispatchBatchRequest, CollectionName, Lower
  <1>3. batch'.name = n /\ before' = before /\ registry' = registry
    BY <1>1 DEF DispatchBatchRequest, Batches
  <1>4. batch' # None
    BY BatchGoesOn
  <1>5. UNCHANGED Service!vars
    BY <1>3, <1>4 DEF Service!vars, EtagsOfEarlierRequests
  <1>6. CASE refused
    <2>1. collections' = collections /\ etags' = etags
      BY <1>6 DEF DispatchBatchRequest
    <2> QED
      BY <1>3, <1>5, <2>1 DEF EtagInv
  <1>7. CASE ~refused
    <2>1. /\ collections' = [collections EXCEPT ![n] = o.coll]
          /\ etags' = IF o.ok THEN etags + spent ELSE etags
      BY <1>2, <1>7 DEF DispatchBatchRequest
    <2>2. n \in DOMAIN collections /\ Writes(collections[n], k, es, o)
      BY <1>2, <1>7 DEF Exists, Collection
    <2>3. \A t \in Tables : TableEtags(ViewOf(collections)[t], etags)
      BY DEF EtagInv
    <2>4. n \in DOMAIN collections'
      BY <2>1, <2>2
    <2> HIDE DEF n
    <2>5. /\ etags' >= etags
          /\ \A t \in Tables : TableEtags(ViewOf(collections')[t], etags')
          /\ \A x \in Keys : \/ ViewOf(collections')[n[1]][x] = ViewOf(collections)[n[1]][x]
                             \/ ViewOf(collections')[n[1]][x] = NoEntity
                             \/ ViewOf(collections')[n[1]][x].etag \in es \cap 1..etags'
      <3>1. before.etags \in 0..etags
        BY DEF EtagInv
      <3>2. \A e \in es : e \in 1 .. etags + spent
        BY <1>1, <3>1
      <3> QED
        BY <2>1, <2>2, <2>3, <3>2, StoreWrites
    <2>6. etags' \in Nat
      BY <2>1, <1>1
    <2>7. before.etags \in 0..etags
      BY DEF EtagInv
    <2>8. ASSUME NEW x \in Keys
          PROVE  \/ ViewOf(collections')[n[1]][x] = before.view[n[1]][x]
                 \/ ViewOf(collections')[n[1]][x] = NoEntity
                 \/ ViewOf(collections')[n[1]][x].etag \in before.etags + 1 .. etags'
      <3>1. \/ ViewOf(collections)[n[1]][x] = before.view[n[1]][x]
            \/ ViewOf(collections)[n[1]][x] = NoEntity
            \/ ViewOf(collections)[n[1]][x].etag \in before.etags + 1 .. etags
        BY DEF EtagInv, n
      <3>2. \A e \in es \cap 1..etags' : e \in before.etags + 1 .. etags'
        BY <1>1, <2>6, <2>7
      <3>3. \A e \in before.etags + 1 .. etags : e \in before.etags + 1 .. etags'
        BY <1>1, <2>5, <2>6, <2>7
      <3> QED
        BY <2>5, <3>1, <3>2, <3>3
    <2>9. before.etags \in 0..etags'
      BY <1>1, <2>5, <2>6, <2>7
    <2>10. \A t \in Tables : TableEtags(before.view[t], before.etags)
      BY DEF EtagInv
    <2>11. /\ \A t \in Tables : TableEtags(ViewOf(collections')[t], etags')
           /\ before'.etags \in 0..etags'
           /\ \A t \in Tables : TableEtags(before'.view[t], before'.etags)
           /\ batch'.name \notin DOMAIN collections' => etags' = before'.etags
      BY <1>3, <2>4, <2>5, <2>9, <2>10 DEF n
    <2>12. \A x \in Keys :
              \/ ViewOf(collections')[batch'.name[1]][x] = before'.view[batch'.name[1]][x]
              \/ ViewOf(collections')[batch'.name[1]][x] = NoEntity
              \/ ViewOf(collections')[batch'.name[1]][x].etag \in before'.etags + 1 .. etags'
      BY <1>3, <2>8 DEF n
    <2>13. EtagInv'
      BY <2>11, <2>12 DEF EtagInv
    <2> QED
      BY <1>5, <2>13
  <1> QED
    BY <1>6, <1>7

LEMMA BatchRequestImplements ==
    ASSUME RequestsApart, WellFormed, BatchInv, EtagInv, WellFormed', batch # None, etags < MaxEtags,
           OneTableBatch, BatchCases = {LowerCase},
           NEW name \in Tables \X BatchCases, NEW k \in Keys, BatchRequest(name, k)
    PROVE  EtagInv' /\ UNCHANGED Service!vars
  <1> DEFINE c == Collection(name)
  <1>1. Exists(name) => GoodCollection(c)
    BY CollectionsGood DEF WellFormed, Collection, Exists
  <1>2. \A e \in NewEtags : e \in 0..MaxEtags /\ Spent(e) \in {0, 1}
    BY BoundsAssumption DEF WellFormed, TypeOK, NewEtags, Spent
  <1>3. ASSUME NEW e \in NewEtags, NEW o, DispatchBatchRequest(name, {k}, o, Spent(e)),
               Exists(name) => Writes(c, k, {e}, o)
        PROVE  EtagInv' /\ UNCHANGED Service!vars
    <2>1. before.etags \in 0..etags /\ etags \in Nat
      BY BoundsAssumption DEF EtagInv, WellFormed, TypeOK
    <2>2. e \in before.etags + 1 .. etags + Spent(e)
      BY <2>1 DEF NewEtags, EtagsOfEarlierRequests, Spent
    <2>3. {k} \in SUBSET Keys /\ \A f \in {e} : f \in before.etags + 1 .. etags + Spent(e)
      BY <2>2
    <2> QED
      BY <1>2, <1>3, <2>3, DispatchImplements
  <1>4. {k} \in SUBSET Keys /\ {} \in SUBSET Keys
    OBVIOUS
  <1>5. ASSUME NEW keys \in SUBSET Keys, NEW o, DispatchBatchRequest(name, keys, o, 0),
                Exists(name) => Writes(c, k, {}, o)
         PROVE  EtagInv' /\ UNCHANGED Service!vars
    <2> DEFINE es == {}
    <2>1. \A e \in es : e \in before.etags + 1 .. etags + 0
      OBVIOUS
    <2>2. Exists(name) => Writes(c, k, es, o)
      BY <1>5
    <2> HIDE DEF es
    <2> QED
      BY <1>5, <2>1, <2>2, DispatchImplements
  <1>6. ASSUME NEW ps \in SUBSET Props, NEW e \in NewEtags, HandleBatchInsert(name, k, ps, e)
        PROVE  EtagInv' /\ UNCHANGED Service!vars
    <2>1. Exists(name) => Writes(c, k, {e}, InsertTableEntity(c, k, ps, e))
      <3> HIDE DEF c
      <3> QED BY <1>1, <1>2, InsertWrites
    <2> QED BY <1>3, <1>4, <1>6, <2>1 DEF HandleBatchInsert
  <1>7. ASSUME NEW ps \in SUBSET Props, NEW e \in NewEtags, NEW m \in IfMatches, HandleBatchUpdate(name, k, ps, m, e)
        PROVE  EtagInv' /\ UNCHANGED Service!vars
    <2>1. Exists(name) => Writes(c, k, {e}, InsertOrUpdateTableEntity(c, k, ps, m, e))
      <3> HIDE DEF c
      <3> QED BY <1>1, <1>2, UpsertWrites
    <2> QED BY <1>3, <1>4, <1>7, <2>1 DEF HandleBatchUpdate
  <1>8. ASSUME NEW ps \in SUBSET Props, NEW e \in NewEtags, NEW m \in IfMatches, HandleBatchMerge(name, k, ps, m, e)
        PROVE  EtagInv' /\ UNCHANGED Service!vars
    <2>1. Exists(name) => Writes(c, k, {e}, InsertOrMergeTableEntity(c, k, ps, m, e))
      <3> HIDE DEF c
      <3> QED BY <1>1, <1>2, UpsertWrites
    <2> QED BY <1>3, <1>4, <1>8, <2>1 DEF HandleBatchMerge
  <1>9. ASSUME NEW m \in IfMatches, HandleBatchDelete(name, k, m)
        PROVE  EtagInv' /\ UNCHANGED Service!vars
    <2> DEFINE h == IF m = None THEN Wildcard ELSE m
    <2>1. Exists(name) => Writes(c, k, {}, DeleteTableEntity(c, k, h))
      <3> HIDE DEF c, h
      <3> QED BY <1>1, DeleteWrites
    <2>2. DispatchBatchRequest(name, {k}, DeleteTableEntity(c, k, h), 0)
      BY <1>9 DEF HandleBatchDelete
    <2> HIDE DEF h, c
    <2> QED BY <1>4, <1>5, <2>1, <2>2
  <1>10. ASSUME HandleBatchQuery(name, k)
        PROVE  EtagInv' /\ UNCHANGED Service!vars
    <2>1. Exists(name) => Writes(c, k, {}, QueryTableEntitiesWithPartitionAndRowKey(c, k))
      <3> HIDE DEF c
      <3> QED BY <1>1, QueryWrites
    <2> QED BY <1>4, <1>5, <1>10, <2>1 DEF HandleBatchQuery
  <1> QED
    BY <1>6, <1>7, <1>8, <1>9, <1>10 DEF BatchRequest

\* Beginning a batch is not seen.
LEMMA BeginImplements ==
    ASSUME WellFormed, WellFormed', EtagInv, batch = None, NEW name \in Tables \X BatchCases,
           BeginBatchTransaction(name)
    PROVE  EtagInv' /\ UNCHANGED Service!vars
  <1>1. /\ batch'.name = name /\ before'.view = View /\ before'.etags = etags
        /\ UNCHANGED <<registry, collections, etags>>
    BY DEF BeginBatchTransaction
  <1>2. batch' # None
    <2>1. batch' \in Batches
      BY CasesAssumption, BoundsAssumption DEF BeginBatchTransaction, Batches, Names
    <2> QED
      BY <2>1, NoneAssumption
  <1>3. UNCHANGED Service!vars
    BY <1>1, <1>2 DEF Service!vars, EtagsOfEarlierRequests
  <1>4. etags \in 0..etags
    BY BoundsAssumption DEF WellFormed, TypeOK
  <1>5. before'.view = ViewOf(collections)
    BY <1>1, ViewIsViewOf
  <1>6. EtagInv'
    BY <1>1, <1>4, <1>5 DEF EtagInv
  <1> QED
    BY <1>3, <1>6

\* The end of a batch shows all its writes at once, or none.
LEMMA EndImplements ==
    ASSUME WellFormed, WellFormed', BatchInv, EtagInv, batch # None, EndBatchTransaction
    PROVE  EtagInv' /\ [Service!Next]_(Service!vars)
  <1> DEFINE n == batch.name
             t == n[1]
             old == before.view
             new == ViewOf(collections')
             e == before.etags
  <1>1. batch' = None /\ UNCHANGED <<registry, etags>>
    BY DEF EndBatchTransaction
  <1>2. n[1] \in Tables /\ old = [s \in Tables |-> [k \in Keys |-> old[s][k]]]
    BY DEF BatchInv
  <1>3. /\ e \in 0..etags /\ etags \in 0..MaxEtags /\ MaxEtags \in Nat
        /\ \A s \in Tables : TableEtags(old[s], e)
    BY BoundsAssumption DEF EtagInv, WellFormed, TypeOK
  <1>4. /\ \A s \in Tables, k \in Keys : s # n[1] => new[s][k] = old[s][k]
        /\ \A k \in Keys : \/ new[t][k] = old[t][k] \/ new[t][k] = NoEntity
                           \/ new[t][k].etag \in e + 1 .. etags
        /\ \A s \in Tables : TableEtags(new[s], etags)
    <2>1. CASE batch.failed
      <3>1. new = old
        BY <2>1, FailedBatchRestores, ViewIsViewOf
      <3>2. \A s \in Tables : TableEtags(old[s], etags)
        <4> HIDE DEF old, e
        <4> QED
          BY <1>3, TableEtagsGrow
      <3> QED
        BY <3>1, <3>2
    <2>2. CASE ~batch.failed
      <3>1. collections' = collections
        BY <2>2 DEF EndBatchTransaction
      <3> QED
        BY <3>1 DEF EtagInv, BatchInv
    <2> QED
      BY <2>1, <2>2
  <1>5. EtagInv'
    BY <1>1, <1>4 DEF EtagInv
  <1>6. CASE n \notin DOMAIN collections
    <2>1. collections' = collections /\ etags = e
      BY <1>6 DEF EndBatchTransaction, EtagInv
    <2>2. \A s \in Tables, k \in Keys : new[s][k] = old[s][k]
      BY <1>6, <2>1 DEF BatchInv
    <2>3. new = [s \in Tables |-> [k \in Keys |-> new[s][k]]]
      BY ViewOfType
    <2> HIDE DEF new, old
    <2>4. new = old
      BY <1>2, <2>2, <2>3
    <2>5. View' = before.view
      BY <2>4, ViewIsViewOf DEF new, old
    <2>6. UNCHANGED Service!vars
      BY <1>1, <2>1, <2>5 DEF Service!vars, EtagsOfEarlierRequests
    <2> QED
      BY <1>5, <2>6
  <1>7. CASE n \in DOMAIN collections
    <2>1. t \in {doc.name[1] : doc \in registry} /\ t \in Tables
      <3> HIDE DEF n
      <3> QED
        BY <1>7, CollectionOfTable
    <2>2. /\ 1..e \subseteq 1..etags /\ 1..etags \in SUBSET (1..MaxEtags)
          /\ \A x \in e + 1 .. etags : x \in (1..etags) \ (1..e)
      BY <1>3
    <2>3. ASSUME NEW s \in Tables \ {t} PROVE new[s] = old[s]
      <3>1. new = [x \in Tables |-> [k \in Keys |-> new[x][k]]]
        BY ViewOfType
      <3> HIDE DEF new, old, n
      <3>2. new[s] = [k \in Keys |-> new[s][k]] /\ old[s] = [k \in Keys |-> old[s][k]]
        BY <1>2, <3>1
      <3>3. \A k \in Keys : new[s][k] = old[s][k]
        BY <1>4, <2>3
      <3> QED
        BY <3>2, <3>3
    <2> HIDE DEF n, t, old, new, e
    <2>4. \A k \in Keys : \/ new[t][k] = old[t][k] \/ new[t][k] = NoEntity
                          \/ new[t][k].etag \in (1..etags) \ (1..e)
      BY <1>4, <2>2
    <2>5. View' = new /\ before.view = old /\ before.etags = e
      BY ViewIsViewOf DEF new, old, e
    <2>6. Service!Write(t)
      BY <1>1, <2>1, <2>2, <2>3, <2>4, <2>5 DEF Service!Write, EtagsOfEarlierRequests, e
    <2> QED
      BY <1>5, <2>1, <2>6 DEF Service!Next
  <1> QED
    BY <1>6, <1>7

\* The table store and its batches implement the table service: every
\* request creates or deletes one table, or writes entities of one table in
\* one step, a batch all of them or none; what it writes carries an etag
\* that no client was told of before.  For any tables, keys and properties
\* and batches of any length, as long as a batch names one table, in lower
\* case, and no request is given an etag of an earlier one, which requests
\* that start in the same millisecond may be.  The entities written by one
\* batch may share an etag.
THEOREM StoreImplementsTableService ==
    ASSUME OneTableBatch, RequestsApart, BatchCases = {LowerCase}
    PROVE  Spec => ImplementsTableService
  <1>1. Init => EtagInv /\ Service!Init
    <2> SUFFICES ASSUME Init PROVE EtagInv /\ Service!Init
      OBVIOUS
    <2>1. \A t \in Tables : ViewOf(collections)[t] = [k \in Keys |-> NoEntity]
      BY EmptyTable DEF Init
    <2>2. \A t \in Tables : TableEtags(ViewOf(collections)[t], etags)
      BY <2>1 DEF TableEtags
    <2>3. View = [t \in Tables |-> [k \in Keys |-> NoEntity]]
      <3>1. ViewOf(collections) = [t \in Tables |-> ViewOf(collections)[t]]
        BY DEF ViewOf
      <3> QED
        BY <2>1, <3>1, ViewIsViewOf
    <2>4. 1..0 = {}
      OBVIOUS
    <2> QED
      BY <2>2, <2>3, <2>4 DEF Init, EtagInv, Service!Init, EtagsOfEarlierRequests
  <1>2. WellFormed /\ WellFormed' /\ BatchInv /\ EtagInv /\ [Next]_vars
           => EtagInv' /\ [Service!Next]_(Service!vars)
    <2> SUFFICES ASSUME WellFormed, WellFormed', BatchInv, EtagInv, [Next]_vars
                 PROVE  EtagInv' /\ [Service!Next]_(Service!vars)
      OBVIOUS
    <2>1. ASSUME batch = None, NEW name \in Names,
                 \/ CreateTable(name) \/ DeleteTable(name)
                 \/ \E policies \in 0..MaxPolicies + 1 : SetAccessPolicy(name, policies)
          PROVE  EtagInv' /\ [Service!Next]_(Service!vars)
      BY <2>1, TableImplements
    <2>2. ASSUME batch = None, NEW name \in Names, Exists(name), etags < MaxEtags,
                 NEW k \in Keys, EntityRequest(name, k)
          PROVE  EtagInv' /\ [Service!Next]_(Service!vars)
      BY <2>2, EntityRequestImplements
    <2>3. ASSUME batch = None, NEW name \in Tables \X BatchCases, BeginBatchTransaction(name)
          PROVE  EtagInv' /\ [Service!Next]_(Service!vars)
      BY <2>3, BeginImplements
    <2>4. ASSUME batch # None, etags < MaxEtags, NEW name \in Tables \X BatchCases,
                 NEW k \in Keys, BatchRequest(name, k)
          PROVE  EtagInv' /\ [Service!Next]_(Service!vars)
      BY <2>4, BatchRequestImplements
    <2>5. CASE batch # None /\ EndBatchTransaction
      BY <2>5, EndImplements
    <2>6. CASE UNCHANGED vars
      <3>1. View' = View
        BY <2>6 DEF vars, View, Found, FirstFound
      <3> QED
        BY <2>6, <3>1 DEF vars, EtagInv, Service!vars, EtagsOfEarlierRequests
    <2> QED
      BY <2>1, <2>2, <2>3, <2>4, <2>5, <2>6 DEF Next
  <1> QED
    BY <1>1, <1>2, TableStoreWellFormed, BatchUndoable, PTL
    DEF Spec, ImplementsTableService, Service!Spec

=============================================================================
