----------------------------- MODULE TableStore -----------------------------
(***************************************************************************)
(* The table service: LokiTableMetadataStore behind the entity operations  *)
(* of TableHandler and the entity group transactions (batches) of          *)
(* TableBatchOrchestrator.                                                 *)
(*                                                                         *)
(* Every table has a document in the registry and a collection of its own, *)
(* named as the table was spelled when it was created; a table is found    *)
(* again whatever the case.  A collection has no unique index: that a key  *)
(* has one document is the work of the operations.                         *)
(*                                                                         *)
(* A batch runs its operations one by one on the live collection and keeps *)
(* two lists for the way back.  From the end of its body to its answer     *)
(* nothing it awaits is I/O, so no other request runs in between: requests *)
(* wait while a batch is under way.  A request that is refused changes     *)
(* nothing and is not a step, unless it is part of a batch.                *)
(***************************************************************************)
EXTENDS Integers, Sequences, FiniteSets

CONSTANTS
    Tables,         \* what is left of a table's name without its case
    Cases,          \* ways to spell a name; LowerCase is one of them
    LowerCase,
    BatchCases,     \* the spellings that occur in a batch
    OneTableBatch,  \* TRUE: all operations of a batch name the same path
    RequestsApart,  \* TRUE: no etag of a request is one of an earlier request
    Keys,           \* pairs of PartitionKey and RowKey
    Props,          \* names of properties
    MaxPolicies,    \* stored access policies of a table; 5 in the code
    NoEntity, None, Wildcard,
    MaxOperations,  \* operations of a batch; 100 in the code
    MaxEtags,       \* bound on the etags given out
    MaxIds          \* bound on the $loki values before a batch begins

ASSUME CasesAssumption == LowerCase \in Cases /\ BatchCases \subseteq Cases
ASSUME BoundsAssumption ==
    MaxPolicies \in Nat /\ MaxOperations \in Nat /\ MaxEtags \in Nat

VARIABLES
    registry,       \* documents of $TABLES_COLLECTION$
    collections,    \* name |-> its documents and its last $loki
    transactionRollbackTheseEntities,
    transactionDeleteTheseEntities,
    batch,          \* the batch under way, or None
    etags,          \* the number of etags given out, which are numbered
    before          \* what clients saw when the batch under way began

vars == <<registry, collections, transactionRollbackTheseEntities,
          transactionDeleteTheseEntities, batch, etags, before>>
lists == <<transactionRollbackTheseEntities, transactionDeleteTheseEntities>>

Names == Tables \X Cases
Batches == [name : Names, seen : SUBSET Keys, count : 0..MaxOperations, failed : BOOLEAN]
ASSUME NoneAssumption == None \notin Batches
Lower(name) == <<name[1], LowerCase>>

\* A property holds the etag of the write that set it, 0 if it has none.
Entity(k, ps, e) == [key |-> k, etag |-> e, props |-> [p \in Props |-> IF p \in ps THEN e ELSE 0]]
Document(id, ent) == [id |-> id, ent |-> ent]
Documents == [id : Nat, ent : [key : Keys, etag : 0..MaxEtags, props : [Props -> 0..MaxEtags]]]

NoDocuments == [docs |-> {}, last |-> 0]

-----------------------------------------------------------------------------
(* Tables *)

Registered(name) == {doc \in registry : doc.name[1] = name[1]}

CreateTable(name) ==
    /\ Registered(name) = {}
    /\ registry' = registry \cup {[name |-> name, acl |-> 0]}
    /\ collections' = [n \in DOMAIN collections \cup {name} |->
                          IF n = name THEN NoDocuments ELSE collections[n]]
    /\ UNCHANGED <<lists, batch, etags, before>>

DeleteTable(name) ==
    /\ \E doc \in Registered(name) :
          /\ registry' = registry \ {doc}
          /\ collections' = [n \in DOMAIN collections \ {doc.name} |-> collections[n]]
    /\ UNCHANGED <<lists, batch, etags, before>>

SetTableACL(name, acl) ==
    /\ \E doc \in Registered(name) :
          registry' = (registry \ {doc}) \cup {[doc EXCEPT !.acl = acl]}
    /\ UNCHANGED <<collections, lists, batch, etags, before>>

\* The collection that a request for this name works on: the one with the
\* name in lower case if there is one, else the one spelled the same.
CollectionName(name) ==
    IF Lower(name) \in DOMAIN collections THEN Lower(name) ELSE name

-----------------------------------------------------------------------------
(* Entity operations of the store, as functions of a collection: k is the  *)
(* key, ps the properties sent, m the If-Match header and e the new etag.  *)
(* An outcome holds the collection afterwards and what a batch remembers.  *)

Found(c, k) == {doc \in c.docs : doc.ent.key = k}
FirstFound(c, k) == CHOOSE doc \in Found(c, k) : \A other \in Found(c, k) : doc.id <= other.id
Matches(m, doc) == m \in {None, Wildcard, doc.ent.etag}

Refused(c, remembered) == [ok |-> FALSE, coll |-> c, rollback |-> remembered, added |-> <<>>]
Done(docs, last, remembered, added) ==
    [ok |-> TRUE, coll |-> [docs |-> docs, last |-> last], rollback |-> remembered, added |-> added]

InsertTableEntity(c, k, ps, e) ==
    LET doc == Document(c.last + 1, Entity(k, ps, e))
    IN IF Found(c, k) # {}
       THEN Refused(c, <<>>)
       ELSE Done(c.docs \cup {doc}, c.last + 1, <<>>, <<doc>>)

\* Faulty variant: the replaced entity keeps its etag.
UpdateTableEntityKeepsEtag(c, k, ps, m, e) ==
    LET doc == FirstFound(c, k)
        new == Document(c.last + 1, [Entity(k, ps, e) EXCEPT !.etag = doc.ent.etag])
    IN IF Found(c, k) = {}
       THEN Refused(c, <<>>)
       ELSE IF ~Matches(m, doc)
       THEN Refused(c, <<doc>>)
       ELSE Done((c.docs \ {doc}) \cup {new}, c.last + 1, <<doc>>, <<>>)

\* The document is removed and a new one inserted.  It is remembered
\* before its etag is compared.
UpdateTableEntity(c, k, ps, m, e) ==
    LET doc == FirstFound(c, k)
        new == Document(c.last + 1, Entity(k, ps, e))
    IN IF Found(c, k) = {}
       THEN Refused(c, <<>>)
       ELSE IF ~Matches(m, doc)
       THEN Refused(c, <<doc>>)
       ELSE Done((c.docs \ {doc}) \cup {new}, c.last + 1, <<doc>>, <<>>)

\* The new properties are added to the old ones.
Merged(doc, ps, e) ==
    [doc EXCEPT !.ent.etag = e,
                !.ent.props = [p \in Props |-> IF p \in ps THEN e ELSE doc.ent.props[p]]]

\* Faulty variant: what a merge replaces is not remembered.
MergeTableEntityForgets(c, k, ps, m, e) ==
    LET doc == FirstFound(c, k)
    IN IF Found(c, k) = {} \/ ~Matches(m, doc)
       THEN Refused(c, <<>>)
       ELSE Done((c.docs \ {doc}) \cup {Merged(doc, ps, e)}, c.last, <<>>, <<>>)

\* The document is updated in place.
MergeTableEntity(c, k, ps, m, e) ==
    LET doc == FirstFound(c, k)
    IN IF Found(c, k) = {}
       THEN Refused(c, <<>>)
       ELSE IF ~Matches(m, doc)
       THEN Refused(c, <<doc>>)
       ELSE Done((c.docs \ {doc}) \cup {Merged(doc, ps, e)}, c.last, <<doc>>, <<>>)

InsertOrUpdateTableEntity(c, k, ps, m, e) ==
    IF m = None /\ Found(c, k) = {}
    THEN InsertTableEntity(c, k, ps, e)
    ELSE UpdateTableEntity(c, k, ps, m, e)

InsertOrMergeTableEntity(c, k, ps, m, e) ==
    IF m = None /\ Found(c, k) = {}
    THEN InsertTableEntity(c, k, ps, e)
    ELSE MergeTableEntity(c, k, ps, m, e)

DeleteTableEntity(c, k, m) ==
    LET doc == FirstFound(c, k)
    IN IF Found(c, k) = {} \/ ~Matches(m, doc)
       THEN Refused(c, <<>>)
       ELSE Done(c.docs \ {doc}, c.last, <<doc>>, <<>>)

QueryTableEntitiesWithPartitionAndRowKey(c, k) ==
    IF Found(c, k) = {} THEN Refused(c, <<>>) ELSE Done(c.docs, c.last, <<>>, <<>>)

-----------------------------------------------------------------------------
(* The handlers of TableHandler *)

\* The store takes over the outcome of an operation that is not refused.
Request(name, outcome, spent) ==
    /\ outcome.ok
    /\ collections' = [collections EXCEPT ![CollectionName(name)] = outcome.coll]
    /\ etags' = etags + spent
    /\ UNCHANGED <<registry, lists, batch, before>>

Collection(name) == collections[CollectionName(name)]
Exists(name) == CollectionName(name) \in DOMAIN collections
IfMatches == {None, Wildcard} \cup 1..etags

\* An etag is the millisecond the request started in and four digits of the
\* nanoseconds of the moment it is made.  The operations of a batch have the
\* start time of the batch, so an operation may be given an etag of another
\* one; requests that start in the same millisecond may, too.
EtagsOfEarlierRequests == 1..(IF batch = None THEN etags ELSE before.etags)
NewEtags == {e \in 1..etags + 1 : RequestsApart => e \notin EtagsOfEarlierRequests}
Spent(e) == IF e > etags THEN 1 ELSE 0

InsertEntity(name, k, ps, e) ==
    Request(name, InsertTableEntity(Collection(name), k, ps, e), Spent(e))
UpdateEntity(name, k, ps, m, e) ==
    Request(name, InsertOrUpdateTableEntity(Collection(name), k, ps, m, e), Spent(e))
MergeEntity(name, k, ps, m, e) ==
    Request(name, InsertOrMergeTableEntity(Collection(name), k, ps, m, e), Spent(e))

\* A delete has to name an etag, or a wildcard.
DeleteEntity(name, k, m) ==
    m # None /\ Request(name, DeleteTableEntity(Collection(name), k, m), 0)

\* A table has at most five stored access policies.
SetAccessPolicy(name, policies) == policies <= MaxPolicies /\ SetTableACL(name, policies)

-----------------------------------------------------------------------------
(* Batches *)

\* What a client can find out: the tables and their entities.
View ==
    [t \in Tables |->
        LET names == {n \in DOMAIN collections : n[1] = t}
        IN [k \in Keys |->
               IF \E n \in names : Found(collections[n], k) # {}
               THEN FirstFound(collections[CHOOSE n \in names : Found(collections[n], k) # {}], k).ent
               ELSE NoEntity]]

\* A transaction is refused while the lists hold something.
BeginBatchTransaction(name) ==
    /\ transactionRollbackTheseEntities = <<>>
    /\ transactionDeleteTheseEntities = <<>>
    /\ batch' = [name |-> name, seen |-> {}, count |-> 0, failed |-> FALSE]
    /\ before' = [view |-> View, etags |-> etags]
    /\ UNCHANGED <<registry, collections, lists, etags>>

WithinLimit == batch.count < MaxOperations

\* One round of the loop: an operation that fails ends it.  A key may be
\* written once; a GET is not counted.
DispatchBatchRequest(name, keys, outcome, spent) ==
    LET refused == ~Exists(name) \/ keys \cap batch.seen # {}
    IN /\ ~batch.failed
       /\ WithinLimit
       /\ OneTableBatch \/ batch.count = 0 => name = batch.name
       /\ batch' = [batch EXCEPT !.count = @ + 1,
                                 !.seen = @ \cup keys,
                                 !.failed = refused \/ ~outcome.ok]
       /\ IF refused
          THEN UNCHANGED <<collections, lists, etags>>
          ELSE /\ collections' = [collections EXCEPT ![CollectionName(name)] = outcome.coll]
               /\ transactionRollbackTheseEntities' = transactionRollbackTheseEntities \o outcome.rollback
               /\ transactionDeleteTheseEntities' = transactionDeleteTheseEntities \o outcome.added
               /\ etags' = IF outcome.ok THEN etags + spent ELSE etags
       /\ UNCHANGED <<registry, before>>

HandleBatchInsert(name, k, ps, e) ==
    DispatchBatchRequest(name, {k}, InsertTableEntity(Collection(name), k, ps, e), Spent(e))
HandleBatchUpdate(name, k, ps, m, e) ==
    DispatchBatchRequest(name, {k}, InsertOrUpdateTableEntity(Collection(name), k, ps, m, e), Spent(e))
HandleBatchMerge(name, k, ps, m, e) ==
    DispatchBatchRequest(name, {k}, InsertOrMergeTableEntity(Collection(name), k, ps, m, e), Spent(e))
\* Without a header the batch sends a wildcard.
HandleBatchDelete(name, k, m) ==
    DispatchBatchRequest(name, {k}, DeleteTableEntity(Collection(name), k, IF m = None THEN Wildcard ELSE m), 0)
HandleBatchQuery(name, k) ==
    DispatchBatchRequest(name, {}, QueryTableEntitiesWithPartitionAndRowKey(Collection(name), k), 0)

\* Faulty variant: the copies are inserted beside the current documents.
RollbackEntityChangesInsertOnly(c) ==
    LET list == transactionRollbackTheseEntities
    IN [docs |-> c.docs \cup {Document(c.last + i, list[i].ent) : i \in DOMAIN list},
        last |-> c.last + Len(list)]

\* The remembered documents replace what the collection has for their keys.
RollbackEntityChanges(c) ==
    LET list == transactionRollbackTheseEntities
        wins == {i \in DOMAIN list : \A j \in DOMAIN list : j > i => list[j].ent.key # list[i].ent.key}
    IN [docs |-> {doc \in c.docs : \A i \in DOMAIN list : list[i].ent.key # doc.ent.key}
                 \cup {Document(c.last + i, list[i].ent) : i \in wins},
        last |-> c.last + Len(list)]

\* Documents are removed by their $loki, whatever it stands for here.
RemoveEntitiesAddedInBatch(c) ==
    [c EXCEPT !.docs = {doc \in @ : \A i \in DOMAIN transactionDeleteTheseEntities :
                                       transactionDeleteTheseEntities[i].id # doc.id}]

\* The rollback asks for the collection by the path of the first operation
\* as it is spelled there.
EndBatchTransaction ==
    /\ batch.failed \/ batch.count > 0
    /\ collections' = IF batch.failed /\ batch.name \in DOMAIN collections
                      THEN [collections EXCEPT ![batch.name] =
                               RemoveEntitiesAddedInBatch(RollbackEntityChanges(@))]
                      ELSE collections
    /\ transactionRollbackTheseEntities' = <<>>
    /\ transactionDeleteTheseEntities' = <<>>
    /\ batch' = None
    /\ before' = None
    /\ UNCHANGED <<registry, etags>>

-----------------------------------------------------------------------------
Init ==
    /\ registry = {}
    /\ collections = [n \in {} |-> NoDocuments]
    /\ transactionRollbackTheseEntities = <<>>
    /\ transactionDeleteTheseEntities = <<>>
    /\ batch = None
    /\ etags = 0
    /\ before = None

EntityRequest(name, k) ==
    \/ \E ps \in SUBSET Props, e \in NewEtags :
          \/ InsertEntity(name, k, ps, e)
          \/ \E m \in IfMatches : UpdateEntity(name, k, ps, m, e) \/ MergeEntity(name, k, ps, m, e)
    \/ \E m \in IfMatches : DeleteEntity(name, k, m)

BatchRequest(name, k) ==
    \/ \E ps \in SUBSET Props, e \in NewEtags :
          \/ HandleBatchInsert(name, k, ps, e)
          \/ \E m \in IfMatches :
                HandleBatchUpdate(name, k, ps, m, e) \/ HandleBatchMerge(name, k, ps, m, e)
    \/ \E m \in IfMatches : HandleBatchDelete(name, k, m)
    \/ HandleBatchQuery(name, k)

Next ==
    \/ /\ batch = None
       /\ \E name \in Names :
             \/ CreateTable(name)
             \/ DeleteTable(name)
             \/ \E policies \in 0..MaxPolicies + 1 : SetAccessPolicy(name, policies)
             \/ /\ Exists(name)
                /\ etags < MaxEtags
                /\ \E k \in Keys : EntityRequest(name, k)
    \/ /\ batch = None
       /\ \A n \in DOMAIN collections : collections[n].last <= MaxIds
       /\ \E name \in Tables \X BatchCases : BeginBatchTransaction(name)
    \/ /\ batch # None
       /\ etags < MaxEtags
       /\ \E name \in Tables \X BatchCases, k \in Keys : BatchRequest(name, k)
    \/ batch # None /\ EndBatchTransaction

Spec == Init /\ [][Next]_vars

-----------------------------------------------------------------------------
(* Properties *)

\* Every variable has its type; a batch counts no more operations than it may have.
TypeOK ==
    /\ registry \subseteq [name : Names, acl : 0..MaxPolicies]
    /\ DOMAIN collections \subseteq Names
    /\ \A n \in DOMAIN collections :
          collections[n].last \in Nat /\ collections[n].docs \subseteq Documents
    /\ transactionRollbackTheseEntities \in Seq(Documents)
    /\ transactionDeleteTheseEntities \in Seq(Documents)
    /\ batch \in Batches \cup {None}
    /\ etags \in 0..MaxEtags

\* Without a unique index a key has one document, $loki values are not
\* reused, and a table exists under one spelling and has a collection of
\* exactly that name.
CollectionsMatch ==
    /\ \A n \in DOMAIN collections : \A a, b \in collections[n].docs :
          a.ent.key = b.ent.key \/ a.id = b.id => a = b
    /\ \A n \in DOMAIN collections : \A doc \in collections[n].docs : doc.id <= collections[n].last
    /\ \A a, b \in registry : a.name[1] = b.name[1] => a = b
    /\ DOMAIN collections = {doc.name : doc \in registry}

\* Between batches the lists of beginBatchTransaction() are empty: no
\* batch is refused as overlapping with one that has ended.
ListsAreReset ==
    batch = None => /\ transactionRollbackTheseEntities = <<>>
                    /\ transactionDeleteTheseEntities = <<>>

\* The collections and lists of LokiTableMetadataStore are as its methods expect.
WellFormed == TypeOK /\ CollectionsMatch /\ ListsAreReset

\* "rollback all changes in the case of failed batch transaction"
\* (LokiTableMetadataStore.ts:632): whatever failed, the tables are as
\* they were when the batch began.
BatchIsAtomic ==
    [][batch # None /\ batch.failed /\ batch' = None => View' = before.view]_vars

\* The clients' view: while a batch is under way nobody sees its writes.
Service ==
    INSTANCE TableService
    WITH Etags <- 1..MaxEtags,
         tables <- {doc.name[1] : doc \in registry},
         entities <- IF batch = None THEN View ELSE before.view,
         used <- EtagsOfEarlierRequests

\* The store and its batches implement the table service: a request writes
\* one table in one step, a batch all or none of its entities, and what it
\* writes carries no etag that a client was told of before.
ImplementsTableService == Service!Spec

=============================================================================
