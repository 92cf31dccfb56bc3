---------------------------- MODULE SqlBlobStore ----------------------------
(***************************************************************************)
(* SqlBlobMetadataStore: the rows of the tables Containers, Blobs and      *)
(* Blocks under concurrent requests, of one or of several servers.         *)
(*                                                                         *)
(* A method runs in a sequelize transaction with the database's default    *)
(* isolation: it reads rows, checks them, awaits, and writes.  Its read    *)
(* and check are one step here, which opens a transaction; its writes are  *)
(* another, which commits it.  Others may commit in between, so the values *)
(* a transaction writes may be outdated.  A database that isolates more    *)
(* strictly allows fewer of these behaviours.  Requests that fail, and     *)
(* transactions that roll back, change nothing.                            *)
(*                                                                         *)
(* All blobs are block blobs: page and append blobs can be created in this *)
(* store but not written.  Durations are infinite and breaks immediate.    *)
(***************************************************************************)
EXTENDS Lease, BlobConditions, FiniteSets

CONSTANTS
    Containers, Names, Data, BlockIds,
    Times,      \* snapshot times; 0 is the base blob's snapshot ""
    Access,     \* values of publicAccess
    Private,    \* the one of a request without public access, NULL in the table
    MaxEtags,   \* bound on the etags given out
    MaxOpen,    \* bound on the transactions open at a time
    MaxLen      \* bound on the length of a block list

ASSUME SqlBlobStoreAssumption ==
    /\ Times \subseteq Nat \ {0}
    /\ Private \in Access
    /\ None \notin [access : Access, lease : ILease]
    /\ MaxEtags \in Nat /\ MaxOpen \in Nat /\ MaxLen \in Nat \ {0}

VARIABLES
    containers, \* table Containers: access and lease of each, None without a row
    blobs,      \* table Blobs: rows with the unique key c, n, s
    blocks,     \* table Blocks, the rows with deleting = 0
    open,       \* the transactions between their reads and their writes
    etags,      \* number of etags given out by newEtag()
    regular     \* no transaction wrote what it read before another's commit,
                \* and no two snapshots of a blob had the same time

vars == <<containers, blobs, blocks, open, etags, regular>>

Exists(c) == containers[c] # None
Rows(c, n) == {r \in blobs : r.c = c /\ r.n = n}
Row(c, n, s) == {r \in Rows(c, n) : r.s = s}
Committed(c, n, s) == {r \in Row(c, n, s) : r.committed}
BlocksOf(c, n) == {b \in blocks : b.c = c /\ b.n = n}
Chunk == [id : BlockIds \cup {None}, data : Data]
Contents == UNION {[1 .. k -> Chunk] : k \in 0 .. MaxLen}

Resource(rows) ==
    IF rows = {} THEN NoResource
    ELSE LET r == CHOOSE r \in rows : TRUE
         IN [exist |-> TRUE, etag |-> r.etag, lastModified |-> 0, tag |-> NoTags]

Conditions ==
    {NoConditions, [NoConditions EXCEPT !.ifNoneMatch = <<Wildcard>>]}
        \cup {[NoConditions EXCEPT !.ifMatch = <<e>>] : e \in 1 .. etags}

NewRow(c, n, content, lease) ==
    [c |-> c, n |-> n, s |-> 0, committed |-> TRUE, etag |-> 0,
     content |-> content, lease |-> lease, archived |-> FALSE]

\* A transaction has read and checked; `kind' and `x' are what it will write.
\* leaseId is the one its request names.
Begin(kind, leaseId, x) ==
    /\ Cardinality(open) < MaxOpen
    /\ open' = open \cup {[kind |-> kind, leaseId |-> leaseId, x |-> x, alone |-> regular]}
    /\ UNCHANGED <<containers, blobs, blocks, etags, regular>>

\* What the transactions ts have read is outdated now.
Outdated(ts) == {[t EXCEPT !.alone = FALSE] : t \in ts}

Unspent == etags < MaxEtags
NewEtag == Unspent /\ etags' = etags + 1

----------------------------------------------------------------------------
(* Containers.                                                             *)

\* createContainer: one INSERT; the unique key refuses a second one.
CreateContainer(c, access) ==
    /\ ~Exists(c)
    /\ containers' = [containers EXCEPT ![c] = [access |-> access, lease |-> AvailableLease]]
    /\ open' = Outdated(open)
    /\ UNCHANGED <<blobs, blocks, etags, regular>>

DeleteContainer(c, id) ==
    /\ Exists(c)
    /\ WriteLeaseValid(containers[c].lease, id)
    /\ Begin("deleteContainer", id, [c |-> c])

\* setContainerMetadata: the metadata and the etag, which are not kept here.
SetContainerMetadata(c) ==
    Exists(c) /\ Begin("setContainerMetadata", None, [c |-> c, access |-> containers[c].access])

SetContainerACL(c, access) ==
    Exists(c) /\ Begin("setContainerACL", None, [c |-> c, access |-> access])

\* The five lease operations write the lease columns of the row.
ContainerLease(c, id, Allowed(_), New(_)) ==
    /\ Exists(c)
    /\ Allowed(containers[c].lease)
    /\ Begin("containerLease", id, [c |-> c, lease |-> New(containers[c].lease)])

AcquireContainerLease(c, id) ==
    LET Allowed(l) == AcquireAllowed(l, Infinite, id)
        New(l) == Acquired(0, Infinite, id)
    IN ContainerLease(c, id, Allowed, New)

ReleaseContainerLease(c, id) ==
    LET Allowed(l) == ReleaseAllowed(l, id)
        New(l) == AvailableLease
    IN ContainerLease(c, id, Allowed, New)

RenewContainerLease(c, id) ==
    LET Allowed(l) == RenewAllowed(l, id)
        New(l) == Renewed(l, 0)
    IN ContainerLease(c, id, Allowed, New)

ChangeContainerLease(c, id, proposed) ==
    LET Allowed(l) == ChangeAllowed(l, id, proposed)
        New(l) == Changed(l, proposed)
    IN ContainerLease(c, id, Allowed, New)

BreakContainerLease(c) ==
    LET Allowed(l) == BreakAllowed(l, 0)
        New(l) == Break(l, 0, 0)
    IN ContainerLease(c, None, Allowed, New)

----------------------------------------------------------------------------
(* Blobs.                                                                  *)

\* createBlob: uncommitted rows are not looked at; the lease is kept.
CreateBlob(c, n, cond, id, data) ==
    LET old == Committed(c, n, 0)
        lease == IF old = {} THEN AvailableLease
                 ELSE WriteLeaseSync((CHOOSE r \in old : TRUE).lease)
    IN /\ Exists(c) /\ Unspent
       /\ WriteConditionsMet(cond, Resource(old))
       /\ ~(IsCreateOnly(cond) /\ old # {})
       /\ \A r \in old : WriteLeaseValid(r.lease, id) /\ ~r.archived
       /\ Begin("put", id, NewRow(c, n, <<[id |-> None, data |-> data]>>, lease))

\* createSnapshot: the row as it was read, without its lease.
CreateSnapshot(c, n, t) ==
    /\ Exists(c)
    /\ \E r \in Committed(c, n, 0) :
          Begin("snapshot", None, [r EXCEPT !.s = t, !.lease = AvailableLease])

\* deleteBlob of a base blob (with `mode' base, include or only) or snapshot.
DeleteBlob(c, n, s, mode, id) ==
    /\ Exists(c)
    /\ s # 0 <=> mode = "snapshot"
    /\ \E r \in Committed(c, n, s) : s = 0 => WriteLeaseValid(r.lease, id)
    /\ mode = "base" => Cardinality(Rows(c, n)) = 1
    /\ Begin("deleteBlob", id, [c |-> c, n |-> n, s |-> s, mode |-> mode])

\* startCopyFromURL: of any committed row; the destination's lease is kept.
StartCopyFromURL(src, c, n, cond, id, tier) ==
    LET dest == Row(c, n, 0)
        lease == IF dest = {} THEN AvailableLease ELSE (CHOOSE r \in dest : TRUE).lease
    IN /\ Exists(c) /\ Exists(src.c) /\ src.committed /\ Unspent
       /\ WriteConditionsMet(cond, Resource({r \in dest : r.committed}))
       /\ \A r \in dest : WriteLeaseValid(r.lease, id)
       /\ src.archived => tier # None
       /\ Begin("put", id, [NewRow(c, n, src.content, lease) EXCEPT !.archived = tier = "Archive"])

\* The committed base blob an update has read, for a request that passes.
Updatable(c, n, cond, id) ==
    {r \in Committed(c, n, 0) : /\ Exists(c)
                                /\ WriteConditionsMet(cond, Resource({r}))
                                /\ WriteLeaseValid(r.lease, id)}

\* setBlobHTTPHeaders writes the whole row back as it was read.
SetBlobHTTPHeaders(c, n, cond, id) ==
    /\ Unspent
    /\ \E r \in Updatable(c, n, cond, id) :
          Begin("row", id, [r EXCEPT !.lease = WriteLeaseSync(r.lease)])

\* setBlobMetadata writes the metadata, the etag and the lease.
SetBlobMetadata(c, n, cond, id) ==
    /\ Unspent
    /\ \E r \in Updatable(c, n, cond, id) :
          Begin("metadata", id, [c |-> c, n |-> n, s |-> 0, lease |-> WriteLeaseSync(r.lease)])

\* setBlobTag, of a base blob or snapshot, writes the tags and the lease.
SetBlobTag(c, n, s, id) ==
    /\ Exists(c)
    /\ \E r \in Committed(c, n, s) :
          /\ WriteLeaseValid(r.lease, id)
          /\ Begin("lease", id, [c |-> c, n |-> n, s |-> s, lease |-> WriteLeaseSync(r.lease)])

\* Faulty variant: the etag that was read is written back with the tier.
SetTierWithEtag(c, n, id, archived) ==
    \E r \in Updatable(c, n, NoConditions, id) :
       Begin("tier", id, [c |-> c, n |-> n, s |-> 0, archived |-> archived, etag |-> r.etag])

\* setTier writes the tier columns only.
SetTier(c, n, id, archived) ==
    \E r \in Updatable(c, n, NoConditions, id) :
       Begin("tier", id, [c |-> c, n |-> n, s |-> 0, archived |-> archived, etag |-> None])

BlobLease(c, n, id, Allowed(_), New(_)) ==
    /\ Exists(c)
    /\ \E r \in Committed(c, n, 0) :
          /\ Allowed(r.lease)
          /\ Begin("lease", id, [c |-> c, n |-> n, s |-> 0, lease |-> New(r.lease)])

AcquireBlobLease(c, n, id) ==
    LET Allowed(l) == AcquireAllowed(l, Infinite, id)
        New(l) == Acquired(0, Infinite, id)
    IN BlobLease(c, n, id, Allowed, New)

ReleaseBlobLease(c, n, id) ==
    LET Allowed(l) == ReleaseAllowed(l, id)
        New(l) == AvailableLease
    IN BlobLease(c, n, id, Allowed, New)

RenewBlobLease(c, n, id) ==
    LET Allowed(l) == RenewAllowed(l, id)
        New(l) == Renewed(l, 0)
    IN BlobLease(c, n, id, Allowed, New)

ChangeBlobLease(c, n, id, proposed) ==
    LET Allowed(l) == ChangeAllowed(l, id, proposed)
        New(l) == Changed(l, proposed)
    IN BlobLease(c, n, id, Allowed, New)

BreakBlobLease(c, n) ==
    LET Allowed(l) == BreakAllowed(l, 0)
        New(l) == Break(l, 0, 0)
    IN BlobLease(c, n, None, Allowed, New)

----------------------------------------------------------------------------
(* Block lists.                                                            *)

\* stageBlock: without a row for the blob it writes an uncommitted one.
StageBlock(c, n, id, blockId, data) ==
    LET row == IF Row(c, n, 0) = {}
               THEN [NewRow(c, n, <<>>, AvailableLease) EXCEPT !.committed = FALSE] ELSE None
    IN /\ Exists(c)
       /\ row # None => Unspent
       /\ \A r \in Committed(c, n, 0) : WriteLeaseValid(r.lease, id)
       /\ Begin("stageBlock", id, [row |-> row,
                                   block |-> [c |-> c, n |-> n, id |-> blockId, data |-> data]])

\* The chunk an entry of a block list selects; {} is InvalidBlockList.
Selected(old, staged, entry) ==
    LET uncommitted == {[id |-> b.id, data |-> b.data] : b \in {b \in staged : b.id = entry.id}}
        committed == UNION {{r.content[i] : i \in {i \in DOMAIN r.content :
                        /\ r.content[i].id = entry.id
                        /\ \A j \in DOMAIN r.content : r.content[j].id = entry.id => j =< i}} : r \in old}
    IN CASE entry.from = "uncommitted" -> uncommitted
         [] entry.from = "committed"   -> committed
         [] entry.from = "latest"      -> IF uncommitted # {} THEN uncommitted ELSE committed

BlockLists ==
    UNION {[1 .. k -> [id : BlockIds, from : {"uncommitted", "committed", "latest"}]]
             : k \in 0 .. MaxLen}

\* Faulty variant: the lease of the blob is not validated.
CommitBlockListAnyLease(c, n, cond, id, list) ==
    LET old == Committed(c, n, 0)
        selected == [i \in DOMAIN list |-> Selected(old, BlocksOf(c, n), list[i])]
    IN /\ Exists(c) /\ Unspent
       /\ WriteConditionsMet(cond, Resource(old))
       /\ ~(IsCreateOnly(cond) /\ old # {})
       /\ \A i \in DOMAIN list : selected[i] # {}
       /\ Begin("commitBlockList", id,
                NewRow(c, n, [i \in DOMAIN list |-> CHOOSE x \in selected[i] : TRUE], AvailableLease))

\* commitBlockList: the new row is without a lease.
CommitBlockList(c, n, cond, id, list) ==
    LET old == Committed(c, n, 0)
        selected == [i \in DOMAIN list |-> Selected(old, BlocksOf(c, n), list[i])]
    IN /\ Exists(c) /\ Unspent
       /\ WriteConditionsMet(cond, Resource(old))
       /\ ~(IsCreateOnly(cond) /\ old # {})
       /\ \A r \in old : WriteLeaseValid(r.lease, id)
       /\ \A i \in DOMAIN list : selected[i] # {}
       /\ Begin("commitBlockList", id,
                NewRow(c, n, [i \in DOMAIN list |-> CHOOSE x \in selected[i] : TRUE], AvailableLease))

----------------------------------------------------------------------------
(* What a transaction writes when it commits.                              *)

Upserted(row) == (blobs \ Row(row.c, row.n, row.s)) \cup {row}

\* UPDATE ... WHERE of the row with the key of x, if there still is one.
Updated(x, New(_)) ==
    {IF r \in Row(x.c, x.n, x.s) THEN New(r) ELSE r : r \in blobs}

\* Faulty variant: x-ms-delete-snapshots: include leaves the snapshots.
DeletedBaseOnly(x) ==
    CASE x.mode \in {"base", "include"} -> Row(x.c, x.n, 0)
      [] x.mode = "snapshot"            -> Row(x.c, x.n, x.s)
      [] x.mode = "only"                -> {r \in Rows(x.c, x.n) : r.s # 0}

\* The rows deleteBlob removes with deleteBlobFromSQL.
Deleted(x) ==
    CASE x.mode \in {"base", "include"} -> Rows(x.c, x.n)
      [] x.mode = "snapshot"            -> Row(x.c, x.n, x.s)
      [] x.mode = "only"                -> {r \in Rows(x.c, x.n) : r.s # 0}

WriteBlobs(tx) ==
    \/ /\ tx.kind \in {"put", "commitBlockList"}
       /\ NewEtag
       /\ blobs' = Upserted([tx.x EXCEPT !.etag = etags'])
       /\ blocks' = IF tx.kind = "put" THEN blocks ELSE blocks \ BlocksOf(tx.x.c, tx.x.n)
    \/ /\ tx.kind = "snapshot"
       /\ UNCHANGED etags
       /\ blobs' = Upserted(tx.x)
       /\ UNCHANGED blocks
    \/ /\ tx.kind = "row"
       /\ NewEtag
       /\ LET New(r) == [tx.x EXCEPT !.etag = etags'] IN blobs' = Updated(tx.x, New)
       /\ UNCHANGED blocks
    \/ /\ tx.kind = "metadata"
       /\ NewEtag
       /\ LET New(r) == [r EXCEPT !.etag = etags', !.lease = tx.x.lease] IN blobs' = Updated(tx.x, New)
       /\ UNCHANGED blocks
    \/ /\ tx.kind = "lease"
       /\ UNCHANGED etags
       /\ LET New(r) == [r EXCEPT !.lease = tx.x.lease] IN blobs' = Updated(tx.x, New)
       /\ UNCHANGED blocks
    \/ /\ tx.kind = "tier"
       /\ UNCHANGED etags
       /\ LET New(r) == [r EXCEPT !.archived = tx.x.archived,
                                  !.etag = IF tx.x.etag = None THEN r.etag ELSE tx.x.etag]
          IN blobs' = Updated(tx.x, New)
       /\ UNCHANGED blocks
    \/ /\ tx.kind = "stageBlock"
       /\ IF tx.x.row = None THEN UNCHANGED <<blobs, etags>>
          ELSE NewEtag /\ blobs' = Upserted([tx.x.row EXCEPT !.etag = etags'])
       /\ LET b == tx.x.block
          IN blocks' = {o \in blocks : ~(o.c = b.c /\ o.n = b.n /\ o.id = b.id)} \cup {b}
    \/ /\ tx.kind = "deleteBlob"
       /\ UNCHANGED etags
       /\ blobs' = blobs \ Deleted(tx.x)
       /\ blocks' = IF tx.x.mode \in {"base", "include"} THEN blocks \ BlocksOf(tx.x.c, tx.x.n)
                    ELSE blocks

\* Without public access, publicAccess is undefined in the UPDATE of
\* setContainerACL, which leaves the column as it is.
AccessGiven(row, given) == IF given = Private THEN row ELSE [row EXCEPT !.access = given]

\* Faulty variant: the metadata is written with the whole row as it was read.
WriteContainersWholeRow(tx) ==
    \/ /\ tx.kind = "setContainerMetadata"
       /\ containers' = [containers EXCEPT ![tx.x.c] = IF Exists(tx.x.c) THEN [@ EXCEPT !.access = tx.x.access] ELSE None]
       /\ UNCHANGED <<blobs, blocks>>
    \/ /\ tx.kind = "setContainerACL"
       /\ containers' = [containers EXCEPT ![tx.x.c] = IF Exists(tx.x.c) THEN AccessGiven(@, tx.x.access) ELSE None]
       /\ UNCHANGED <<blobs, blocks>>
    \/ /\ tx.kind = "containerLease"
       /\ containers' = [containers EXCEPT ![tx.x.c] = IF Exists(tx.x.c) THEN [@ EXCEPT !.lease = tx.x.lease] ELSE None]
       /\ UNCHANGED <<blobs, blocks>>
    \/ /\ tx.kind = "deleteContainer"
       /\ containers' = [containers EXCEPT ![tx.x.c] = None]
       /\ blobs' = {r \in blobs : r.c # tx.x.c}
       /\ blocks' = {b \in blocks : b.c # tx.x.c}

\* The updates of a container that is gone change nothing.
WriteContainers(tx) ==
    \/ /\ tx.kind = "setContainerMetadata"
       /\ UNCHANGED <<containers, blobs, blocks>>
    \/ /\ tx.kind = "setContainerACL"
       /\ containers' = [containers EXCEPT ![tx.x.c] = IF Exists(tx.x.c) THEN AccessGiven(@, tx.x.access) ELSE None]
       /\ UNCHANGED <<blobs, blocks>>
    \/ /\ tx.kind = "containerLease"
       /\ containers' = [containers EXCEPT ![tx.x.c] = IF Exists(tx.x.c) THEN [@ EXCEPT !.lease = tx.x.lease] ELSE None]
       /\ UNCHANGED <<blobs, blocks>>
    \/ /\ tx.kind = "deleteContainer"
       /\ containers' = [containers EXCEPT ![tx.x.c] = None]
       /\ blobs' = {r \in blobs : r.c # tx.x.c}
       /\ blocks' = {b \in blocks : b.c # tx.x.c}

Commit(tx) ==
    /\ \/ WriteContainers(tx) /\ UNCHANGED etags
       \/ WriteBlobs(tx) /\ UNCHANGED containers
    /\ open' = Outdated(open \ {tx})
    /\ regular' = (regular /\ tx.alone
                     /\ (tx.kind = "snapshot" => Row(tx.x.c, tx.x.n, tx.x.s) = {}))

----------------------------------------------------------------------------
Init ==
    /\ containers = [c \in Containers |-> None]
    /\ blobs = {} /\ blocks = {} /\ open = {}
    /\ etags = 0
    /\ regular = TRUE

Requester == LeaseIds \cup {None}

ContainerNext(c) ==
    \/ \E id \in Requester : DeleteContainer(c, id)
    \/ SetContainerMetadata(c)
    \/ \E access \in Access : SetContainerACL(c, access)

ContainerLeaseNext(c) ==
    \/ BreakContainerLease(c)
    \/ \E id \in LeaseIds :
          \/ AcquireContainerLease(c, id) \/ ReleaseContainerLease(c, id) \/ RenewContainerLease(c, id)
          \/ \E proposed \in LeaseIds : ChangeContainerLease(c, id, proposed)

BlobLeaseNext(c, n) ==
    \/ BreakBlobLease(c, n)
    \/ \E id \in LeaseIds :
          \/ AcquireBlobLease(c, n, id) \/ ReleaseBlobLease(c, n, id) \/ RenewBlobLease(c, n, id)
          \/ \E proposed \in LeaseIds : ChangeBlobLease(c, n, id, proposed)

BlobNext(c, n, id) ==
    \/ Unspent /\ \E cond \in Conditions :
          \/ \E data \in Data : CreateBlob(c, n, cond, id, data)
          \/ \E src \in blobs, tier \in {None, "Hot", "Archive"} : StartCopyFromURL(src, c, n, cond, id, tier)
          \/ SetBlobHTTPHeaders(c, n, cond, id)
          \/ SetBlobMetadata(c, n, cond, id)
          \/ \E list \in BlockLists : CommitBlockList(c, n, cond, id, list)
    \/ \E s \in Times \cup {0} :
          \/ SetBlobTag(c, n, s, id)
          \/ \E mode \in {"base", "snapshot", "include", "only"} : DeleteBlob(c, n, s, mode, id)
    \/ \E archived \in BOOLEAN : SetTier(c, n, id, archived)
    \/ \E blockId \in BlockIds, data \in Data : StageBlock(c, n, id, blockId, data)

Next ==
    \/ \E c \in Containers, access \in Access : CreateContainer(c, access)
    \/ Cardinality(open) < MaxOpen /\ \E c \in Containers :
          \/ ContainerNext(c) \/ ContainerLeaseNext(c)
          \/ \E n \in Names :
                \/ BlobLeaseNext(c, n)
                \/ \E t \in Times : CreateSnapshot(c, n, t)
                \/ \E id \in Requester : BlobNext(c, n, id)
    \/ \E tx \in open : Commit(tx)

Spec == Init /\ [][Next]_vars

----------------------------------------------------------------------------
(* Properties.                                                             *)

\* Whatever transactions overlap, an etag stands for one content: a client that
\* has an etag from SqlBlobMetadataStore never finds other bytes under it, in
\* the blob or in one of its snapshots.
EtagIdentifiesContent ==
    [][\A r \in blobs \cup blobs', r2 \in blobs' : r.etag = r2.etag => r.content = r2.content]_vars

\* The access of a container changes only where a setContainerACL that gives
\* this public access commits: no other transaction of SqlBlobMetadataStore,
\* whatever it read before, brings an earlier one back, and none, not even a
\* setContainerACL without public access, takes public access away.
AccessStands ==
    [][\A c \in Containers :
          /\ Exists(c) /\ containers'[c] # None
          /\ containers[c].access # containers'[c].access
          => /\ containers'[c].access # Private
             /\ \E tx \in open : /\ tx.kind = "setContainerACL"
                                 /\ tx.x = [c |-> c, access |-> containers'[c].access]
                                 /\ Cardinality(open') < Cardinality(open)]_vars

Leased(r) == r.lease.leaseState = "leased"
NamesLease(id, lease) == id # None /\ Lowercase[id] = Lowercase[lease.leaseId]

\* While transactions do not overlap, the content of a leased blob changes,
\* and a leased container is deleted, only in the name of the lease; a blob's
\* lease does not outlast its container.
LeaseGuardsContent ==
    [][regular' =>
          /\ \A r \in blobs : r.s = 0 /\ Leased(r) /\ containers'[r.c] # None =>
                \/ \E r2 \in blobs' : r2.c = r.c /\ r2.n = r.n /\ r2.s = 0 /\ r2.content = r.content
                \/ \E tx \in open : NamesLease(tx.leaseId, r.lease) /\ Cardinality(open') < Cardinality(open)
          /\ \A c \in Containers : Exists(c) /\ Leased(containers[c]) /\ containers'[c] = None =>
                \E tx \in open : NamesLease(tx.leaseId, containers[c].lease)]_vars

Objects ==
    {[c |-> r.c, n |-> r.n, s |-> r.s, etag |-> r.etag,
      view |-> [i \in DOMAIN r.content |-> r.content[i].data]]
        : r \in {r \in blobs : r.committed /\ Exists(r.c)}}

Service == INSTANCE BlobService WITH
              containers <- {c \in Containers : Exists(c)},
              objects <- Objects,
              used <- 1 .. etags,
              Etags <- 1 .. MaxEtags,
              Views <- UNION {[1 .. k -> Data] : k \in 0 .. MaxLen}

\* As long as transactions do not overlap and no two snapshots of a blob are
\* taken in the same millisecond, SqlBlobMetadataStore implements BlobService.
SerialImplementsBlobService ==
    [][regular' => Service!Next \/ UNCHANGED Service!vars]_vars
=============================================================================
