------------------------- MODULE SqlBlobStoreProofs -------------------------
(***************************************************************************)
(* SqlBlobMetadataStore under any number of overlapping transactions: an   *)
(* etag stands for one content and a change of access stands.  And, for    *)
(* the transactions that do not overlap: leases guard what they should,    *)
(* and the store implements BlobService.                                   *)
(*                                                                         *)
(* A transaction is `alone' until another one commits.  The argument for   *)
(* the last two properties is that what such a transaction has checked     *)
(* still holds when it commits (Fresh).  For the etags it is that the only *)
(* etag a transaction carries over an await, that of a snapshot, comes     *)
(* with the content it stands for (Coherent).                              *)
(***************************************************************************)
EXTENDS SqlBlobStore, FiniteSetTheorems, TLAPS

-----------------------------------------------------------------------------
(* Types.                                                                  *)

\* Without a clock a lease is free, infinite or broken.
Leases ==
    {AvailableLease} \cup {InfiniteLease(id) : id \in LeaseIds}
                     \cup {BrokenLease(id) : id \in LeaseIds}

\* The rows of blobs when e etags have been given out.
BlobRow(e) ==
    [c : Containers, n : Names, s : Times \cup {0}, committed : BOOLEAN, etag : 0 .. e,
     content : Contents, lease : Leases, archived : BOOLEAN]

Block == [c : Containers, n : Names, id : BlockIds, data : Data]
ContainerRow == [access : Access, lease : Leases]

\* What a transaction of each kind carries.
GoodPayload(kind, x, e) ==
    /\ kind \in {"put", "commitBlockList", "row"} => x \in BlobRow(e) /\ x.s = 0 /\ x.committed
    /\ kind = "snapshot" => x \in BlobRow(e) /\ x.s \in Times /\ x.committed
    /\ kind = "metadata" => x \in [c : Containers, n : Names, s : {0}, lease : Leases]
    /\ kind = "lease" => x \in [c : Containers, n : Names, s : Times \cup {0}, lease : Leases]
    /\ kind = "tier" =>
          x \in [c : Containers, n : Names, s : {0}, archived : BOOLEAN, etag : {None}]
    /\ kind = "stageBlock" =>
          /\ x.block \in Block
          /\ x.row # None => /\ x.row \in BlobRow(e) /\ x.row.s = 0 /\ ~x.row.committed
                             /\ x.row.lease = AvailableLease
    /\ kind = "deleteBlob" =>
          /\ x \in [c : Containers, n : Names, s : Times \cup {0},
                    mode : {"base", "snapshot", "include", "only"}]
          /\ x.s # 0 <=> x.mode = "snapshot"
    /\ kind \in {"setContainerMetadata", "setContainerACL"} =>
          x \in [c : Containers, access : Access]
    /\ kind = "containerLease" => x \in [c : Containers, lease : Leases]
    /\ kind = "deleteContainer" => x \in [c : Containers]

IsTx(tx) == tx = [kind |-> tx.kind, leaseId |-> tx.leaseId, x |-> tx.x, alone |-> tx.alone]

GoodTx(tx, e) ==
    /\ IsTx(tx) /\ tx.alone \in BOOLEAN
    /\ GoodPayload(tx.kind, tx.x, e)

\* The unique key of table Blobs.
GoodRows(B, e) ==
    /\ B \subseteq BlobRow(e)
    /\ \A r, q \in B : r.c = q.c /\ r.n = q.n /\ r.s = q.s => r = q

-----------------------------------------------------------------------------
(* The inductive invariant.                                                *)

\* What a transaction has checked of the rows it will write.
Fresh(kind, leaseId, x) ==
    /\ kind \in {"put", "commitBlockList"} =>
          /\ Exists(x.c)
          /\ \A r \in Committed(x.c, x.n, 0) : WriteLeaseValid(r.lease, leaseId)
    /\ kind = "row" =>
          Exists(x.c) /\ \E r \in Committed(x.c, x.n, 0) : x.content = r.content
    /\ kind \in {"metadata", "lease", "tier"} => Exists(x.c) /\ Committed(x.c, x.n, x.s) # {}
    /\ kind = "snapshot" =>
          /\ Exists(x.c)
          /\ \E r \in Committed(x.c, x.n, 0) : x.etag = r.etag /\ x.content = r.content
    /\ kind = "stageBlock" /\ x.row # None =>
          Exists(x.row.c) /\ Row(x.row.c, x.row.n, 0) = {}
    /\ kind = "deleteBlob" /\ x.mode \in {"base", "include"} =>
          \A r \in Committed(x.c, x.n, 0) : WriteLeaseValid(r.lease, leaseId)
    /\ kind = "deleteContainer" =>
          Exists(x.c) /\ WriteLeaseValid(containers[x.c].lease, leaseId)

\* The rows that snapshots under way will insert with the etags they have.
Carried == {tx.x : tx \in {t \in open : t.kind = "snapshot"}}

SameVersion(r, q) == r.etag = q.etag /\ r.content = q.content
Coherent(B) == \A r, q \in B : r.etag = q.etag => r.content = q.content

TypeInv ==
    /\ containers \in [Containers -> ContainerRow \cup {None}]
    /\ etags \in 0 .. MaxEtags
    /\ GoodRows(blobs, etags)
    /\ blocks \subseteq Block
    /\ IsFiniteSet(open) /\ \A tx \in open : GoodTx(tx, etags)
    /\ regular \in BOOLEAN

\* No row outlives its container, and an uncommitted one has no lease.
Orderly == \A r \in blobs : Exists(r.c) /\ (~r.committed => r.lease = AvailableLease)

IInv ==
    /\ TypeInv
    /\ Coherent(blobs \cup Carried)
    /\ \A tx \in open : tx.alone => Fresh(tx.kind, tx.leaseId, tx.x)
    /\ regular => Orderly

-----------------------------------------------------------------------------
(* Leases.                                                                 *)

LEMMA LeasesClosed ==
    /\ Leases \subseteq ILease
    /\ AvailableLease \in Leases
    /\ \A id \in LeaseIds : InfiniteLease(id) \in Leases /\ BrokenLease(id) \in Leases
  <1>1. AvailableLease \in ILease
    BY DEF AvailableLease, ILease
  <1>2. \A id \in LeaseIds : InfiniteLease(id) \in ILease /\ BrokenLease(id) \in ILease
    BY DEF InfiniteLease, BrokenLease, ILease
  <1> QED
    BY <1>1, <1>2 DEF Leases

\* A lease that is in force belongs to an id; the others are free or broken.
LEMMA LeaseShape ==
    ASSUME NEW l \in Leases
    PROVE  \/ l = AvailableLease /\ l.leaseState = "available"
           \/ \E id \in LeaseIds : l = InfiniteLease(id) /\ l.leaseState = "leased" /\ l.leaseId = id
                /\ l.leaseStatus = "locked" /\ l.leaseDurationType = "infinite"
           \/ \E id \in LeaseIds : l = BrokenLease(id) /\ l.leaseState = "broken" /\ l.leaseId = id
  BY DEF Leases, AvailableLease, InfiniteLease, BrokenLease

LEMMA SyncedLease ==
    ASSUME NEW l \in Leases
    PROVE  WriteLeaseSync(l) \in Leases
  BY LeasesClosed DEF WriteLeaseSync

\* What the five operations make of a lease.
LEMMA LeaseOperations ==
    ASSUME NEW l \in Leases
    PROVE  /\ \A id \in LeaseIds : Acquired(0, Infinite, id) \in Leases
           /\ \A id \in LeaseIds : RenewAllowed(l, id) => Renewed(l, 0) \in Leases
           /\ \A id, proposed \in LeaseIds :
                 ChangeAllowed(l, id, proposed) => Changed(l, proposed) \in Leases
           /\ BreakAllowed(l, 0) => Break(l, 0, 0) \in Leases
  <1>1. \A id \in LeaseIds : Acquired(0, Infinite, id) \in Leases
    BY LeasesClosed DEF Acquired
  <1>2. ASSUME NEW id \in LeaseIds, RenewAllowed(l, id)
        PROVE  Renewed(l, 0) \in Leases
    BY <1>2, LeaseShape DEF RenewAllowed, Renewed
  <1>3. ASSUME NEW id \in LeaseIds, NEW proposed \in LeaseIds, ChangeAllowed(l, id, proposed)
        PROVE  Changed(l, proposed) \in Leases
    <2>1. PICK x \in LeaseIds : l = InfiniteLease(x)
      BY <1>3, LeaseShape DEF ChangeAllowed
    <2>2. Changed(l, proposed) = InfiniteLease(proposed)
      BY <2>1 DEF Changed, InfiniteLease
    <2> QED
      BY <2>2, LeasesClosed
  <1>4. ASSUME BreakAllowed(l, 0)
        PROVE  Break(l, 0, 0) \in Leases
    <2>1. LeasedBreak(l, 0, 0) = BrokenLease(l.leaseId)
      BY LeaseAssumption DEF LeasedBreak
    <2>2. l.leaseState \in {"leased", "broken"} /\ l.leaseId \in LeaseIds
      BY <1>4, LeaseShape DEF BreakAllowed
    <2>3. Break(l, 0, 0) = BrokenLease(l.leaseId)
      BY <2>1, <2>2 DEF Break
    <2> QED
      BY <2>2, <2>3, LeasesClosed
  <1> QED
    BY <1>1, <1>2, <1>3, <1>4

\* A write that passes the validator of a held lease names it.
LEMMA ValidNamesLease ==
    ASSUME NEW l \in Leases, l.leaseState = "leased", NEW id, WriteLeaseValid(l, id)
    PROVE  NamesLease(id, l)
  <1>1. l.leaseStatus = "locked" /\ l.leaseId \in LeaseIds
    BY LeaseShape
  <1> QED
    BY <1>1, LeaseAssumption DEF WriteLeaseValid, NamesLease

-----------------------------------------------------------------------------
(* Rows.                                                                   *)

LEMMA RowGrows ==
    ASSUME NEW e \in Nat, NEW r \in BlobRow(e)
    PROVE  r \in BlobRow(e + 1)
  <1>1. 0 .. e \subseteq 0 .. e + 1
    OBVIOUS
  <1> QED
    BY <1>1 DEF BlobRow

LEMMA PayloadGrows ==
    ASSUME NEW e \in Nat, NEW kind, NEW x, GoodPayload(kind, x, e)
    PROVE  GoodPayload(kind, x, e + 1)
  BY RowGrows DEF GoodPayload

\* The fields that the transactions that go on have after a commit.
LEMMA OutdatedFields ==
    ASSUME NEW ts, \A t \in ts : IsTx(t), NEW o \in Outdated(ts)
    PROVE  /\ IsTx(o) /\ o.alone = FALSE
           /\ \E t \in ts : o.kind = t.kind /\ o.leaseId = t.leaseId /\ o.x = t.x
  <1>1. PICK t \in ts : o = [t EXCEPT !.alone = FALSE]
    BY DEF Outdated
  <1>2. t = [kind |-> t.kind, leaseId |-> t.leaseId, x |-> t.x, alone |-> t.alone]
    BY DEF IsTx
  <1> DEFINE k == t.kind
             i == t.leaseId
             x == t.x
             a == t.alone
  <1>3. t = [kind |-> k, leaseId |-> i, x |-> x, alone |-> a]
    BY <1>2
  <1> HIDE DEF k, i, x, a
  <1>4. o = [kind |-> k, leaseId |-> i, x |-> x, alone |-> FALSE]
    BY <1>1, <1>3
  <1>5. o.kind = k /\ o.leaseId = i /\ o.x = x /\ o.alone = FALSE
    BY <1>4
  <1> QED
    BY <1>4, <1>5 DEF IsTx, k, i, x

\* A commit closes a transaction.
LEMMA CommitShrinks ==
    ASSUME IsFiniteSet(open), NEW ts \in SUBSET open
    PROVE  /\ IsFiniteSet(Outdated(ts))
           /\ \A tx \in open : ts = open \ {tx} => Cardinality(Outdated(ts)) < Cardinality(open)
  <1> DEFINE f == [t \in ts |-> [t EXCEPT !.alone = FALSE]]
  <1>1. f \in Surjection(ts, Outdated(ts))
    BY DEF Surjection, Outdated
  <1> HIDE DEF f
  <1>2. IsFiniteSet(ts)
    BY FS_Subset
  <1>3. IsFiniteSet(Outdated(ts)) /\ Cardinality(Outdated(ts)) =< Cardinality(ts)
    BY <1>1, <1>2, FS_Surjection
  <1>4. ASSUME NEW tx \in open, ts = open \ {tx}
        PROVE  Cardinality(Outdated(ts)) < Cardinality(open)
    <2>1. Cardinality(ts) = Cardinality(open) - 1
      BY <1>4, FS_RemoveElement
    <2>2. Cardinality(open) \in Nat /\ Cardinality(Outdated(ts)) \in Nat
      BY <1>3, FS_CardinalityType
    <2> QED
      BY <1>3, <2>1, <2>2
  <1> QED
    BY <1>3, <1>4

-----------------------------------------------------------------------------
(* What a step has to achieve: the invariant and, of the four properties,  *)
(* what they say of one step.                                              *)

EtagStep ==
    \A r \in blobs \cup blobs', r2 \in blobs' : r.etag = r2.etag => r.content = r2.content

AccessStep ==
    \A c \in Containers :
       /\ Exists(c) /\ containers'[c] # None
       /\ containers[c].access # containers'[c].access
       => /\ containers'[c].access # Private
          /\ \E tx \in open : /\ tx.kind = "setContainerACL"
                              /\ tx.x = [c |-> c, access |-> containers'[c].access]
                              /\ Cardinality(open') < Cardinality(open)

BlobGuardStep ==
    \A r \in blobs : r.s = 0 /\ Leased(r) /\ containers'[r.c] # None =>
       \/ \E r2 \in blobs' : r2.c = r.c /\ r2.n = r.n /\ r2.s = 0 /\ r2.content = r.content
       \/ \E tx \in open : NamesLease(tx.leaseId, r.lease) /\ Cardinality(open') < Cardinality(open)

ContainerGuardStep ==
    \A c \in Containers : Exists(c) /\ Leased(containers[c]) /\ containers'[c] = None =>
       \E tx \in open : NamesLease(tx.leaseId, containers[c].lease)

ServiceStep == Service!Next \/ UNCHANGED Service!vars

StepOK ==
    /\ IInv' /\ EtagStep /\ AccessStep
    /\ regular' => BlobGuardStep /\ ContainerGuardStep /\ ServiceStep

LEMMA FreshKept ==
    ASSUME UNCHANGED <<containers, blobs>>, NEW kind, NEW leaseId, NEW x,
           Fresh(kind, leaseId, x)
    PROVE  Fresh(kind, leaseId, x)'
  BY DEF Fresh, Exists, Committed, Row, Rows

\* The rows that clients see.
View(content) == [i \in DOMAIN content |-> content[i].data]
Object(r) == [c |-> r.c, n |-> r.n, s |-> r.s, etag |-> r.etag, view |-> View(r.content)]
Visible(B) == {Object(r) : r \in {b \in B : b.committed}}

LEMMA ObjectsVisible == Orderly => Objects = Visible(blobs)
  BY DEF Orderly, Objects, Visible, Object, View

LEMMA ObjectsVisibleNext == Orderly' => Objects' = Visible(blobs')
  BY DEF Orderly, Objects, Visible, Object, View, Exists

\* A step that leaves the tables of containers and blobs alone.
LEMMA QuietStep ==
    ASSUME UNCHANGED <<containers, blobs, etags>>, Coherent(blobs)
    PROVE  /\ EtagStep /\ AccessStep /\ BlobGuardStep /\ ContainerGuardStep /\ ServiceStep
  <1>1. EtagStep
    BY DEF EtagStep, Coherent
  <1>2. AccessStep /\ BlobGuardStep /\ ContainerGuardStep
    BY DEF AccessStep, BlobGuardStep, ContainerGuardStep, Exists
  <1>3. UNCHANGED Service!vars
    BY DEF Service!vars, Objects, Exists
  <1> QED
    BY <1>1, <1>2, <1>3 DEF ServiceStep

\* A request reads and checks.
LEMMA BeginStep ==
    ASSUME IInv, NEW kind, NEW leaseId, NEW x, Begin(kind, leaseId, x),
           GoodPayload(kind, x, etags),
           kind = "snapshot" => \E r \in blobs : SameVersion(x, r),
           Fresh(kind, leaseId, x)
    PROVE  StepOK
  <1> DEFINE new == [kind |-> kind, leaseId |-> leaseId, x |-> x, alone |-> regular]
  <1>1. open' = open \cup {new} /\ UNCHANGED <<containers, blobs, blocks, etags, regular>>
    BY DEF Begin
  <1>2. new.kind = kind /\ new.leaseId = leaseId /\ new.x = x /\ new.alone = regular /\ IsTx(new)
    BY DEF IsTx
  <1> HIDE DEF new
  <1>3. IsFiniteSet(open')
    BY <1>1, FS_AddElement DEF IInv, TypeInv
  <1>4. \A tx \in open' : GoodTx(tx, etags)
    BY <1>1, <1>2 DEF IInv, TypeInv, GoodTx
  <1>5. TypeInv'
    BY <1>1, <1>3, <1>4 DEF IInv, TypeInv
  <1>6. Coherent(blobs' \cup Carried')
    <2>1. \A q \in Carried' : q \in Carried \/ (kind = "snapshot" /\ q = x)
      BY <1>1, <1>2 DEF Carried
    <2>2. \A q \in Carried' : \E r \in blobs \cup Carried : SameVersion(q, r)
      BY <2>1 DEF SameVersion
    <2>3. \A q \in blobs' \cup Carried' : \E r \in blobs \cup Carried : SameVersion(q, r)
      BY <1>1, <2>2 DEF SameVersion
    <2> HIDE DEF Carried
    <2> QED
      BY <2>3 DEF IInv, Coherent, SameVersion
  <1>7. \A tx \in open' : tx.alone => Fresh(tx.kind, tx.leaseId, tx.x)
    BY <1>1, <1>2 DEF IInv
  <1>8. ASSUME NEW tx \in open', tx.alone
        PROVE  Fresh(tx.kind, tx.leaseId, tx.x)'
    <2>1. PICK k, i, y : k = tx.kind /\ i = tx.leaseId /\ y = tx.x
      OBVIOUS
    <2>2. Fresh(k, i, y)
      BY <1>7, <1>8, <2>1
    <2>3. Fresh(k, i, y)'
      BY <1>1, <2>2, FreshKept
    <2> QED
      BY <2>1, <2>3
  <1>9. (regular => Orderly)'
    BY <1>1 DEF IInv, Orderly, Exists
  <1>10. IInv'
    BY <1>5, <1>6, <1>8, <1>9 DEF IInv
  <1>11. Coherent(blobs)
    BY DEF IInv, Coherent
  <1> QED
    BY <1>1, <1>10, <1>11, QuietStep DEF StepOK

\* A commit: the rows it writes are new, or versions that are there or
\* carried, and it makes the reads of all others outdated.
LEMMA CommitInv ==
    ASSUME IInv, NEW ts \in SUBSET open, open' = Outdated(ts),
           containers' \in [Containers -> ContainerRow \cup {None}],
           etags' = etags \/ (etags < MaxEtags /\ etags' = etags + 1),
           GoodRows(blobs', etags'), blocks' \subseteq Block, regular' \in BOOLEAN,
           \A r \in blobs' : \/ \E q \in blobs \cup Carried : SameVersion(r, q)
                             \/ /\ r.etag = etags + 1
                                /\ \A q \in blobs' : q.etag = etags + 1 => q.content = r.content,
           regular' => Orderly'
    PROVE  IInv' /\ EtagStep
  <1>1. etags \in Nat /\ etags' \in 0 .. MaxEtags
    BY SqlBlobStoreAssumption DEF IInv, TypeInv
  <1>2. \A t \in ts : IsTx(t) /\ GoodPayload(t.kind, t.x, etags)
    BY DEF IInv, TypeInv, GoodTx
  <1>3. \A o \in open' : /\ IsTx(o) /\ o.alone = FALSE
                         /\ \E t \in ts : o.kind = t.kind /\ o.x = t.x
    BY <1>2, OutdatedFields
  <1>4. \A t \in ts : GoodPayload(t.kind, t.x, etags')
    BY <1>1, <1>2, PayloadGrows
  <1>5. \A o \in open' : GoodTx(o, etags')
    BY <1>3, <1>4 DEF GoodTx
  <1>6. IsFiniteSet(open')
    BY CommitShrinks DEF IInv, TypeInv
  <1>7. TypeInv'
    BY <1>1, <1>5, <1>6 DEF TypeInv
  <1>8. Carried' \subseteq Carried
    BY <1>3 DEF Carried
  <1>9. \A q \in blobs \cup Carried : q.etag \in 0 .. etags
    <2>1. \A q \in Carried : q \in BlobRow(etags)
      BY DEF Carried, IInv, TypeInv, GoodTx, GoodPayload
    <2> QED
      BY <2>1 DEF IInv, TypeInv, GoodRows, BlobRow
  <1>10. \A r, q \in blobs' \cup blobs \cup Carried : r.etag = q.etag => r.content = q.content
    <2>1. Coherent(blobs \cup Carried)
      BY DEF IInv
    <2>2. \A q \in blobs \cup Carried : q.etag # etags + 1
      BY <1>1, <1>9
    <2>3. \A r \in blobs' \cup blobs \cup Carried :
             \/ \E q \in blobs \cup Carried : SameVersion(r, q)
             \/ /\ r \in blobs' /\ r.etag = etags + 1
                /\ \A q \in blobs' : q.etag = etags + 1 => q.content = r.content
      BY DEF SameVersion
    <2> QED
      BY <2>1, <2>2, <2>3 DEF Coherent, SameVersion
  <1>11. EtagStep /\ Coherent(blobs' \cup Carried')
    BY <1>8, <1>10 DEF EtagStep, Coherent
  <1>12. IInv'
    BY <1>3, <1>7, <1>11 DEF IInv
  <1> QED
    BY <1>11, <1>12

-----------------------------------------------------------------------------
(* Writing rows of blobs.                                                  *)

\* What is known when a transaction commits.
Committing(tx) ==
    /\ open' = Outdated(open \ {tx})
    /\ regular' \in BOOLEAN
    /\ regular' => /\ regular /\ Fresh(tx.kind, tx.leaseId, tx.x)
                   /\ tx.kind = "snapshot" => Row(tx.x.c, tx.x.n, tx.x.s) = {}

LEMMA CommitFacts ==
    ASSUME IInv, NEW tx \in open, Commit(tx)
    PROVE  Committing(tx) /\ GoodPayload(tx.kind, tx.x, etags) /\ etags \in Nat
  <1>1. GoodTx(tx, etags) /\ regular \in BOOLEAN /\ etags \in Nat
    BY SqlBlobStoreAssumption DEF IInv, TypeInv
  <1>2. /\ open' = Outdated(open \ {tx})
        /\ regular' = (regular /\ tx.alone
                         /\ (tx.kind = "snapshot" => Row(tx.x.c, tx.x.n, tx.x.s) = {}))
    BY DEF Commit
  <1> QED
    BY <1>1, <1>2 DEF Committing, GoodTx, IInv

\* The unique key selects at most one row.
LEMMA UpdatedRow ==
    ASSUME NEW e, GoodRows(blobs, e), NEW c, NEW n, NEW s, NEW q \in Row(c, n, s), NEW new,
           new.c = c, new.n = n, new.s = s
    PROVE  {IF r \in Row(c, n, s) THEN new ELSE r : r \in blobs} = Upserted(new)
  <1>1. q \in blobs /\ \A r \in blobs : r \in Row(c, n, s) <=> r = q
    BY DEF Row, Rows, GoodRows
  <1> QED
    BY <1>1 DEF Upserted

LEMMA UpsertedRows ==
    ASSUME NEW e, GoodRows(blobs, e), NEW f \in {e, e + 1}, e \in Nat, NEW new \in BlobRow(f)
    PROVE  GoodRows(Upserted(new), f)
  <1>1. blobs \subseteq BlobRow(f)
    BY RowGrows DEF GoodRows
  <1>2. \A r \in Upserted(new) : r = new \/ (r \in blobs /\ ~(r.c = new.c /\ r.n = new.n /\ r.s = new.s))
    BY DEF Upserted, Row, Rows
  <1> QED
    BY <1>1, <1>2 DEF GoodRows

LEMMA UpsertedVisible ==
    ASSUME NEW new
    PROVE  Visible(Upserted(new)) =
              {o \in Visible(blobs) : ~(o.c = new.c /\ o.n = new.n /\ o.s = new.s)}
                 \cup (IF new.committed THEN {Object(new)} ELSE {})
  <1>1. \A r : Object(r).c = r.c /\ Object(r).n = r.n /\ Object(r).s = r.s
    BY DEF Object
  <1>2. \A r : r \in Upserted(new) <=>
                  r = new \/ (r \in blobs /\ ~(r.c = new.c /\ r.n = new.n /\ r.s = new.s))
    BY DEF Upserted, Row, Rows
  <1> QED
    BY <1>1, <1>2 DEF Visible

LEMMA UpsertStep ==
    ASSUME IInv, NEW tx \in open, Committing(tx), containers' = containers, blocks' \subseteq Block,
           etags' = etags \/ (etags < MaxEtags /\ etags' = etags + 1),
           NEW new \in BlobRow(etags'), blobs' = Upserted(new),
           \/ etags' = etags + 1 /\ new.etag = etags'
           \/ \E q \in blobs \cup Carried : SameVersion(new, q),
           regular' => /\ Exists(new.c) /\ (~new.committed => new.lease = AvailableLease)
                       /\ \A r \in Row(new.c, new.n, new.s) : r.s = 0 /\ Leased(r) =>
                             r.content = new.content \/ NamesLease(tx.leaseId, r.lease)
    PROVE  /\ IInv' /\ EtagStep /\ AccessStep
           /\ regular' => BlobGuardStep /\ ContainerGuardStep /\ Orderly /\ Orderly'
  <1>1. etags \in Nat /\ GoodRows(blobs, etags) /\ (regular => Orderly)
    BY SqlBlobStoreAssumption DEF IInv, TypeInv
  <1>2. GoodRows(blobs', etags')
    BY <1>1, UpsertedRows
  <1>3. \A r \in blobs' : r = new \/ r \in blobs
    BY DEF Upserted
  <1>4. \A r \in blobs : r \in blobs' \/ r \in Row(new.c, new.n, new.s)
    BY DEF Upserted
  <1>5. new \in blobs'
    BY DEF Upserted
  <1>6. \A r \in blobs' : \/ \E q \in blobs \cup Carried : SameVersion(r, q)
                          \/ /\ r.etag = etags + 1
                             /\ \A q \in blobs' : q.etag = etags + 1 => q.content = r.content
    <2>1. \A r \in blobs : r.etag \in 0 .. etags
      BY <1>1 DEF GoodRows, BlobRow
    <2>2. \A r \in blobs : r.etag # etags + 1
      BY <1>1, <2>1
    <2>3. CASE etags' = etags + 1 /\ new.etag = etags'
      BY <1>3, <2>2, <2>3 DEF SameVersion
    <2>4. CASE \E q \in blobs \cup Carried : SameVersion(new, q)
      BY <1>3, <2>4 DEF SameVersion
    <2> QED
      BY <2>3, <2>4
  <1>7. regular' => Orderly /\ Orderly'
    BY <1>1, <1>3 DEF Orderly, Committing, Exists
  <1>8. IInv' /\ EtagStep
    <2>1. containers' \in [Containers -> ContainerRow \cup {None}]
      BY DEF IInv, TypeInv
    <2>2. open \ {tx} \in SUBSET open /\ open' = Outdated(open \ {tx}) /\ regular' \in BOOLEAN
      BY DEF Committing
    <2> QED
      BY <1>2, <1>6, <1>7, <2>1, <2>2, CommitInv
  <1>9. AccessStep /\ ContainerGuardStep
    BY DEF AccessStep, ContainerGuardStep, Exists
  <1>10. Cardinality(open') < Cardinality(open)
    BY CommitShrinks DEF Committing, IInv, TypeInv
  <1>11. ASSUME regular'
         PROVE  BlobGuardStep
    <2> SUFFICES ASSUME NEW r \in blobs, r.s = 0, Leased(r)
                 PROVE  \/ \E r2 \in blobs' : r2.c = r.c /\ r2.n = r.n /\ r2.s = 0 /\ r2.content = r.content
                        \/ NamesLease(tx.leaseId, r.lease)
      BY <1>10 DEF BlobGuardStep
    <2>1. CASE r \in blobs'
      BY <2>1
    <2>2. CASE r \in Row(new.c, new.n, new.s)
      BY <1>5, <1>11, <2>2 DEF Row, Rows
    <2> QED
      BY <1>4, <2>1, <2>2
  <1> QED
    BY <1>7, <1>8, <1>9, <1>11

LEMMA ViewType ==
    ASSUME NEW e, NEW r \in BlobRow(e)
    PROVE  Object(r).view \in UNION {[1 .. k -> Data] : k \in 0 .. MaxLen}
  <1>1. PICK k \in 0 .. MaxLen : r.content \in [1 .. k -> Chunk]
    BY DEF BlobRow, Contents
  <1>2. Object(r).view = [i \in DOMAIN r.content |-> r.content[i].data]
    BY DEF Object, View
  <1>3. [i \in DOMAIN r.content |-> r.content[i].data] \in [1 .. k -> Data]
    BY <1>1 DEF Chunk
  <1> QED
    BY <1>2, <1>3

\* A base blob gets a version under a new etag.
LEMMA WriteService ==
    ASSUME Orderly, Orderly', containers' = containers, etags \in Nat, etags < MaxEtags,
           etags' = etags + 1, NEW new \in BlobRow(etags'), new.etag = etags', new.s = 0,
           Exists(new.c), blobs' = Upserted(new),
           new.committed \/ Row(new.c, new.n, 0) = {}
    PROVE  ServiceStep
  <1>1. new.c \in Containers /\ new.n \in Names
    BY DEF BlobRow
  <1>2. Objects = Visible(blobs) /\ Objects' = Visible(blobs')
    BY ObjectsVisible, ObjectsVisibleNext
  <1>3. {c \in Containers : Exists(c)}' = {c \in Containers : Exists(c)}
    BY DEF Exists
  <1>4. 1 .. etags' = (1 .. etags) \cup {etags'} /\ etags' \in (1 .. MaxEtags) \ (1 .. etags)
    BY SqlBlobStoreAssumption
  <1>5. \/ \E o \in Objects' :
              /\ o.c = new.c /\ o.n = new.n /\ o.s = 0 /\ o.etag = etags'
              /\ o.view \in UNION {[1 .. k -> Data] : k \in 0 .. MaxLen}
              /\ Objects' = (Objects \ Service!Base(new.c, new.n)) \cup {o}
        \/ Objects' = Objects
    <2> DEFINE o == Object(new)
    <2>1. o.c = new.c /\ o.n = new.n /\ o.s = new.s /\ o.etag = new.etag
      BY DEF Object
    <2>2. o.view \in UNION {[1 .. k -> Data] : k \in 0 .. MaxLen}
      BY ViewType
    <2> HIDE DEF o
    <2>3. CASE new.committed
      <3>1. Objects' = (Objects \ Service!Base(new.c, new.n)) \cup {o}
        BY <1>2, <2>3, UpsertedVisible DEF Service!Base, Service!Of, o
      <3> QED
        BY <2>1, <2>2, <3>1
    <2>4. CASE ~new.committed
      <3>1. \A p \in Visible(blobs) : ~(p.c = new.c /\ p.n = new.n /\ p.s = new.s)
        BY <2>4 DEF Visible, Object, Row, Rows
      <3> QED
        BY <1>2, <2>4, <3>1, UpsertedVisible
    <2> QED
      BY <2>3, <2>4
  <1>6. Service!Write(new.c, new.n)
    BY <1>1, <1>3, <1>4, <1>5 DEF Service!Write
  <1> QED
    BY <1>1, <1>6 DEF ServiceStep, Service!Next

\* A row is written that clients see as they saw it.
LEMMA UnseenService ==
    ASSUME Orderly, Orderly', UNCHANGED <<containers, etags>>, NEW e, GoodRows(blobs, e),
           NEW new, NEW q \in Row(new.c, new.n, new.s), blobs' = Upserted(new),
           new.etag = q.etag, new.content = q.content, new.committed = q.committed
    PROVE  ServiceStep
  <1>1. Objects = Visible(blobs) /\ Objects' = Visible(blobs')
    BY ObjectsVisible, ObjectsVisibleNext
  <1>2. q \in blobs /\ q.c = new.c /\ q.n = new.n /\ q.s = new.s
    BY DEF Row, Rows
  <1>3. Object(new) = Object(q)
    BY <1>2 DEF Object
  <1>4. \A r : Object(r).c = r.c /\ Object(r).n = r.n /\ Object(r).s = r.s
    BY DEF Object
  <1>5. \A o \in Visible(blobs) : o.c = new.c /\ o.n = new.n /\ o.s = new.s => o = Object(q) /\ q.committed
    BY <1>2, <1>4 DEF Visible, GoodRows
  <1>6. q.committed => Object(q) \in Visible(blobs)
    BY <1>2 DEF Visible
  <1>7. Visible(blobs') = Visible(blobs)
    <2>1. Visible(blobs') = {o \in Visible(blobs) : ~(o.c = new.c /\ o.n = new.n /\ o.s = new.s)}
                               \cup (IF q.committed THEN {Object(q)} ELSE {})
      BY <1>3, UpsertedVisible
    <2>2. CASE q.committed
      BY <1>5, <1>6, <2>1, <2>2
    <2>3. CASE ~q.committed
      BY <1>5, <2>1, <2>3
    <2> QED
      BY <2>2, <2>3
  <1>8. UNCHANGED Service!vars
    BY <1>1, <1>7 DEF Service!vars, Exists
  <1> QED
    BY <1>8 DEF ServiceStep

-----------------------------------------------------------------------------
(* The commits, by the kind of the transaction.                            *)

\* createBlob, startCopyFromURL and commitBlockList.
LEMMA PutCommit ==
    ASSUME IInv, NEW tx \in open, Commit(tx), tx.kind \in {"put", "commitBlockList"}
    PROVE  StepOK
  <1> DEFINE x == tx.x
             new == [x EXCEPT !.etag = etags']
  <1>1. Committing(tx) /\ GoodPayload(tx.kind, x, etags) /\ etags \in Nat
    BY CommitFacts
  <1>2. /\ etags < MaxEtags /\ etags' = etags + 1 /\ containers' = containers
        /\ blobs' = Upserted(new) /\ blocks' \subseteq blocks
    BY DEF Commit, WriteContainers, WriteBlobs, NewEtag, Unspent
  <1>3. x \in BlobRow(etags) /\ x.s = 0 /\ x.committed
    BY <1>1 DEF GoodPayload
  <1>4. /\ new \in BlobRow(etags') /\ new.etag = etags' /\ new.s = 0 /\ new.committed
        /\ new.c = x.c /\ new.n = x.n
    BY <1>1, <1>2, <1>3 DEF BlobRow
  <1> HIDE DEF new
  <1>5. ASSUME regular'
        PROVE  /\ Exists(new.c) /\ (~new.committed => new.lease = AvailableLease)
               /\ \A r \in Row(new.c, new.n, new.s) : r.s = 0 /\ Leased(r) =>
                     r.content = new.content \/ NamesLease(tx.leaseId, r.lease)
    <2>1. /\ Exists(x.c)
          /\ \A r \in Committed(x.c, x.n, 0) : WriteLeaseValid(r.lease, tx.leaseId)
      BY <1>1, <1>5 DEF Committing, Fresh
    <2>2. regular => Orderly
      BY DEF IInv
    <2>3. ASSUME NEW r \in Row(new.c, new.n, new.s), Leased(r)
          PROVE  NamesLease(tx.leaseId, r.lease)
      <3>1. r \in blobs /\ r.lease \in Leases
        BY DEF Row, Rows, IInv, TypeInv, GoodRows, BlobRow
      <3>2. r.committed
        BY <1>1, <1>5, <2>2, <2>3, <3>1 DEF Committing, Orderly, Leased, AvailableLease
      <3>3. r \in Committed(x.c, x.n, 0)
        BY <1>4, <3>2 DEF Committed
      <3> QED
        BY <2>1, <2>3, <3>1, <3>3, ValidNamesLease DEF Leased
    <2> QED
      BY <1>4, <2>1, <2>3
  <1>6. blocks' \subseteq Block
    BY <1>2 DEF IInv, TypeInv
  <1>7. /\ IInv' /\ EtagStep /\ AccessStep
        /\ regular' => BlobGuardStep /\ ContainerGuardStep /\ Orderly /\ Orderly'
    BY <1>1, <1>2, <1>4, <1>5, <1>6, UpsertStep
  <1>8. regular' => ServiceStep
    BY <1>1, <1>2, <1>4, <1>5, <1>7, WriteService
  <1> QED
    BY <1>7, <1>8 DEF StepOK

\* createSnapshot.
LEMMA SnapshotCommit ==
    ASSUME IInv, NEW tx \in open, Commit(tx), tx.kind = "snapshot"
    PROVE  StepOK
  <1> DEFINE x == tx.x
  <1>1. Committing(tx) /\ GoodPayload(tx.kind, x, etags) /\ etags \in Nat
    BY CommitFacts
  <1>2. blobs' = Upserted(x) /\ UNCHANGED <<containers, blocks, etags>>
    BY DEF Commit, WriteContainers, WriteBlobs
  <1>3. x \in BlobRow(etags) /\ x.s \in Times /\ x.committed /\ x.s # 0
    BY <1>1, SqlBlobStoreAssumption DEF GoodPayload
  <1>4. x \in Carried /\ SameVersion(x, x)
    BY DEF Carried, SameVersion
  <1>5. regular' => /\ Exists(x.c) /\ Row(x.c, x.n, x.s) = {}
                    /\ \E r \in Committed(x.c, x.n, 0) : x.etag = r.etag /\ x.content = r.content
    BY <1>1 DEF Committing, Fresh
  <1>6. blocks' \subseteq Block
    BY <1>2 DEF IInv, TypeInv
  <1> HIDE DEF x
  <1>7. /\ IInv' /\ EtagStep /\ AccessStep
        /\ regular' => BlobGuardStep /\ ContainerGuardStep /\ Orderly /\ Orderly'
    BY <1>1, <1>2, <1>3, <1>4, <1>5, <1>6, UpsertStep
  <1>8. ASSUME regular'
        PROVE  ServiceStep
    <2>1. Objects = Visible(blobs) /\ Objects' = Visible(blobs')
      BY <1>7, <1>8, ObjectsVisible, ObjectsVisibleNext
    <2>2. PICK r \in Committed(x.c, x.n, 0) : x.etag = r.etag /\ x.content = r.content
      BY <1>5, <1>8
    <2>3. r \in blobs /\ r.c = x.c /\ r.n = x.n /\ r.s = 0 /\ r.committed
      BY <2>2 DEF Committed, Row, Rows
    <2>4. Object(x) = [Object(r) EXCEPT !.s = x.s]
      BY <2>2, <2>3 DEF Object
    <2>5. Object(r) \in Service!Base(x.c, x.n)
      BY <2>1, <2>3 DEF Service!Base, Service!Of, Visible, Object
    <2>6. \A p \in Visible(blobs) : ~(p.c = x.c /\ p.n = x.n /\ p.s = x.s)
      BY <1>5, <1>8 DEF Visible, Object, Row, Rows
    <2>7. Objects' = Objects \cup {[Object(r) EXCEPT !.s = x.s]}
      BY <1>2, <1>3, <2>1, <2>4, <2>6, UpsertedVisible
    <2>8. Service!Snapshot(x.c, x.n, x.s)
      BY <1>2, <2>5, <2>7 DEF Service!Snapshot, Exists
    <2>9. x.c \in Containers /\ x.n \in Names
      BY <1>3 DEF BlobRow
    <2> QED
      BY <1>3, <2>8, <2>9 DEF ServiceStep, Service!Next
  <1> QED
    BY <1>7, <1>8 DEF StepOK

\* An UPDATE that finds no row only spends an etag.
LEMMA NoRowCommit ==
    ASSUME IInv, NEW tx \in open, Committing(tx), UNCHANGED <<containers, blobs>>,
           blocks' \subseteq Block, ~regular',
           etags' = etags \/ (etags < MaxEtags /\ etags' = etags + 1)
    PROVE  StepOK
  <1>1. etags \in Nat /\ GoodRows(blobs, etags)
    BY SqlBlobStoreAssumption DEF IInv, TypeInv
  <1>2. GoodRows(blobs', etags')
    BY <1>1, RowGrows DEF GoodRows
  <1>3. \A r \in blobs' : \E q \in blobs \cup Carried : SameVersion(r, q)
    BY DEF SameVersion
  <1>4. IInv' /\ EtagStep
    <2>1. containers' \in [Containers -> ContainerRow \cup {None}]
      BY DEF IInv, TypeInv
    <2>2. open \ {tx} \in SUBSET open /\ open' = Outdated(open \ {tx}) /\ regular' \in BOOLEAN
      BY DEF Committing
    <2> QED
      BY <1>2, <1>3, <2>1, <2>2, CommitInv
  <1>5. AccessStep
    BY DEF AccessStep, Exists
  <1> QED
    BY <1>4, <1>5 DEF StepOK

\* setBlobHTTPHeaders: the whole row as it was read, under a new etag.
LEMMA RowCommit ==
    ASSUME IInv, NEW tx \in open, Commit(tx), tx.kind = "row"
    PROVE  StepOK
  <1> DEFINE x == tx.x
             new == [x EXCEPT !.etag = etags']
  <1>1. Committing(tx) /\ GoodPayload(tx.kind, x, etags) /\ etags \in Nat /\ GoodRows(blobs, etags)
    BY CommitFacts DEF IInv, TypeInv
  <1>2. /\ etags < MaxEtags /\ etags' = etags + 1 /\ UNCHANGED <<containers, blocks>>
        /\ blobs' = {IF r \in Row(x.c, x.n, x.s) THEN new ELSE r : r \in blobs}
    BY DEF Commit, WriteContainers, WriteBlobs, NewEtag, Unspent, Updated
  <1>3. x \in BlobRow(etags) /\ x.s = 0 /\ x.committed
    BY <1>1 DEF GoodPayload
  <1>4. /\ new \in BlobRow(etags') /\ new.etag = etags' /\ new.s = 0 /\ new.committed
        /\ new.c = x.c /\ new.n = x.n /\ new.content = x.content
    BY <1>1, <1>2, <1>3 DEF BlobRow
  <1>5. regular' => Exists(x.c) /\ \E r \in Committed(x.c, x.n, 0) : x.content = r.content
    BY <1>1 DEF Committing, Fresh
  <1>6. blocks' \subseteq Block
    BY <1>2 DEF IInv, TypeInv
  <1> HIDE DEF new, x
  <1>7. CASE Row(x.c, x.n, 0) = {}
    <2>1. blobs' = blobs
      BY <1>2, <1>3, <1>7
    <2>2. ~regular'
      BY <1>5, <1>7 DEF Committed
    <2> QED
      BY <1>1, <1>2, <1>6, <2>1, <2>2, NoRowCommit
  <1>8. CASE Row(x.c, x.n, 0) # {}
    <2>1. PICK q \in Row(x.c, x.n, 0) : TRUE
      BY <1>8
    <2>2. blobs' = Upserted(new)
      BY <1>1, <1>2, <1>3, <1>4, <2>1, UpdatedRow
    <2>3. \A r \in Row(x.c, x.n, 0) : r = q
      BY <1>1, <2>1 DEF GoodRows, Row, Rows
    <2>4. regular' => q.content = new.content
      BY <1>4, <1>5, <2>3 DEF Committed
    <2>5. /\ IInv' /\ EtagStep /\ AccessStep
          /\ regular' => BlobGuardStep /\ ContainerGuardStep /\ Orderly /\ Orderly'
      BY <1>1, <1>2, <1>4, <1>5, <1>6, <2>2, <2>3, <2>4, UpsertStep
    <2>6. regular' => ServiceStep
      BY <1>1, <1>2, <1>4, <1>5, <2>2, <2>5, WriteService
    <2> QED
      BY <2>5, <2>6 DEF StepOK
  <1> QED
    BY <1>7, <1>8

\* An UPDATE of columns other than the content.
LEMMA ChangeCommit ==
    ASSUME IInv, NEW tx \in open, Committing(tx), UNCHANGED <<containers, blocks>>,
           NEW c, NEW n, NEW s, NEW q \in Row(c, n, s), NEW new \in BlobRow(etags'),
           blobs' = {IF r \in Row(c, n, s) THEN new ELSE r : r \in blobs},
           new.c = c, new.n = n, new.s = s, new.content = q.content, new.committed = q.committed,
           \/ etags' = etags /\ new.etag = q.etag
           \/ etags < MaxEtags /\ etags' = etags + 1 /\ new.etag = etags' /\ s = 0,
           regular' => Exists(c) /\ q.committed
    PROVE  StepOK
  <1>1. etags \in Nat /\ GoodRows(blobs, etags) /\ blocks' \subseteq Block
    BY SqlBlobStoreAssumption DEF IInv, TypeInv
  <1>2. blobs' = Upserted(new)
    BY <1>1, UpdatedRow
  <1>3. q \in blobs /\ \A r \in Row(c, n, s) : r = q
    BY <1>1 DEF GoodRows, Row, Rows
  <1>4. \/ etags' = etags + 1 /\ new.etag = etags'
        \/ \E p \in blobs \cup Carried : SameVersion(new, p)
    BY <1>3 DEF SameVersion
  <1>5. /\ IInv' /\ EtagStep /\ AccessStep
        /\ regular' => BlobGuardStep /\ ContainerGuardStep /\ Orderly /\ Orderly'
    BY <1>1, <1>2, <1>3, <1>4, UpsertStep
  <1>6. ASSUME regular'
        PROVE  ServiceStep
    <2>1. CASE etags' = etags /\ new.etag = q.etag
      BY <1>1, <1>2, <1>5, <1>6, <2>1, UnseenService
    <2>2. CASE etags < MaxEtags /\ etags' = etags + 1 /\ new.etag = etags' /\ s = 0
      BY <1>1, <1>2, <1>5, <1>6, <2>2, WriteService
    <2> QED
      BY <2>1, <2>2
  <1> QED
    BY <1>5, <1>6 DEF StepOK

\* setBlobMetadata, setBlobTag, the lease operations and setTier.
LEMMA ColumnsCommit ==
    ASSUME IInv, NEW tx \in open, Commit(tx), tx.kind \in {"metadata", "lease", "tier"}
    PROVE  StepOK
  <1> DEFINE x == tx.x
             New(r) == IF tx.kind = "metadata" THEN [r EXCEPT !.etag = etags', !.lease = x.lease]
                       ELSE IF tx.kind = "lease" THEN [r EXCEPT !.lease = x.lease]
                       ELSE [r EXCEPT !.archived = x.archived, !.etag = r.etag]
  <1>1. Committing(tx) /\ GoodPayload(tx.kind, x, etags) /\ etags \in Nat /\ GoodRows(blobs, etags)
    BY CommitFacts DEF IInv, TypeInv
  <1>2. /\ tx.kind = "metadata" => x.s = 0 /\ x.lease \in Leases
        /\ tx.kind = "lease" => x.lease \in Leases
        /\ tx.kind = "tier" => x.archived \in BOOLEAN /\ x.etag = None
    BY <1>1 DEF GoodPayload
  <1>3. /\ UNCHANGED <<containers, blocks>>
        /\ IF tx.kind = "metadata" THEN etags < MaxEtags /\ etags' = etags + 1 ELSE etags' = etags
    BY DEF Commit, WriteContainers, WriteBlobs, NewEtag, Unspent
  <1>4. blobs' = {IF r \in Row(x.c, x.n, x.s) THEN New(r) ELSE r : r \in blobs}
    <2>1. CASE tx.kind = "metadata"
      BY <2>1 DEF Commit, WriteContainers, WriteBlobs, Updated
    <2>2. CASE tx.kind = "lease"
      BY <2>2 DEF Commit, WriteContainers, WriteBlobs, Updated
    <2>3. CASE tx.kind = "tier"
      BY <1>2, <2>3 DEF Commit, WriteContainers, WriteBlobs, Updated
    <2> QED
      BY <2>1, <2>2, <2>3
  <1>5. regular' => Exists(x.c) /\ Committed(x.c, x.n, x.s) # {}
    BY <1>1 DEF Committing, Fresh
  <1>6. CASE Row(x.c, x.n, x.s) = {}
    <2>1. blobs' = blobs
      BY <1>4, <1>6
    <2>2. ~regular' /\ blocks' \subseteq Block
      BY <1>3, <1>5, <1>6 DEF Committed, IInv, TypeInv
    <2> QED
      BY <1>1, <1>3, <2>1, <2>2, NoRowCommit
  <1>7. CASE Row(x.c, x.n, x.s) # {}
    <2>1. PICK q \in Row(x.c, x.n, x.s) : TRUE
      BY <1>7
    <2> DEFINE new == New(q)
    <2>2. \A r \in Row(x.c, x.n, x.s) : r = q
      BY <1>1, <2>1 DEF GoodRows, Row, Rows
    <2>3. q \in BlobRow(etags) /\ q.c = x.c /\ q.n = x.n /\ q.s = x.s
      BY <1>1, <2>1 DEF GoodRows, Row, Rows
    <2>4. /\ new \in BlobRow(etags') /\ new.c = q.c /\ new.n = q.n /\ new.s = q.s
          /\ new.content = q.content /\ new.committed = q.committed
          /\ new.etag = IF tx.kind = "metadata" THEN etags' ELSE q.etag
      <3>1. CASE tx.kind = "metadata"
        <4>1. etags' \in 0 .. etags' /\ 0 .. etags \subseteq 0 .. etags' /\ x.lease \in Leases
          BY <1>1, <1>2, <1>3, <3>1
        <4>2. new = [q EXCEPT !.etag = etags', !.lease = x.lease]
          BY <3>1
        <4> HIDE DEF new, x
        <4> QED
          BY <2>3, <3>1, <4>1, <4>2 DEF BlobRow
      <3>2. CASE tx.kind = "lease"
        BY <1>2, <1>3, <2>3, <3>2 DEF BlobRow
      <3>3. CASE tx.kind = "tier"
        BY <1>2, <1>3, <2>3, <3>3 DEF BlobRow
      <3> QED
        BY <3>1, <3>2, <3>3
    <2>5. blobs' = {IF r \in Row(x.c, x.n, x.s) THEN new ELSE r : r \in blobs}
      <3> HIDE DEF New
      <3> QED
        BY <1>4, <2>2
    <2>6. regular' => Exists(x.c) /\ q.committed
      BY <1>5, <2>2 DEF Committed
    <2> HIDE DEF new, New, x
    <2>7. \/ etags' = etags /\ new.etag = q.etag
          \/ etags < MaxEtags /\ etags' = etags + 1 /\ new.etag = etags' /\ x.s = 0
      BY <1>2, <1>3, <2>4
    <2> QED
      BY <1>1, <1>3, <2>1, <2>3, <2>4, <2>5, <2>6, <2>7, ChangeCommit
  <1> QED
    BY <1>6, <1>7

\* A commit that writes neither containers nor blobs.
LEMMA IdleCommit ==
    ASSUME IInv, NEW tx \in open, Committing(tx), UNCHANGED <<containers, blobs, etags>>,
           blocks' \subseteq Block
    PROVE  StepOK
  <1>1. /\ GoodRows(blobs', etags') /\ (regular => Orderly) /\ Coherent(blobs)
        /\ containers' \in [Containers -> ContainerRow \cup {None}]
    BY DEF IInv, TypeInv, Coherent
  <1>2. \A r \in blobs' : \E q \in blobs \cup Carried : SameVersion(r, q)
    BY DEF SameVersion
  <1>3. /\ open \ {tx} \in SUBSET open /\ open' = Outdated(open \ {tx}) /\ regular' \in BOOLEAN
        /\ regular' => Orderly'
    BY <1>1 DEF Committing, Orderly, Exists
  <1>4. IInv' /\ EtagStep
    BY <1>1, <1>2, <1>3, CommitInv
  <1> QED
    BY <1>1, <1>4, QuietStep DEF StepOK

LEMMA StageCommit ==
    ASSUME IInv, NEW tx \in open, Commit(tx), tx.kind = "stageBlock"
    PROVE  StepOK
  <1> DEFINE x == tx.x
             b == x.block
             new == [x.row EXCEPT !.etag = etags']
  <1>1. Committing(tx) /\ GoodPayload(tx.kind, x, etags) /\ etags \in Nat
    BY CommitFacts
  <1>2. /\ containers' = containers
        /\ blocks' = {o \in blocks : ~(o.c = b.c /\ o.n = b.n /\ o.id = b.id)} \cup {b}
        /\ x.row = None => UNCHANGED <<blobs, etags>>
        /\ x.row # None => etags < MaxEtags /\ etags' = etags + 1 /\ blobs' = Upserted(new)
    BY DEF Commit, WriteContainers, WriteBlobs, NewEtag, Unspent
  <1>3. blocks' \subseteq Block
    BY <1>1, <1>2 DEF GoodPayload, IInv, TypeInv
  <1>4. CASE x.row = None
    BY <1>1, <1>2, <1>3, <1>4, IdleCommit
  <1>5. CASE x.row # None
    <2>1. /\ x.row \in BlobRow(etags) /\ x.row.s = 0 /\ ~x.row.committed
          /\ x.row.lease = AvailableLease
      BY <1>1, <1>5 DEF GoodPayload
    <2> DEFINE row == x.row
    <2>2. row \in BlobRow(etags) /\ new = [row EXCEPT !.etag = etags']
      BY <2>1
    <2>3. etags' \in 0 .. etags' /\ 0 .. etags \subseteq 0 .. etags'
      BY <1>1, <1>2, <1>5
    <2>4. regular' => Exists(row.c) /\ Row(row.c, row.n, 0) = {}
      BY <1>1, <1>5 DEF Committing, Fresh
    <2> HIDE DEF new, row
    <2>5. /\ new \in BlobRow(etags') /\ new.etag = etags' /\ new.c = row.c /\ new.n = row.n
          /\ new.s = row.s /\ new.committed = row.committed /\ new.lease = row.lease
      BY <2>2, <2>3 DEF BlobRow
    <2>6. new.s = 0 /\ ~new.committed /\ new.lease = AvailableLease
      BY <2>1, <2>5 DEF row
    <2>7. regular' => Exists(new.c) /\ Row(new.c, new.n, new.s) = {}
      BY <2>4, <2>5, <2>6
    <2> HIDE DEF x
    <2>8. /\ IInv' /\ EtagStep /\ AccessStep
          /\ regular' => BlobGuardStep /\ ContainerGuardStep /\ Orderly /\ Orderly'
      BY <1>1, <1>2, <1>3, <1>5, <2>5, <2>6, <2>7, UpsertStep
    <2>9. regular' => ServiceStep
      BY <1>1, <1>2, <1>5, <2>5, <2>6, <2>7, <2>8, WriteService
    <2> QED
      BY <2>8, <2>9 DEF StepOK
  <1> QED
    BY <1>4, <1>5

\* deleteBlob.
LEMMA DeleteCommit ==
    ASSUME IInv, NEW tx \in open, Commit(tx), tx.kind = "deleteBlob"
    PROVE  StepOK
  <1> DEFINE x == tx.x
  <1>1. Committing(tx) /\ GoodPayload(tx.kind, x, etags) /\ GoodRows(blobs, etags)
    BY CommitFacts DEF IInv, TypeInv
  <1>2. /\ UNCHANGED <<containers, etags>> /\ blocks' \subseteq blocks
        /\ blobs' = blobs \ Deleted(x)
    BY DEF Commit, WriteContainers, WriteBlobs
  <1>3. /\ x.c \in Containers /\ x.n \in Names /\ x.s \in Times \cup {0}
        /\ x.mode \in {"base", "snapshot", "include", "only"}
        /\ x.s # 0 <=> x.mode = "snapshot"
    BY <1>1 DEF GoodPayload
  <1>4. \A r \in blobs : r \in blobs' <=>
           ~(/\ r.c = x.c /\ r.n = x.n
             /\ \/ x.mode \in {"base", "include"}
                \/ x.mode = "snapshot" /\ r.s = x.s
                \/ x.mode = "only" /\ r.s # 0)
    BY <1>2, <1>3 DEF Deleted, Row, Rows
  <1>5. blobs' \subseteq blobs
    BY <1>2
  <1>6. regular' /\ x.mode \in {"base", "include"} =>
           \A r \in Committed(x.c, x.n, 0) : WriteLeaseValid(r.lease, tx.leaseId)
    BY <1>1 DEF Committing, Fresh
  <1> HIDE DEF x
  <1>7. regular' => Orderly /\ Orderly'
    BY <1>1, <1>2, <1>5 DEF IInv, Committing, Orderly, Exists
  <1>8. IInv' /\ EtagStep
    <2>1. GoodRows(blobs', etags')
      BY <1>1, <1>2, <1>5 DEF GoodRows
    <2>2. \A r \in blobs' : \E q \in blobs \cup Carried : SameVersion(r, q)
      BY <1>5 DEF SameVersion
    <2>3. /\ open \ {tx} \in SUBSET open /\ open' = Outdated(open \ {tx}) /\ regular' \in BOOLEAN
          /\ containers' \in [Containers -> ContainerRow \cup {None}] /\ blocks' \subseteq Block
      BY <1>1, <1>2 DEF Committing, IInv, TypeInv
    <2> QED
      BY <1>2, <1>7, <2>1, <2>2, <2>3, CommitInv
  <1>9. AccessStep /\ ContainerGuardStep
    BY <1>2 DEF AccessStep, ContainerGuardStep, Exists
  <1>10. Cardinality(open') < Cardinality(open)
    BY <1>1, CommitShrinks DEF Committing, IInv, TypeInv
  <1>11. ASSUME regular'
         PROVE  BlobGuardStep
    <2> SUFFICES ASSUME NEW r \in blobs, r.s = 0, Leased(r), r \notin blobs'
                 PROVE  NamesLease(tx.leaseId, r.lease)
      BY <1>10 DEF BlobGuardStep
    <2>1. r.c = x.c /\ r.n = x.n /\ x.mode \in {"base", "include"}
      BY <1>3, <1>4
    <2>2. r.lease \in Leases
      BY <1>1 DEF GoodRows, BlobRow
    <2>3. r.committed
      BY <1>7, <1>11 DEF Orderly, Leased, AvailableLease
    <2>4. r \in Committed(x.c, x.n, 0)
      BY <2>1, <2>3 DEF Committed, Row, Rows
    <2> QED
      BY <1>6, <1>11, <2>1, <2>2, <2>4, ValidNamesLease DEF Leased
  <1>12. ASSUME regular'
         PROVE  ServiceStep
    <2>1. Objects = Visible(blobs) /\ Objects' = Visible(blobs')
      BY <1>7, <1>12, ObjectsVisible, ObjectsVisibleNext
    <2>2. \A r : Object(r).c = r.c /\ Object(r).n = r.n /\ Object(r).s = r.s
      BY DEF Object
    <2>3. Objects' = {o \in Objects :
             ~(/\ o.c = x.c /\ o.n = x.n
               /\ \/ x.mode \in {"base", "include"}
                  \/ x.mode = "snapshot" /\ o.s = x.s
                  \/ x.mode = "only" /\ o.s # 0)}
      BY <1>4, <1>5, <2>1, <2>2 DEF Visible
    <2>4. Objects' \in {Objects \ Service!Of(x.c, x.n), Objects \ Service!Snapshots(x.c, x.n)}
                 \cup {{o \in Objects : ~(o \in Service!Of(x.c, x.n) /\ o.s = t)} : t \in Times}
      <3>1. CASE x.mode \in {"base", "include"}
        <4>1. Objects' = Objects \ Service!Of(x.c, x.n)
          BY <2>3, <3>1 DEF Service!Of
        <4> QED
          BY <4>1
      <3>2. CASE x.mode = "snapshot"
        <4>1. x.s \in Times
          BY <1>3, <3>2
        <4>2. Objects' = {o \in Objects : ~(o \in Service!Of(x.c, x.n) /\ o.s = x.s)}
          BY <2>3, <3>2 DEF Service!Of
        <4> QED
          BY <4>1, <4>2
      <3>3. CASE x.mode = "only"
        <4>1. Objects' = Objects \ Service!Snapshots(x.c, x.n)
          BY <2>3, <3>3 DEF Service!Of, Service!Base, Service!Snapshots
        <4> QED
          BY <4>1
      <3> QED
        BY <1>3, <3>1, <3>2, <3>3
    <2>5. Service!Delete(x.c, x.n)
      BY <1>2, <2>4 DEF Service!Delete, Exists
    <2> QED
      BY <1>3, <2>5 DEF ServiceStep, Service!Next
  <1> QED
    BY <1>8, <1>9, <1>11, <1>12 DEF StepOK

-----------------------------------------------------------------------------
(* Containers.                                                             *)

LEMMA RowIsNotNone == None \notin ContainerRow
  BY LeasesClosed, SqlBlobStoreAssumption DEF ContainerRow

\* A commit that changes columns of containers that exist.
LEMMA ContainerColumns ==
    ASSUME IInv, NEW tx \in open, Committing(tx), UNCHANGED <<blobs, blocks, etags>>,
           containers' \in [Containers -> ContainerRow \cup {None}],
           \A c \in Containers : Exists(c)' <=> Exists(c)
    PROVE  /\ IInv' /\ EtagStep
           /\ regular' => BlobGuardStep /\ ContainerGuardStep /\ ServiceStep
  <1>1. GoodRows(blobs', etags') /\ (regular => Orderly) /\ Coherent(blobs)
    BY DEF IInv, TypeInv, Coherent
  <1>2. \A r \in blobs : r.c \in Containers
    BY DEF IInv, TypeInv, GoodRows, BlobRow
  <1>3. \A r \in blobs' : \E q \in blobs \cup Carried : SameVersion(r, q)
    BY DEF SameVersion
  <1>4. /\ open \ {tx} \in SUBSET open /\ open' = Outdated(open \ {tx}) /\ regular' \in BOOLEAN
        /\ regular' => Orderly /\ Orderly'
    BY <1>1, <1>2 DEF Committing, Orderly, IInv, TypeInv
  <1>5. blocks' \subseteq Block
    BY DEF IInv, TypeInv
  <1>6. IInv' /\ EtagStep
    BY <1>1, <1>3, <1>4, <1>5, CommitInv
  <1>7. BlobGuardStep /\ ContainerGuardStep
    BY DEF BlobGuardStep, ContainerGuardStep, Exists
  <1>8. ASSUME regular'
        PROVE  ServiceStep
    <2>1. Objects' = Objects
      BY <1>4, <1>8, ObjectsVisible, ObjectsVisibleNext
    <2>2. UNCHANGED Service!vars
      BY <2>1 DEF Service!vars
    <2> QED
      BY <2>2 DEF ServiceStep
  <1> QED
    BY <1>6, <1>7, <1>8

LEMMA ColumnKept ==
    ASSUME IInv, NEW c \in Containers, NEW new, new \in ContainerRow,
           containers' = [containers EXCEPT ![c] = IF Exists(c) THEN new ELSE None]
    PROVE  /\ containers' \in [Containers -> ContainerRow \cup {None}]
           /\ \A d \in Containers : Exists(d)' <=> Exists(d)
           /\ \A d \in Containers : d # c => containers'[d] = containers[d]
           /\ Exists(c) => containers'[c] = new
  BY RowIsNotNone DEF IInv, TypeInv, Exists

\* setContainerMetadata, setContainerACL and the lease operations.
LEMMA ContainerCommit ==
    ASSUME IInv, NEW tx \in open, Commit(tx),
           tx.kind \in {"setContainerMetadata", "setContainerACL", "containerLease"}
    PROVE  StepOK
  <1> DEFINE x == tx.x
             c == x.c
             old == containers[c]
  <1>1. Committing(tx) /\ GoodPayload(tx.kind, x, etags)
    BY CommitFacts
  <1>2. UNCHANGED <<blobs, blocks, etags>>
    BY DEF Commit, WriteContainers, WriteBlobs
  <1>3. CASE tx.kind = "setContainerMetadata"
    <2>1. containers' = containers
      BY <1>3 DEF Commit, WriteContainers, WriteBlobs
    <2>2. blocks' \subseteq Block
      BY <1>2 DEF IInv, TypeInv
    <2> QED
      BY <1>1, <1>2, <2>1, <2>2, IdleCommit
  <1>4. tx.kind # "setContainerMetadata" => c \in Containers /\ (Exists(c) => old \in ContainerRow)
    BY <1>1 DEF GoodPayload, IInv, TypeInv, Exists
  <1>5. CASE tx.kind = "setContainerACL"
    <2> DEFINE new == AccessGiven(old, x.access)
    <2>1. /\ x \in [c : Containers, access : Access]
          /\ containers' = [containers EXCEPT ![c] = IF Exists(c) THEN new ELSE None]
      BY <1>1, <1>5 DEF GoodPayload, Commit, WriteContainers, WriteBlobs
    <2>2. Exists(c) => /\ new \in ContainerRow
                       /\ new.access # old.access => new.access = x.access /\ x.access # Private
      BY <1>4, <1>5, <2>1 DEF ContainerRow, AccessGiven
    <2>3. x = [c |-> c, access |-> x.access]
      BY <2>1
    <2> HIDE DEF new, x
    <2>4. CASE ~Exists(c)
      <3>1. containers' = containers
        BY <1>4, <1>5, <2>1, <2>4 DEF Exists, IInv, TypeInv
      <3>2. blocks' \subseteq Block
        BY <1>2 DEF IInv, TypeInv
      <3> QED
        BY <1>1, <1>2, <3>1, <3>2, IdleCommit
    <2>5. CASE Exists(c)
      <3>1. /\ containers' \in [Containers -> ContainerRow \cup {None}]
            /\ \A d \in Containers : Exists(d)' <=> Exists(d)
            /\ \A d \in Containers : d # c => containers'[d] = containers[d]
            /\ containers'[c] = new
        BY <1>4, <1>5, <2>1, <2>2, <2>5, ColumnKept
      <3>2. Cardinality(open') < Cardinality(open)
        BY <1>1, CommitShrinks DEF Committing, IInv, TypeInv
      <3>3. AccessStep
        <4> SUFFICES ASSUME NEW d \in Containers, containers[d].access # containers'[d].access
                     PROVE  /\ containers'[d].access # Private
                            /\ tx.kind = "setContainerACL"
                            /\ tx.x = [c |-> d, access |-> containers'[d].access]
                            /\ Cardinality(open') < Cardinality(open)
          BY DEF AccessStep
        <4>1. d = c
          BY <3>1
        <4> QED
          <5>1. new.access = x.access /\ x.access # Private
            BY <2>2, <2>5, <3>1, <4>1
          <5>2. tx.x = [c |-> d, access |-> new.access]
            BY <2>3, <4>1, <5>1 DEF x
          <5> QED
            BY <1>5, <3>1, <3>2, <4>1, <5>1, <5>2
      <3> QED
        BY <1>1, <1>2, <3>1, <3>3, ContainerColumns DEF StepOK
    <2> QED
      BY <2>4, <2>5
  <1>6. CASE tx.kind = "containerLease"
    <2> DEFINE new == [old EXCEPT !.lease = x.lease]
    <2>1. /\ x \in [c : Containers, lease : Leases]
          /\ containers' = [containers EXCEPT ![c] = IF Exists(c) THEN new ELSE None]
      BY <1>1, <1>6 DEF GoodPayload, Commit, WriteContainers, WriteBlobs
    <2>2. Exists(c) => new \in ContainerRow /\ new.access = old.access
      BY <1>4, <1>6, <2>1 DEF ContainerRow
    <2> HIDE DEF new, x
    <2>3. CASE ~Exists(c)
      <3>1. containers' = containers
        BY <1>4, <1>6, <2>1, <2>3 DEF Exists, IInv, TypeInv
      <3>2. blocks' \subseteq Block
        BY <1>2 DEF IInv, TypeInv
      <3> QED
        BY <1>1, <1>2, <3>1, <3>2, IdleCommit
    <2>4. CASE Exists(c)
      <3>1. /\ containers' \in [Containers -> ContainerRow \cup {None}]
            /\ \A d \in Containers : Exists(d)' <=> Exists(d)
            /\ \A d \in Containers : d # c => containers'[d] = containers[d]
            /\ containers'[c] = new
        BY <1>4, <1>6, <2>1, <2>2, <2>4, ColumnKept
      <3>2. AccessStep
        BY <2>2, <2>4, <3>1 DEF AccessStep
      <3> QED
        BY <1>1, <1>2, <3>1, <3>2, ContainerColumns DEF StepOK
    <2> QED
      BY <2>3, <2>4
  <1> QED
    BY <1>3, <1>5, <1>6

LEMMA DeleteContainerCommit ==
    ASSUME IInv, NEW tx \in open, Commit(tx), tx.kind = "deleteContainer"
    PROVE  StepOK
  <1> DEFINE c == tx.x.c
  <1>1. Committing(tx) /\ GoodPayload(tx.kind, tx.x, etags) /\ GoodRows(blobs, etags)
    BY CommitFacts DEF IInv, TypeInv
  <1>2. /\ containers' = [containers EXCEPT ![c] = None] /\ etags' = etags
        /\ blobs' = {r \in blobs : r.c # c} /\ blocks' \subseteq blocks
    BY DEF Commit, WriteContainers, WriteBlobs
  <1>3. c \in Containers
    BY <1>1 DEF GoodPayload
  <1>4. regular' => Exists(c) /\ WriteLeaseValid(containers[c].lease, tx.leaseId)
    BY <1>1 DEF Committing, Fresh
  <1> HIDE DEF c
  <1>5. /\ containers' \in [Containers -> ContainerRow \cup {None}]
        /\ \A d \in Containers : d # c => containers'[d] = containers[d]
        /\ containers'[c] = None
    BY <1>2, <1>3 DEF IInv, TypeInv
  <1>6. \A r \in blobs : r.c \in Containers
    BY <1>1 DEF GoodRows, BlobRow
  <1>7. regular' => Orderly /\ Orderly'
    BY <1>1, <1>2, <1>5, <1>6 DEF IInv, Committing, Orderly, Exists
  <1>8. IInv' /\ EtagStep
    <2>1. GoodRows(blobs', etags')
      BY <1>1, <1>2 DEF GoodRows
    <2>2. \A r \in blobs' : \E q \in blobs \cup Carried : SameVersion(r, q)
      BY <1>2 DEF SameVersion
    <2>3. /\ open \ {tx} \in SUBSET open /\ open' = Outdated(open \ {tx}) /\ regular' \in BOOLEAN
          /\ blocks' \subseteq Block
      BY <1>1, <1>2 DEF Committing, IInv, TypeInv
    <2> QED
      BY <1>2, <1>5, <1>7, <2>1, <2>2, <2>3, CommitInv
  <1>9. AccessStep
    BY <1>5 DEF AccessStep
  <1>10. BlobGuardStep
    BY <1>2, <1>5, <1>6 DEF BlobGuardStep
  <1>11. ASSUME regular'
         PROVE  ContainerGuardStep
    <2> SUFFICES ASSUME NEW d \in Containers, Exists(d), Leased(containers[d]), containers'[d] = None
                 PROVE  NamesLease(tx.leaseId, containers[d].lease)
      BY DEF ContainerGuardStep
    <2>1. d = c
      BY <1>5 DEF Exists
    <2>2. containers[d].lease \in Leases
      BY DEF IInv, TypeInv, Exists, ContainerRow
    <2> QED
      BY <1>4, <1>11, <2>1, <2>2, ValidNamesLease DEF Leased
  <1>12. ASSUME regular'
         PROVE  ServiceStep
    <2>1. Objects = Visible(blobs) /\ Objects' = Visible(blobs')
      BY <1>7, <1>12, ObjectsVisible, ObjectsVisibleNext
    <2>2. Objects' = {o \in Objects : o.c # c}
      BY <1>2, <2>1 DEF Visible, Object
    <2>3. {d \in Containers : Exists(d)}' = {d \in Containers : Exists(d)} \ {c}
      BY <1>5 DEF Exists
    <2>4. Service!DeleteContainer(c)
      BY <1>2, <1>3, <1>4, <1>12, <2>2, <2>3 DEF Service!DeleteContainer
    <2> QED
      BY <1>3, <2>4 DEF ServiceStep, Service!Next
  <1> QED
    BY <1>8, <1>9, <1>10, <1>11, <1>12 DEF StepOK

LEMMA CreateContainerStep ==
    ASSUME IInv, NEW c \in Containers, NEW access \in Access, CreateContainer(c, access)
    PROVE  StepOK
  <1> DEFINE new == [access |-> access, lease |-> AvailableLease]
  <1>1. /\ ~Exists(c) /\ containers' = [containers EXCEPT ![c] = new]
        /\ open' = Outdated(open) /\ UNCHANGED <<blobs, blocks, etags, regular>>
    BY DEF CreateContainer
  <1>2. new \in ContainerRow
    BY LeasesClosed, SqlBlobStoreAssumption DEF ContainerRow
  <1> HIDE DEF new
  <1>3. /\ containers' \in [Containers -> ContainerRow \cup {None}]
        /\ \A d \in Containers : d # c => containers'[d] = containers[d]
        /\ containers'[c] # None
    BY <1>1, <1>2, RowIsNotNone DEF IInv, TypeInv
  <1>4. \A r \in blobs : r.c \in Containers
    BY DEF IInv, TypeInv, GoodRows, BlobRow
  <1>5. regular' => Orderly /\ Orderly'
    BY <1>1, <1>3, <1>4 DEF IInv, Orderly, Exists
  <1>6. IInv' /\ EtagStep
    <2>1. GoodRows(blobs', etags') /\ regular' \in BOOLEAN /\ blocks' \subseteq Block
      BY <1>1 DEF IInv, TypeInv
    <2>2. \A r \in blobs' : \E q \in blobs \cup Carried : SameVersion(r, q)
      BY <1>1 DEF SameVersion
    <2>3. open \in SUBSET open
      OBVIOUS
    <2> QED
      BY <1>1, <1>3, <1>5, <2>1, <2>2, <2>3, CommitInv
  <1>7. AccessStep /\ BlobGuardStep /\ ContainerGuardStep
    BY <1>1, <1>3 DEF AccessStep, BlobGuardStep, ContainerGuardStep, Exists
  <1>8. ASSUME regular'
        PROVE  ServiceStep
    <2>1. Objects' = Objects
      BY <1>1, <1>5, <1>8, ObjectsVisible, ObjectsVisibleNext
    <2>2. {d \in Containers : Exists(d)}' = {d \in Containers : Exists(d)} \cup {c}
      BY <1>3 DEF Exists
    <2>3. Service!CreateContainer(c)
      BY <1>1, <2>1, <2>2 DEF Service!CreateContainer
    <2> QED
      BY <2>3 DEF ServiceStep, Service!Next
  <1> QED
    BY <1>6, <1>7, <1>8 DEF StepOK

-----------------------------------------------------------------------------
(* The requests: what they have checked is what they need.                 *)

LEMMA BlobTypes ==
    ASSUME IInv, NEW c, NEW n, NEW s, NEW r \in Row(c, n, s)
    PROVE  /\ r \in blobs /\ r \in BlobRow(etags) /\ r.c = c /\ r.n = n /\ r.s = s
           /\ r.content \in Contents /\ r.lease \in Leases /\ r.archived \in BOOLEAN
           /\ \A q \in Row(c, n, s) : q = r
  BY DEF Row, Rows, IInv, TypeInv, GoodRows, BlobRow

LEMMA ContainerTypes ==
    ASSUME IInv, NEW c \in Containers, Exists(c)
    PROVE  containers[c].access \in Access /\ containers[c].lease \in Leases
  BY DEF IInv, TypeInv, Exists, ContainerRow

LEMMA NewRowType ==
    ASSUME NEW e \in Nat, NEW c \in Containers, NEW n \in Names, NEW content \in Contents,
           NEW lease \in Leases
    PROVE  LET x == NewRow(c, n, content, lease)
           IN x \in BlobRow(e) /\ x.c = c /\ x.n = n /\ x.s = 0 /\ x.committed /\ x.lease = lease
  BY DEF NewRow, BlobRow

LEMMA ContainerRequest ==
    ASSUME IInv, NEW c \in Containers, ContainerNext(c)
    PROVE  StepOK
  <1>1. ASSUME NEW id, DeleteContainer(c, id)
        PROVE  StepOK
    <2> DEFINE x == [c |-> c]
    <2>1. Begin("deleteContainer", id, x) /\ GoodPayload("deleteContainer", x, etags)
      BY <1>1 DEF DeleteContainer, GoodPayload
    <2>2. Fresh("deleteContainer", id, x)
      BY <1>1 DEF DeleteContainer, Fresh
    <2> HIDE DEF x
    <2> QED
      BY <2>1, <2>2, BeginStep
  <1>2. CASE SetContainerMetadata(c)
    <2> DEFINE x == [c |-> c, access |-> containers[c].access]
    <2>1. containers[c].access \in Access
      BY <1>2, ContainerTypes DEF SetContainerMetadata
    <2>2. Begin("setContainerMetadata", None, x) /\ GoodPayload("setContainerMetadata", x, etags)
      BY <1>2, <2>1 DEF SetContainerMetadata, GoodPayload
    <2>3. Fresh("setContainerMetadata", None, x)
      BY DEF Fresh
    <2> HIDE DEF x
    <2> QED
      BY <2>2, <2>3, BeginStep
  <1>3. ASSUME NEW access \in Access, SetContainerACL(c, access)
        PROVE  StepOK
    <2> DEFINE x == [c |-> c, access |-> access]
    <2>1. Begin("setContainerACL", None, x) /\ GoodPayload("setContainerACL", x, etags)
      BY <1>3 DEF SetContainerACL, GoodPayload
    <2>2. Fresh("setContainerACL", None, x)
      BY DEF Fresh
    <2> HIDE DEF x
    <2> QED
      BY <2>1, <2>2, BeginStep
  <1> QED
    BY <1>1, <1>2, <1>3 DEF ContainerNext

LEMMA ContainerLeaseBegin ==
    ASSUME IInv, NEW c \in Containers, NEW id, NEW lease \in Leases,
           Begin("containerLease", id, [c |-> c, lease |-> lease])
    PROVE  StepOK
  <1> DEFINE x == [c |-> c, lease |-> lease]
  <1>1. Begin("containerLease", id, x) /\ GoodPayload("containerLease", x, etags)
    BY DEF GoodPayload
  <1>2. Fresh("containerLease", id, x)
    BY DEF Fresh
  <1> HIDE DEF x
  <1> QED
    BY <1>1, <1>2, BeginStep

LEMMA ContainerLeaseRequest ==
    ASSUME IInv, NEW c \in Containers, ContainerLeaseNext(c)
    PROVE  StepOK
  <1> DEFINE l == containers[c].lease
             To(id, lease) == Begin("containerLease", id, [c |-> c, lease |-> lease])
             Some(id) == \E lease \in Leases : To(id, lease)
  <1>1. Exists(c)
    BY DEF ContainerLeaseNext, BreakContainerLease, AcquireContainerLease, ReleaseContainerLease,
           RenewContainerLease, ChangeContainerLease, ContainerLease
  <1>2. l \in Leases
    BY <1>1, ContainerTypes
  <1>3. \E id : Some(id)
    <2>1. ASSUME BreakContainerLease(c)
          PROVE  Some(None)
      <3>1. BreakAllowed(l, 0) /\ Begin("containerLease", None, [c |-> c, lease |-> Break(l, 0, 0)])
        BY <2>1 DEF BreakContainerLease, ContainerLease
      <3> QED
        BY <1>2, <3>1, LeaseOperations
    <2>2. ASSUME NEW id \in LeaseIds, AcquireContainerLease(c, id)
          PROVE  Some(id)
      <3>1. Begin("containerLease", id, [c |-> c, lease |-> Acquired(0, Infinite, id)])
        BY <2>2 DEF AcquireContainerLease, ContainerLease
      <3> QED
        BY <1>2, <3>1, LeaseOperations
    <2>3. ASSUME NEW id \in LeaseIds, ReleaseContainerLease(c, id)
          PROVE  Some(id)
      <3>1. Begin("containerLease", id, [c |-> c, lease |-> AvailableLease])
        BY <2>3 DEF ReleaseContainerLease, ContainerLease
      <3> QED
        BY <3>1, LeasesClosed
    <2>4. ASSUME NEW id \in LeaseIds, RenewContainerLease(c, id)
          PROVE  Some(id)
      <3>1. RenewAllowed(l, id) /\ Begin("containerLease", id, [c |-> c, lease |-> Renewed(l, 0)])
        BY <2>4 DEF RenewContainerLease, ContainerLease
      <3> QED
        BY <1>2, <3>1, LeaseOperations
    <2>5. ASSUME NEW id \in LeaseIds, NEW proposed \in LeaseIds,
                 ChangeContainerLease(c, id, proposed)
          PROVE  Some(id)
      <3>1. /\ ChangeAllowed(l, id, proposed)
            /\ Begin("containerLease", id, [c |-> c, lease |-> Changed(l, proposed)])
        BY <2>5 DEF ChangeContainerLease, ContainerLease
      <3> QED
        BY <1>2, <3>1, LeaseOperations
    <2> HIDE DEF Some
    <2> QED
      BY <2>1, <2>2, <2>3, <2>4, <2>5 DEF ContainerLeaseNext
  <1> QED
    BY <1>3, ContainerLeaseBegin

LEMMA LeaseBegin ==
    ASSUME IInv, NEW c \in Containers, NEW n \in Names, NEW s \in Times \cup {0}, Exists(c),
           Committed(c, n, s) # {}, NEW id, NEW lease \in Leases,
           Begin("lease", id, [c |-> c, n |-> n, s |-> s, lease |-> lease])
    PROVE  StepOK
  <1> DEFINE x == [c |-> c, n |-> n, s |-> s, lease |-> lease]
  <1>1. Begin("lease", id, x) /\ GoodPayload("lease", x, etags)
    BY DEF GoodPayload
  <1>2. Fresh("lease", id, x)
    BY DEF Fresh
  <1> HIDE DEF x
  <1> QED
    BY <1>1, <1>2, BeginStep

LEMMA BlobLeaseRequest ==
    ASSUME IInv, NEW c \in Containers, NEW n \in Names, BlobLeaseNext(c, n)
    PROVE  StepOK
  <1> DEFINE To(id, lease) == Begin("lease", id, [c |-> c, n |-> n, s |-> 0, lease |-> lease])
  <1>1. \E r \in Committed(c, n, 0), id \in LeaseIds \cup {None} :
           /\ Exists(c)
           /\ \/ BreakAllowed(r.lease, 0) /\ To(id, Break(r.lease, 0, 0))
              \/ id # None /\ To(id, Acquired(0, Infinite, id))
              \/ To(id, AvailableLease)
              \/ id \in LeaseIds /\ RenewAllowed(r.lease, id) /\ To(id, Renewed(r.lease, 0))
              \/ \E proposed \in LeaseIds : id \in LeaseIds /\ ChangeAllowed(r.lease, id, proposed)
                                              /\ To(id, Changed(r.lease, proposed))
    <2>1. CASE BreakBlobLease(c, n)
      BY <2>1 DEF BreakBlobLease, BlobLease
    <2>2. ASSUME NEW id \in LeaseIds,
                 \/ AcquireBlobLease(c, n, id) \/ ReleaseBlobLease(c, n, id) \/ RenewBlobLease(c, n, id)
                 \/ \E proposed \in LeaseIds : ChangeBlobLease(c, n, id, proposed)
          PROVE  \E r \in Committed(c, n, 0) :
                   /\ Exists(c)
                   /\ \/ To(id, Acquired(0, Infinite, id))
                      \/ To(id, AvailableLease)
                      \/ RenewAllowed(r.lease, id) /\ To(id, Renewed(r.lease, 0))
                      \/ \E proposed \in LeaseIds : ChangeAllowed(r.lease, id, proposed)
                                              /\ To(id, Changed(r.lease, proposed))
      BY <2>2 DEF AcquireBlobLease, ReleaseBlobLease, RenewBlobLease, ChangeBlobLease, BlobLease
    <2>3. \A id \in LeaseIds : id # None
      BY LeaseAssumption
    <2> HIDE DEF To
    <2> QED
      BY <2>1, <2>2, <2>3 DEF BlobLeaseNext
  <1>2. PICK r \in Committed(c, n, 0), id \in LeaseIds \cup {None} :
           /\ Exists(c)
           /\ \/ BreakAllowed(r.lease, 0) /\ To(id, Break(r.lease, 0, 0))
              \/ id # None /\ To(id, Acquired(0, Infinite, id))
              \/ To(id, AvailableLease)
              \/ id \in LeaseIds /\ RenewAllowed(r.lease, id) /\ To(id, Renewed(r.lease, 0))
              \/ \E proposed \in LeaseIds : id \in LeaseIds /\ ChangeAllowed(r.lease, id, proposed)
                                              /\ To(id, Changed(r.lease, proposed))
    BY <1>1
  <1>3. r.lease \in Leases /\ Committed(c, n, 0) # {}
    BY BlobTypes DEF Committed
  <1> HIDE DEF To
  <1>4. \E lease \in Leases : To(id, lease)
    BY <1>2, <1>3, LeaseOperations, LeasesClosed
  <1>5. PICK lease \in Leases : To(id, lease)
    BY <1>4
  <1>6. 0 \in Times \cup {0}
    OBVIOUS
  <1> QED
    BY <1>2, <1>3, <1>5, <1>6, LeaseBegin DEF To

\* createBlob, startCopyFromURL and commitBlockList.
LEMMA PutBegin ==
    ASSUME IInv, NEW c \in Containers, NEW n \in Names, NEW id, Exists(c),
           \A r \in Committed(c, n, 0) : WriteLeaseValid(r.lease, id),
           NEW kind \in {"put", "commitBlockList"}, NEW x \in BlobRow(etags),
           x.c = c, x.n = n, x.s = 0, x.committed,
           Begin(kind, id, x)
    PROVE  StepOK
  <1>1. GoodPayload(kind, x, etags) /\ Fresh(kind, id, x)
    BY DEF GoodPayload, Fresh
  <1> QED
    BY <1>1, BeginStep

LEMMA CreateBegin ==
    ASSUME IInv, NEW c \in Containers, NEW n \in Names, NEW cond, NEW id, NEW data \in Data,
           CreateBlob(c, n, cond, id, data)
    PROVE  StepOK
  <1> DEFINE old == Committed(c, n, 0)
             lease == IF old = {} THEN AvailableLease
                      ELSE WriteLeaseSync((CHOOSE r \in old : TRUE).lease)
             content == <<[id |-> None, data |-> data]>>
             x == NewRow(c, n, content, lease)
  <1>1. /\ Exists(c) /\ \A r \in old : WriteLeaseValid(r.lease, id)
        /\ Begin("put", id, x)
    BY DEF CreateBlob
  <1>2. lease \in Leases
    <2>1. CASE old = {}
      BY <2>1, LeasesClosed
    <2>2. CASE old # {}
      <3>1. PICK r \in old : r = CHOOSE q \in old : TRUE
        BY <2>2
      <3>2. r.lease \in Leases
        BY BlobTypes DEF Committed
      <3> QED
        BY <2>2, <3>1, <3>2, SyncedLease
    <2> QED
      BY <2>1, <2>2
  <1>3. content \in Contents
    <2>1. 1 \in 0 .. MaxLen /\ content \in [1 .. 1 -> Chunk]
      BY SqlBlobStoreAssumption DEF Chunk
    <2> QED
      BY <2>1 DEF Contents
  <1> HIDE DEF content, lease
  <1>4. x \in BlobRow(etags) /\ x.c = c /\ x.n = n /\ x.s = 0 /\ x.committed
    BY <1>2, <1>3, LeasesClosed, NewRowType, SqlBlobStoreAssumption DEF IInv, TypeInv
  <1> HIDE DEF x
  <1> QED
    BY <1>1, <1>2, <1>3, <1>4, PutBegin

LEMMA CopyBegin ==
    ASSUME IInv, NEW src \in blobs, NEW c \in Containers, NEW n \in Names, NEW cond, NEW id, NEW tier,
           StartCopyFromURL(src, c, n, cond, id, tier)
    PROVE  StepOK
  <1> DEFINE dest == Row(c, n, 0)
             lease == IF dest = {} THEN AvailableLease ELSE (CHOOSE r \in dest : TRUE).lease
             archived == tier = "Archive"
             content == src.content
             x == [NewRow(c, n, content, lease) EXCEPT !.archived = archived]
  <1>1. Exists(c) /\ \A r \in dest : WriteLeaseValid(r.lease, id)
    BY DEF StartCopyFromURL
  <1>2. Begin("put", id, x)
    BY DEF StartCopyFromURL
  <1>3. lease \in Leases
    <2>1. CASE dest = {}
      BY <2>1, LeasesClosed
    <2>2. CASE dest # {}
      <3>1. PICK r \in dest : r = CHOOSE q \in dest : TRUE
        BY <2>2
      <3> QED
        BY <2>2, <3>1, BlobTypes
    <2> QED
      BY <2>1, <2>2
  <1>4. content \in Contents /\ archived \in BOOLEAN
    BY DEF IInv, TypeInv, GoodRows, BlobRow
  <1> HIDE DEF content, lease, archived
  <1>5. x \in BlobRow(etags) /\ x.c = c /\ x.n = n /\ x.s = 0 /\ x.committed
    <2> DEFINE row == NewRow(c, n, content, lease)
    <2>1. row \in BlobRow(etags) /\ row.c = c /\ row.n = n /\ row.s = 0 /\ row.committed
      BY <1>3, <1>4, NewRowType, SqlBlobStoreAssumption DEF IInv, TypeInv
    <2> HIDE DEF row
    <2>2. x = [row EXCEPT !.archived = archived]
      BY DEF row
    <2> QED
      BY <1>4, <2>1, <2>2 DEF BlobRow
  <1> HIDE DEF x
  <1> QED
    BY <1>1, <1>2, <1>3, <1>4, <1>5, PutBegin DEF Committed

\* The blocks of a block list are chunks.
LEMMA SelectedChunks ==
    ASSUME NEW old, \A r \in old : r.content \in Contents, NEW staged \in SUBSET Block, NEW entry,
           entry.from \in {"uncommitted", "committed", "latest"}
    PROVE  Selected(old, staged, entry) \subseteq Chunk
  <1> DEFINE uncommitted == {[id |-> b.id, data |-> b.data] : b \in {b \in staged : b.id = entry.id}}
             committed == UNION {{r.content[i] : i \in {i \in DOMAIN r.content :
                             /\ r.content[i].id = entry.id
                             /\ \A j \in DOMAIN r.content : r.content[j].id = entry.id => j =< i}} : r \in old}
  <1>1. uncommitted \subseteq Chunk
    BY DEF Block, Chunk
  <1>2. \A r \in old : \A i \in DOMAIN r.content : r.content[i] \in Chunk
    BY DEF Contents
  <1>3. committed \subseteq Chunk
    BY <1>2
  <1>4. Selected(old, staged, entry) =
           CASE entry.from = "uncommitted" -> uncommitted
             [] entry.from = "committed"   -> committed
             [] entry.from = "latest"      -> IF uncommitted # {} THEN uncommitted ELSE committed
    BY DEF Selected
  <1> HIDE DEF uncommitted, committed
  <1> QED
    BY <1>1, <1>3, <1>4

LEMMA CommitBlockListBegin ==
    ASSUME IInv, NEW c \in Containers, NEW n \in Names, NEW cond, NEW id, NEW list \in BlockLists,
           CommitBlockList(c, n, cond, id, list)
    PROVE  StepOK
  <1> DEFINE old == Committed(c, n, 0)
             selected == [i \in DOMAIN list |-> Selected(old, BlocksOf(c, n), list[i])]
             content == [i \in DOMAIN list |-> CHOOSE x \in selected[i] : TRUE]
             x == NewRow(c, n, content, AvailableLease)
  <1>1. /\ Exists(c) /\ \A r \in old : WriteLeaseValid(r.lease, id)
        /\ \A i \in DOMAIN list : selected[i] # {}
        /\ Begin("commitBlockList", id, x)
    BY DEF CommitBlockList
  <1>2. PICK k \in 0 .. MaxLen :
           list \in [1 .. k -> [id : BlockIds, from : {"uncommitted", "committed", "latest"}]]
    BY DEF BlockLists
  <1>3. \A r \in old : r.content \in Contents
    BY BlobTypes DEF Committed
  <1>4. BlocksOf(c, n) \in SUBSET Block
    BY DEF BlocksOf, IInv, TypeInv
  <1>5. \A i \in 1 .. k : selected[i] \subseteq Chunk /\ selected[i] # {}
    BY <1>1, <1>2, <1>3, <1>4, SelectedChunks
  <1> HIDE DEF selected
  <1>6. content \in [1 .. k -> Chunk]
    BY <1>2, <1>5
  <1>7. content \in Contents
    BY <1>6 DEF Contents
  <1> HIDE DEF content
  <1>8. x \in BlobRow(etags) /\ x.c = c /\ x.n = n /\ x.s = 0 /\ x.committed
    BY <1>7, LeasesClosed, NewRowType, SqlBlobStoreAssumption DEF IInv, TypeInv
  <1> HIDE DEF x
  <1> QED
    BY <1>1, <1>7, <1>8, LeasesClosed, PutBegin

LEMMA SnapshotBegin ==
    ASSUME IInv, NEW c \in Containers, NEW n \in Names, NEW t \in Times, CreateSnapshot(c, n, t)
    PROVE  StepOK
  <1>1. PICK r \in Committed(c, n, 0) :
           Exists(c) /\ Begin("snapshot", None, [r EXCEPT !.s = t, !.lease = AvailableLease])
    BY DEF CreateSnapshot
  <1> DEFINE x == [r EXCEPT !.s = t, !.lease = AvailableLease]
  <1>2. r \in BlobRow(etags) /\ r \in blobs /\ r.c = c /\ r.n = n /\ r.committed
    BY BlobTypes DEF Committed
  <1>3. /\ x \in BlobRow(etags) /\ x.c = c /\ x.n = n /\ x.s = t /\ x.committed
        /\ x.etag = r.etag /\ x.content = r.content
    BY <1>2, LeasesClosed DEF BlobRow
  <1>4. Begin("snapshot", None, x)
    BY <1>1
  <1> HIDE DEF x
  <1>5. /\ GoodPayload("snapshot", x, etags) /\ Fresh("snapshot", None, x)
        /\ \E q \in blobs : SameVersion(x, q)
    BY <1>1, <1>2, <1>3 DEF GoodPayload, Fresh, SameVersion
  <1> QED
    BY <1>4, <1>5, BeginStep

LEMMA DeleteBegin ==
    ASSUME IInv, NEW c \in Containers, NEW n \in Names, NEW s \in Times \cup {0}, NEW id,
           NEW mode \in {"base", "snapshot", "include", "only"}, DeleteBlob(c, n, s, mode, id)
    PROVE  StepOK
  <1> DEFINE x == [c |-> c, n |-> n, s |-> s, mode |-> mode]
  <1>1. Begin("deleteBlob", id, x) /\ (s # 0 <=> mode = "snapshot")
    BY DEF DeleteBlob
  <1>2. s = 0 => \A r \in Committed(c, n, 0) : WriteLeaseValid(r.lease, id)
    BY BlobTypes DEF DeleteBlob, Committed
  <1>3. /\ x \in [c : Containers, n : Names, s : Times \cup {0},
                  mode : {"base", "snapshot", "include", "only"}]
        /\ x.c = c /\ x.n = n /\ x.s = s /\ x.mode = mode
    OBVIOUS
  <1> HIDE DEF x
  <1>4. GoodPayload("deleteBlob", x, etags) /\ Fresh("deleteBlob", id, x)
    BY <1>1, <1>2, <1>3 DEF GoodPayload, Fresh
  <1> QED
    BY <1>1, <1>4, BeginStep

\* setBlobHTTPHeaders, setBlobMetadata and setTier.
LEMMA UpdateBegin ==
    ASSUME IInv, NEW c \in Containers, NEW n \in Names, NEW cond, NEW id,
           \/ SetBlobHTTPHeaders(c, n, cond, id)
           \/ SetBlobMetadata(c, n, cond, id)
           \/ \E archived \in BOOLEAN : SetTier(c, n, id, archived)
    PROVE  StepOK
  <1>1. CASE SetBlobHTTPHeaders(c, n, cond, id)
    <2>1. PICK r \in Updatable(c, n, cond, id) : Begin("row", id, [r EXCEPT !.lease = WriteLeaseSync(r.lease)])
      BY <1>1 DEF SetBlobHTTPHeaders
    <2> DEFINE lease == WriteLeaseSync(r.lease)
               x == [r EXCEPT !.lease = lease]
    <2>2. Exists(c) /\ r \in Committed(c, n, 0)
      BY DEF Updatable
    <2>3. r \in BlobRow(etags) /\ r.c = c /\ r.n = n /\ r.s = 0 /\ r.committed /\ lease \in Leases
      BY <2>2, BlobTypes, SyncedLease DEF Committed
    <2>4. Begin("row", id, x)
      BY <2>1
    <2> HIDE DEF lease
    <2>5. /\ x \in BlobRow(etags) /\ x.c = c /\ x.n = n /\ x.s = 0 /\ x.committed
          /\ x.content = r.content
      BY <2>3 DEF BlobRow
    <2> HIDE DEF x
    <2>6. GoodPayload("row", x, etags) /\ Fresh("row", id, x)
      BY <2>2, <2>5 DEF GoodPayload, Fresh
    <2> QED
      BY <2>4, <2>6, BeginStep
  <1>2. CASE SetBlobMetadata(c, n, cond, id)
    <2>1. PICK r \in Updatable(c, n, cond, id) :
             Begin("metadata", id, [c |-> c, n |-> n, s |-> 0, lease |-> WriteLeaseSync(r.lease)])
      BY <1>2 DEF SetBlobMetadata
    <2> DEFINE lease == WriteLeaseSync(r.lease)
               x == [c |-> c, n |-> n, s |-> 0, lease |-> lease]
    <2>2. Exists(c) /\ r \in Committed(c, n, 0)
      BY DEF Updatable
    <2>3. lease \in Leases
      BY <2>2, BlobTypes, SyncedLease DEF Committed
    <2>4. Begin("metadata", id, x)
      BY <2>1
    <2> HIDE DEF lease
    <2>5. GoodPayload("metadata", x, etags) /\ Fresh("metadata", id, x)
      BY <2>2, <2>3 DEF GoodPayload, Fresh
    <2> HIDE DEF x
    <2> QED
      BY <2>4, <2>5, BeginStep
  <1>3. ASSUME NEW archived \in BOOLEAN, SetTier(c, n, id, archived)
        PROVE  StepOK
    <2> DEFINE x == [c |-> c, n |-> n, s |-> 0, archived |-> archived, etag |-> None]
    <2>1. PICK r \in Updatable(c, n, NoConditions, id) : Begin("tier", id, x)
      BY <1>3 DEF SetTier
    <2>2. Exists(c) /\ r \in Committed(c, n, 0)
      BY DEF Updatable
    <2>3. GoodPayload("tier", x, etags) /\ Fresh("tier", id, x)
      BY <2>2 DEF GoodPayload, Fresh
    <2> HIDE DEF x
    <2> QED
      BY <2>1, <2>3, BeginStep
  <1> QED
    BY <1>1, <1>2, <1>3

LEMMA TagBegin ==
    ASSUME IInv, NEW c \in Containers, NEW n \in Names, NEW s \in Times \cup {0}, NEW id,
           SetBlobTag(c, n, s, id)
    PROVE  StepOK
  <1>1. PICK r \in Committed(c, n, s) :
           Exists(c) /\ Begin("lease", id, [c |-> c, n |-> n, s |-> s, lease |-> WriteLeaseSync(r.lease)])
    BY DEF SetBlobTag
  <1>2. WriteLeaseSync(r.lease) \in Leases /\ Committed(c, n, s) # {}
    BY BlobTypes, SyncedLease DEF Committed
  <1> QED
    BY <1>1, <1>2, LeaseBegin

LEMMA StageBegin ==
    ASSUME IInv, NEW c \in Containers, NEW n \in Names, NEW id, NEW blockId \in BlockIds,
           NEW data \in Data, StageBlock(c, n, id, blockId, data)
    PROVE  StepOK
  <1> DEFINE row == IF Row(c, n, 0) = {}
                    THEN [NewRow(c, n, <<>>, AvailableLease) EXCEPT !.committed = FALSE] ELSE None
             block == [c |-> c, n |-> n, id |-> blockId, data |-> data]
             x == [row |-> row, block |-> block]
  <1>1. Exists(c) /\ Begin("stageBlock", id, x)
    BY DEF StageBlock
  <1>2. block \in Block
    BY DEF Block
  <1>3. ASSUME Row(c, n, 0) = {}
        PROVE  /\ row \in BlobRow(etags) /\ row.c = c /\ row.n = n /\ row.s = 0
               /\ ~row.committed /\ row.lease = AvailableLease
    <2> DEFINE new == NewRow(c, n, <<>>, AvailableLease)
    <2>1. <<>> \in Contents
      <3>1. 0 \in 0 .. MaxLen /\ <<>> \in [1 .. 0 -> Chunk]
        BY SqlBlobStoreAssumption
      <3> QED
        BY <3>1 DEF Contents
    <2>2. new \in BlobRow(etags) /\ new.c = c /\ new.n = n /\ new.s = 0 /\ new.lease = AvailableLease
      BY <2>1, LeasesClosed, NewRowType, SqlBlobStoreAssumption DEF IInv, TypeInv
    <2>3. row = [new EXCEPT !.committed = FALSE]
      BY <1>3
    <2> HIDE DEF new, row
    <2> QED
      BY <2>2, <2>3 DEF BlobRow
  <1>4. row # None => Row(c, n, 0) = {}
    OBVIOUS
  <1>5. x.row = row /\ x.block = block
    OBVIOUS
  <1> HIDE DEF x, row, block
  <1>6. GoodPayload("stageBlock", x, etags) /\ Fresh("stageBlock", id, x)
    BY <1>1, <1>2, <1>3, <1>4, <1>5 DEF GoodPayload, Fresh
  <1> QED
    BY <1>1, <1>6, BeginStep

-----------------------------------------------------------------------------
(* The theorems.                                                           *)

LEMMA CommitStep ==
    ASSUME IInv, NEW tx \in open, Commit(tx)
    PROVE  StepOK
  <1>1. tx.kind \in {"put", "commitBlockList", "snapshot", "row", "metadata", "lease", "tier",
                     "stageBlock", "deleteBlob", "setContainerMetadata", "setContainerACL",
                     "containerLease", "deleteContainer"}
    BY DEF Commit, WriteContainers, WriteBlobs
  <1> QED
    BY <1>1, PutCommit, SnapshotCommit, RowCommit, ColumnsCommit, StageCommit, DeleteCommit,
       ContainerCommit, DeleteContainerCommit

LEMMA NextStep ==
    ASSUME IInv, Next
    PROVE  StepOK
  <1>1. ASSUME NEW c \in Containers, NEW n \in Names, NEW id \in Requester, BlobNext(c, n, id)
        PROVE  StepOK
    BY <1>1, CreateBegin, CopyBegin, UpdateBegin, CommitBlockListBegin, TagBegin, DeleteBegin,
       StageBegin DEF BlobNext
  <1> QED
    BY <1>1, CreateContainerStep, ContainerRequest, ContainerLeaseRequest, BlobLeaseRequest,
       SnapshotBegin, CommitStep DEF Next

LEMMA InitInv == Init => IInv
  <1> SUFFICES ASSUME Init PROVE IInv
    OBVIOUS
  <1>1. TypeInv
    BY FS_EmptySet, SqlBlobStoreAssumption DEF Init, TypeInv, GoodRows
  <1>2. Coherent(blobs \cup Carried)
    BY DEF Init, Coherent, Carried
  <1> QED
    BY <1>1, <1>2 DEF Init, IInv, Orderly

LEMMA Stuttering ==
    ASSUME IInv, UNCHANGED vars
    PROVE  StepOK
  <1>1. TypeInv'
    BY DEF IInv, TypeInv, vars
  <1>2. Coherent(blobs' \cup Carried')
    BY DEF IInv, vars, Carried
  <1>3. ASSUME NEW tx \in open', tx.alone
        PROVE  Fresh(tx.kind, tx.leaseId, tx.x)'
    <2>1. PICK k, i, y : k = tx.kind /\ i = tx.leaseId /\ y = tx.x
      OBVIOUS
    <2>2. Fresh(k, i, y)
      BY <1>3, <2>1 DEF IInv, vars
    <2>3. Fresh(k, i, y)'
      BY <2>2, FreshKept DEF vars
    <2> QED
      BY <2>1, <2>3
  <1>4. (regular => Orderly)'
    BY DEF IInv, vars, Orderly, Exists
  <1>5. IInv'
    BY <1>1, <1>2, <1>3, <1>4 DEF IInv
  <1>6. Coherent(blobs)
    BY DEF IInv, Coherent
  <1> QED
    BY <1>5, <1>6, QuietStep DEF StepOK, vars

\* The inductive invariant: the rows keep their keys and types, an etag stands
\* for one content in the table and in the snapshots under way, and what a
\* transaction has read is what is there until another one commits.
THEOREM SqlInvariant == Spec => []IInv
  <1>1. IInv /\ [Next]_vars => IInv'
    BY NextStep, Stuttering DEF StepOK
  <1> QED
    BY <1>1, InitInv, PTL DEF Spec

\* Whatever transactions of SqlBlobMetadataStore overlap, of however many
\* servers, no client finds other bytes under an etag it has.
THEOREM EtagsIdentifyContent == Spec => EtagIdentifiesContent
  <1>1. IInv /\ [Next]_vars => EtagStep
    BY NextStep, Stuttering DEF StepOK
  <1> QED
    BY <1>1, SqlInvariant, PTL DEF Spec, EtagIdentifiesContent, EtagStep

\* No transaction of SqlBlobMetadataStore brings an earlier access of a
\* container back, whatever it read before: only setContainerACL changes it.
THEOREM AccessChangesStand == Spec => AccessStands
  <1>1. IInv /\ [Next]_vars => AccessStep
    BY NextStep, Stuttering DEF StepOK
  <1> QED
    BY <1>1, SqlInvariant, PTL DEF Spec, AccessStands, AccessStep

\* While transactions do not overlap, the content of a leased blob changes and
\* a leased container is deleted only for a request that names the lease.
THEOREM LeasesGuardContent == Spec => LeaseGuardsContent
  <1>1. IInv /\ [Next]_vars => (regular' => BlobGuardStep /\ ContainerGuardStep)
    BY NextStep, Stuttering DEF StepOK
  <1> QED
    BY <1>1, SqlInvariant, PTL DEF Spec, LeaseGuardsContent, BlobGuardStep, ContainerGuardStep

\* While transactions do not overlap, and no two snapshots of a blob are taken
\* in the same millisecond, every step of SqlBlobMetadataStore is one of
\* BlobService or invisible.
THEOREM SerialStoreImplementsBlobService == Spec => SerialImplementsBlobService
  <1>1. IInv /\ [Next]_vars => (regular' => ServiceStep)
    BY NextStep, Stuttering DEF StepOK
  <1> QED
    BY <1>1, SqlInvariant, PTL DEF Spec, SerialImplementsBlobService, ServiceStep

=============================================================================
