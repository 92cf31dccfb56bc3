------------------------- MODULE BlobHandlersProofs -------------------------
(***************************************************************************)
(* LokiBlobMetadataStore behind the blob handlers: its collections stay    *)
(* well formed whatever clients ask for, and, as long as what is copied    *)
(* are block blobs, it implements BlobService.  For any containers, names, *)
(* payloads and snapshot times and any bounds.                             *)
(*                                                                         *)
(* The operations are first looked at as functions of the set of           *)
(* documents: each keeps a good set good, and what clients see of the set  *)
(* changes as BlobService says.                                            *)
(***************************************************************************)
EXTENDS BlobHandlers, FiniteSetTheorems, TLAPS

-----------------------------------------------------------------------------
(* Good sets of documents.                                                 *)

\* A document, when e etags have been given out.
Documents(e) ==
    [c : Containers, n : Names, s : Times \cup {0}, type : Types, committed : BOOLEAN,
     etag : 1 .. e, array : Nat, content : PageMaps \cup Seq(Chunk), len : 0 .. MaxLen,
     sealed : BOOLEAN, archived : BOOLEAN, seq : 0 .. 1]

GoodDoc(d, e) ==
    /\ d \in Documents(e)
    /\ d.content \in (IF d.type = "page" THEN PageMaps ELSE Seq(Chunk))
    /\ d.type # "page" => d.len =< Len(d.content)
    /\ d.type = "page" => ~d.sealed

IsBase(d, c, n) == d.c = c /\ d.n = n /\ d.s = 0

\* Documents that refer to one array have its elements.
Sharing(d, f) == d.array # 0 /\ d.array = f.array => d.type = f.type /\ d.content = f.content

GoodBlobs(B, e) ==
    /\ IsFiniteSet(B)
    /\ \A d \in B : GoodDoc(d, e)
    /\ \A d, f \in B : d.s = 0 /\ f.s = 0 /\ d.c = f.c /\ d.n = f.n => d = f
    /\ \A d \in B : d.s # 0 => \E b \in B : IsBase(b, d.c, d.n) /\ b.committed
    /\ \A d, f \in B : Sharing(d, f)

\* What clients see of a set of documents.
Object(d) == [c |-> d.c, n |-> d.n, s |-> d.s, etag |-> d.etag, view |-> View(d)]
Visible(B) == {Object(d) : d \in {b \in B : b.committed}}

LEMMA GoodDocGrows ==
    ASSUME NEW d, NEW e \in Nat, GoodDoc(d, e)
    PROVE  GoodDoc(d, e + 1)
  <1>1. 1 .. e \subseteq 1 .. e + 1
    OBVIOUS
  <1>2. d \in Documents(e + 1)
    BY <1>1 DEF GoodDoc, Documents
  <1> QED
    BY <1>2 DEF GoodDoc

\* The image of a finite set of documents under a function is finite.
LEMMA FiniteImage ==
    ASSUME NEW B, IsFiniteSet(B), NEW f, DOMAIN f = B
    PROVE  IsFiniteSet({f[d] : d \in B})
  <1> DEFINE T == {f[d] : d \in B}
             g == [d \in B |-> f[d]]
  <1>1. g \in Surjection(B, T)
    BY DEF Surjection
  <1> HIDE DEF T, g
  <1> QED
    BY <1>1, FS_Surjection DEF T

\* There is always an array that no document refers to.
LEMMA FreshArrayExists ==
    ASSUME IsFiniteSet(blobs)
    PROVE  FreshArray \in Nat \ {0} /\ \A d \in blobs : d.array # FreshArray
  <1> DEFINE N == Cardinality(blobs)
             S == 1 .. N + 1
  <1>1. N \in Nat
    BY FS_CardinalityType
  <1>2. \E a \in S : \A d \in blobs : d.array # a
    <2> SUFFICES ASSUME \A a \in S : \E d \in blobs : d.array = a
                 PROVE  FALSE
      OBVIOUS
    <2> DEFINE f == [a \in S |-> CHOOSE d \in blobs : d.array = a]
    <2>1. f \in [S -> blobs] /\ \A a \in S : f[a].array = a
      OBVIOUS
    <2>2. IsFiniteSet(S) /\ Cardinality(S) = N + 1
      BY <1>1, FS_Interval
    <2> HIDE DEF f, S, N
    <2>3. Cardinality(blobs) < Cardinality(S)
      BY <1>1, <2>2 DEF N
    <2>4. \E x, y \in S : x # y /\ f[x] = f[y]
      BY <2>1, <2>2, <2>3, FS_PigeonHole
    <2> QED
      BY <2>1, <2>4
  <1>3. FreshArray \in S /\ \A d \in blobs : d.array # FreshArray
    BY <1>2 DEF FreshArray
  <1> QED
    BY <1>1, <1>3

\* A base blob gets a new document.
LEMMA ReplaceGood ==
    ASSUME NEW B, NEW e \in Nat, GoodBlobs(B, e), NEW c, NEW n,
           NEW new, GoodDoc(new, e + 1), IsBase(new, c, n), new.committed,
           new.array # 0 => \E d \in B : /\ d.array = new.array
                                         /\ d.type = new.type /\ d.content = new.content
    PROVE  GoodBlobs({d \in B : ~IsBase(d, c, n)} \cup {new}, e + 1)
  <1> DEFINE K == {d \in B : ~IsBase(d, c, n)}
             R == K \cup {new}
  <1>1. IsFiniteSet(R)
    <2>1. IsFiniteSet(K)
      BY FS_Subset DEF GoodBlobs
    <2> HIDE DEF K
    <2> QED
      BY <2>1, FS_AddElement
  <1>2. \A d \in R : GoodDoc(d, e + 1)
    BY GoodDocGrows DEF GoodBlobs
  <1>3. \A d, f \in R : d.s = 0 /\ f.s = 0 /\ d.c = f.c /\ d.n = f.n => d = f
    BY DEF GoodBlobs, IsBase
  <1>4. ASSUME NEW d \in R, d.s # 0
        PROVE  \E b \in R : IsBase(b, d.c, d.n) /\ b.committed
    <2>1. d \in B
      BY <1>4 DEF IsBase
    <2>2. PICK b \in B : IsBase(b, d.c, d.n) /\ b.committed
      BY <1>4, <2>1 DEF GoodBlobs
    <2>3. CASE IsBase(b, c, n)
      BY <2>2, <2>3 DEF IsBase
    <2>4. CASE ~IsBase(b, c, n)
      BY <2>2, <2>4
    <2> QED
      BY <2>3, <2>4
  <1>5. \A d, f \in B : Sharing(d, f)
    BY DEF GoodBlobs
  <1>6. \A d \in B : Sharing(d, new) /\ Sharing(new, d)
    BY <1>5 DEF Sharing
  <1>7. \A d, f \in R : Sharing(d, f)
    BY <1>5, <1>6 DEF Sharing
  <1> HIDE DEF R
  <1>8. GoodBlobs(R, e + 1)
    BY <1>1, <1>2, <1>3, <1>4, <1>7 DEF GoodBlobs
  <1> QED
    BY <1>8 DEF R

LEMMA ReplaceVisible ==
    ASSUME NEW B, NEW c, NEW n, NEW new, IsBase(new, c, n), new.committed
    PROVE  Visible({d \in B : ~IsBase(d, c, n)} \cup {new})
              = {o \in Visible(B) : ~(o.c = c /\ o.n = n /\ o.s = 0)} \cup {Object(new)}
  BY DEF Visible, Object, IsBase

\* A document that begins to share its array is seen as before.
LEMMA ShareGood ==
    ASSUME NEW B, NEW e \in Nat, GoodBlobs(B, e), NEW src \in B, NEW a \in Nat,
           a = src.array \/ (src.array = 0 /\ \A d \in B : d.array # a)
    PROVE  LET shared == [src EXCEPT !.array = a]
               R == (B \ {src}) \cup {shared}
           IN  GoodBlobs(R, e) /\ Visible(R) = Visible(B)
  <1> DEFINE shared == [src EXCEPT !.array = a]
             R == (B \ {src}) \cup {shared}
  <1>1. src \in Documents(e) /\ GoodDoc(src, e)
    BY DEF GoodBlobs, GoodDoc
  <1>2. /\ shared \in Documents(e) /\ shared.array = a
        /\ shared.c = src.c /\ shared.n = src.n /\ shared.s = src.s /\ shared.etag = src.etag
        /\ shared.type = src.type /\ shared.content = src.content /\ shared.len = src.len
        /\ shared.sealed = src.sealed /\ shared.committed = src.committed
    BY <1>1 DEF Documents
  <1> HIDE DEF shared
  <1>3. GoodDoc(shared, e) /\ Object(shared) = Object(src)
    BY <1>1, <1>2 DEF GoodDoc, Object, View
  <1>4. IsFiniteSet(R)
    <2>1. IsFiniteSet(B \ {src})
      BY FS_RemoveElement DEF GoodBlobs
    <2> QED
      BY <2>1, FS_AddElement
  <1>5. \A d \in R : GoodDoc(d, e)
    BY <1>3 DEF GoodBlobs
  <1>6. \A d, f \in R : d.s = 0 /\ f.s = 0 /\ d.c = f.c /\ d.n = f.n => d = f
    BY <1>2 DEF GoodBlobs
  <1>7. ASSUME NEW d \in R, d.s # 0
        PROVE  \E b \in R : IsBase(b, d.c, d.n) /\ b.committed
    <2>1. PICK d0 \in B : d0.s = d.s /\ d0.c = d.c /\ d0.n = d.n
      BY <1>2
    <2>2. PICK b \in B : IsBase(b, d.c, d.n) /\ b.committed
      BY <1>7, <2>1 DEF GoodBlobs
    <2> QED
      BY <1>2, <2>2 DEF IsBase
  <1>8. \A d, f \in B : Sharing(d, f)
    BY DEF GoodBlobs
  <1>9. \A d \in B \ {src} : Sharing(d, shared) /\ Sharing(shared, d)
    BY <1>2, <1>8 DEF Sharing
  <1>10. \A d, f \in R : Sharing(d, f)
    BY <1>8, <1>9 DEF Sharing
  <1>11. Visible(R) = Visible(B)
    BY <1>2, <1>3 DEF Visible
  <1> HIDE DEF R
  <1>12. GoodBlobs(R, e)
    BY <1>4, <1>5, <1>6, <1>7, <1>10 DEF GoodBlobs
  <1> QED
    BY <1>11, <1>12 DEF R, shared

\* What is left when documents go is good if bases go with their snapshots.
LEMMA RemoveGood ==
    ASSUME NEW B, NEW e, GoodBlobs(B, e), NEW R \in SUBSET B,
           \A b \in B \ R, d \in R : b.s = 0 /\ d.c = b.c /\ d.n = b.n => d.s = 0
    PROVE  GoodBlobs(R, e)
  <1>1. IsFiniteSet(R)
    BY FS_Subset DEF GoodBlobs
  <1>2. \A d \in R : d.s # 0 => \E b \in R : IsBase(b, d.c, d.n) /\ b.committed
    BY DEF GoodBlobs, IsBase
  <1> QED
    BY <1>1, <1>2 DEF GoodBlobs

\* A change in place reaches every document that shares the array.
Change(B, doc, new) ==
    {IF d = doc THEN new
     ELSE IF d.array # 0 /\ d.array = doc.array THEN [d EXCEPT !.content = new.content] ELSE d
        : d \in B}

\* The new document is of the same blob, refers to the same array, and its
\* array has not become shorter.
Successor(doc, new) ==
    /\ new.c = doc.c /\ new.n = doc.n /\ new.s = doc.s /\ new.type = doc.type
    /\ new.committed = doc.committed /\ new.array = doc.array
    /\ new.type # "page" => Len(doc.content) =< Len(new.content)

LEMMA ChangeGood ==
    ASSUME NEW B, NEW e \in Nat, GoodBlobs(B, e), NEW doc \in B, NEW new,
           GoodDoc(new, e + 1), Successor(doc, new)
    PROVE  GoodBlobs(Change(B, doc, new), e + 1)
  <1> DEFINE f == [d \in B |-> IF d = doc THEN new
                              ELSE IF d.array # 0 /\ d.array = doc.array
                              THEN [d EXCEPT !.content = new.content] ELSE d]
             R == {f[d] : d \in B}
  <1>1. Change(B, doc, new) = R
    BY DEF Change
  <1>2. \A d \in B : GoodDoc(d, e)
    BY DEF GoodBlobs
  <1>3. ASSUME NEW d \in B, d # doc, d.array # 0, d.array = doc.array
        PROVE  /\ GoodDoc([d EXCEPT !.content = new.content], e + 1)
               /\ [d EXCEPT !.content = new.content].c = d.c
               /\ [d EXCEPT !.content = new.content].n = d.n
               /\ [d EXCEPT !.content = new.content].s = d.s
               /\ [d EXCEPT !.content = new.content].type = d.type
               /\ [d EXCEPT !.content = new.content].committed = d.committed
               /\ [d EXCEPT !.content = new.content].array = d.array
               /\ [d EXCEPT !.content = new.content].content = new.content
    <2>1. d.type = doc.type /\ d.content = doc.content
      BY <1>3 DEF GoodBlobs, Sharing
    <2> DEFINE x == [d EXCEPT !.content = new.content]
    <2>2. GoodDoc(d, e + 1)
      BY <1>2, GoodDocGrows
    <2>3. new.content \in (IF new.type = "page" THEN PageMaps ELSE Seq(Chunk))
      BY DEF GoodDoc
    <2>4. /\ x \in Documents(e + 1) /\ x.c = d.c /\ x.n = d.n /\ x.s = d.s /\ x.type = d.type
          /\ x.committed = d.committed /\ x.array = d.array /\ x.content = new.content
          /\ x.len = d.len /\ x.sealed = d.sealed
      BY <2>2, <2>3 DEF GoodDoc, Documents
    <2> HIDE DEF x
    <2>5. x.type # "page" => x.len =< Len(x.content)
      <3> SUFFICES ASSUME x.type # "page" PROVE x.len =< Len(x.content)
        OBVIOUS
      <3>1. d.len =< Len(doc.content) /\ Len(doc.content) =< Len(new.content)
        BY <2>1, <2>2, <2>4 DEF GoodDoc, Successor
      <3>2. d.len \in Int
        BY <2>2, LokiBlobStoreAssumption DEF GoodDoc, Documents
      <3>3. doc.content \in Seq(Chunk) /\ new.content \in Seq(Chunk)
        BY <1>2, <2>1, <2>3, <2>4 DEF GoodDoc, Successor
      <3> QED
        BY <2>4, <3>1, <3>2, <3>3
    <2>6. x.content \in (IF x.type = "page" THEN PageMaps ELSE Seq(Chunk))
      BY <2>1, <2>3, <2>4 DEF Successor
    <2>7. GoodDoc(x, e + 1)
      BY <2>2, <2>4, <2>5, <2>6 DEF GoodDoc
    <2> QED
      BY <2>4, <2>7 DEF x
  <1>4. \A d \in B : /\ GoodDoc(f[d], e + 1)
                     /\ f[d].c = d.c /\ f[d].n = d.n /\ f[d].s = d.s /\ f[d].type = d.type
                     /\ f[d].committed = d.committed /\ f[d].array = d.array
                     /\ f[d].content = IF d = doc \/ (d.array # 0 /\ d.array = doc.array)
                                       THEN new.content ELSE d.content
    <2> SUFFICES ASSUME NEW d \in B
                 PROVE  /\ GoodDoc(f[d], e + 1)
                        /\ f[d].c = d.c /\ f[d].n = d.n /\ f[d].s = d.s /\ f[d].type = d.type
                        /\ f[d].committed = d.committed /\ f[d].array = d.array
                        /\ f[d].content = IF d = doc \/ (d.array # 0 /\ d.array = doc.array)
                                          THEN new.content ELSE d.content
      OBVIOUS
    <2>1. CASE d = doc
      BY <2>1 DEF Successor
    <2>2. CASE d # doc /\ d.array # 0 /\ d.array = doc.array
      BY <1>3, <2>2
    <2>3. CASE d # doc /\ ~(d.array # 0 /\ d.array = doc.array)
      BY <1>2, <2>3, GoodDocGrows
    <2> QED
      BY <2>1, <2>2, <2>3
  <1>5. DOMAIN f = B
    OBVIOUS
  <1> HIDE DEF f
  <1>6. IsFiniteSet(R)
    BY <1>5, FiniteImage DEF GoodBlobs
  <1>7. \A d, g \in B : d.s = 0 /\ g.s = 0 /\ d.c = g.c /\ d.n = g.n => d = g
    BY DEF GoodBlobs
  <1>8. \A d, g \in R : d.s = 0 /\ g.s = 0 /\ d.c = g.c /\ d.n = g.n => d = g
    BY <1>4, <1>7
  <1>9. ASSUME NEW d \in R, d.s # 0
        PROVE  \E b \in R : IsBase(b, d.c, d.n) /\ b.committed
    <2>1. PICK d0 \in B : d = f[d0]
      OBVIOUS
    <2>2. PICK b0 \in B : IsBase(b0, d0.c, d0.n) /\ b0.committed
      BY <1>4, <1>9, <2>1 DEF GoodBlobs
    <2>3. f[b0] \in R /\ IsBase(f[b0], d.c, d.n) /\ f[b0].committed
      BY <1>4, <2>1, <2>2 DEF IsBase
    <2> QED
      BY <2>3
  <1>10. ASSUME NEW d \in R, NEW g \in R
         PROVE  Sharing(d, g)
    <2>1. PICK d0 \in B, g0 \in B : d = f[d0] /\ g = f[g0]
      OBVIOUS
    <2>2. Sharing(d0, g0)
      BY DEF GoodBlobs
    <2> QED
      BY <1>4, <2>1, <2>2 DEF Sharing
  <1>11. \A d \in R : GoodDoc(d, e + 1)
    BY <1>4
  <1> HIDE DEF R
  <1> QED
    BY <1>1, <1>6, <1>8, <1>9, <1>10, <1>11 DEF GoodBlobs

\* A new snapshot has arrays of its own.
SnapshotOf(d, t) == [d EXCEPT !.s = t, !.array = 0]

LEMMA SnapshotGood ==
    ASSUME NEW B, NEW e, GoodBlobs(B, e), NEW d \in B, d.s = 0, d.committed, NEW t \in Times
    PROVE  /\ GoodBlobs(B \cup {SnapshotOf(d, t)}, e)
           /\ Visible(B \cup {SnapshotOf(d, t)}) = Visible(B) \cup {[Object(d) EXCEPT !.s = t]}
  <1> DEFINE copy == SnapshotOf(d, t)
             R == B \cup {copy}
  <1>1. GoodDoc(d, e) /\ d \in Documents(e)
    BY DEF GoodBlobs, GoodDoc
  <1>2. /\ copy \in Documents(e) /\ copy.array = 0 /\ copy.s = t
        /\ copy.c = d.c /\ copy.n = d.n /\ copy.etag = d.etag
        /\ copy.type = d.type /\ copy.content = d.content /\ copy.len = d.len
        /\ copy.sealed = d.sealed /\ copy.committed = d.committed
    BY <1>1 DEF Documents, SnapshotOf
  <1> HIDE DEF copy
  <1>3. GoodDoc(copy, e)
    BY <1>1, <1>2 DEF GoodDoc
  <1>4. Object(copy) = [Object(d) EXCEPT !.s = t]
    <2>1. View(copy) = View(d)
      BY <1>2 DEF View
    <2> QED
      BY <1>2, <2>1 DEF Object
  <1>5. t # 0
    BY LokiBlobStoreAssumption
  <1>6. IsFiniteSet(R)
    BY FS_AddElement DEF GoodBlobs
  <1>7. \A x \in R : GoodDoc(x, e)
    BY <1>3 DEF GoodBlobs
  <1>8. \A x, y \in R : x.s = 0 /\ y.s = 0 /\ x.c = y.c /\ x.n = y.n => x = y
    BY <1>2, <1>5 DEF GoodBlobs
  <1>9. IsBase(d, copy.c, copy.n)
    BY <1>2 DEF IsBase
  <1>10. \A x \in R : x.s # 0 => \E b \in R : IsBase(b, x.c, x.n) /\ b.committed
    BY <1>9 DEF GoodBlobs
  <1>11. \A x, y \in R : Sharing(x, y)
    BY <1>2 DEF GoodBlobs, Sharing
  <1>12. Visible(R) = Visible(B) \cup {Object(copy)}
    BY <1>2 DEF Visible
  <1> HIDE DEF R
  <1>13. GoodBlobs(R, e)
    BY <1>6, <1>7, <1>8, <1>10, <1>11 DEF GoodBlobs
  <1> QED
    BY <1>4, <1>12, <1>13 DEF R, copy

\* The tier of a block blob is not seen.
LEMMA TierGood ==
    ASSUME NEW B, NEW e, GoodBlobs(B, e), NEW doc \in B, NEW archived \in BOOLEAN
    PROVE  LET R == (B \ {doc}) \cup {[doc EXCEPT !.archived = archived]}
           IN  GoodBlobs(R, e) /\ Visible(R) = Visible(B)
  <1> DEFINE new == [doc EXCEPT !.archived = archived]
             R == (B \ {doc}) \cup {new}
  <1>1. doc \in Documents(e) /\ GoodDoc(doc, e)
    BY DEF GoodBlobs, GoodDoc
  <1>2. /\ new \in Documents(e) /\ new.array = doc.array
        /\ new.c = doc.c /\ new.n = doc.n /\ new.s = doc.s /\ new.etag = doc.etag
        /\ new.type = doc.type /\ new.content = doc.content /\ new.len = doc.len
        /\ new.sealed = doc.sealed /\ new.committed = doc.committed
    BY <1>1 DEF Documents
  <1> HIDE DEF new
  <1>3. GoodDoc(new, e) /\ Object(new) = Object(doc)
    BY <1>1, <1>2 DEF GoodDoc, Object, View
  <1>4. IsFiniteSet(R)
    <2>1. IsFiniteSet(B \ {doc})
      BY FS_RemoveElement DEF GoodBlobs
    <2> QED
      BY <2>1, FS_AddElement
  <1>5. \A d \in R : GoodDoc(d, e)
    BY <1>3 DEF GoodBlobs
  <1>6. \A d, f \in R : d.s = 0 /\ f.s = 0 /\ d.c = f.c /\ d.n = f.n => d = f
    BY <1>2 DEF GoodBlobs
  <1>7. ASSUME NEW d \in R, d.s # 0
        PROVE  \E b \in R : IsBase(b, d.c, d.n) /\ b.committed
    <2>1. PICK d0 \in B : d0.s = d.s /\ d0.c = d.c /\ d0.n = d.n
      BY <1>2
    <2>2. PICK b \in B : IsBase(b, d.c, d.n) /\ b.committed
      BY <1>7, <2>1 DEF GoodBlobs
    <2> QED
      BY <1>2, <2>2 DEF IsBase
  <1>8. \A d, f \in B : Sharing(d, f)
    BY DEF GoodBlobs
  <1>9. \A d, f \in R : Sharing(d, f)
    BY <1>2, <1>8 DEF Sharing
  <1>10. Visible(R) = Visible(B)
    BY <1>2, <1>3 DEF Visible
  <1> HIDE DEF R
  <1>11. GoodBlobs(R, e)
    BY <1>4, <1>5, <1>6, <1>7, <1>9 DEF GoodBlobs
  <1> QED
    BY <1>10, <1>11 DEF R, new

\* A restart gives every document arrays of its own.
LEMMA RestartGood ==
    ASSUME NEW B, NEW e, GoodBlobs(B, e)
    PROVE  LET R == {[d EXCEPT !.array = 0] : d \in B}
           IN  GoodBlobs(R, e) /\ Visible(R) = Visible(B)
  <1> DEFINE f == [d \in B |-> [d EXCEPT !.array = 0]]
             R == {f[d] : d \in B}
  <1>1. \A d \in B : d \in Documents(e) /\ GoodDoc(d, e)
    BY DEF GoodBlobs, GoodDoc
  <1>2. \A d \in B :
           /\ f[d] \in Documents(e) /\ f[d].array = 0
           /\ f[d].c = d.c /\ f[d].n = d.n /\ f[d].s = d.s /\ f[d].etag = d.etag
           /\ f[d].type = d.type /\ f[d].content = d.content /\ f[d].len = d.len
           /\ f[d].sealed = d.sealed /\ f[d].committed = d.committed
    BY <1>1 DEF Documents
  <1>3. R = {[d EXCEPT !.array = 0] : d \in B} /\ DOMAIN f = B
    OBVIOUS
  <1> HIDE DEF f
  <1>4. \A d \in B : GoodDoc(f[d], e) /\ Object(f[d]) = Object(d)
    BY <1>1, <1>2 DEF GoodDoc, Object, View
  <1>5. IsFiniteSet(R)
    BY <1>3, FiniteImage DEF GoodBlobs
  <1>6. \A d, g \in R : d.s = 0 /\ g.s = 0 /\ d.c = g.c /\ d.n = g.n => d = g
    BY <1>2 DEF GoodBlobs
  <1>7. ASSUME NEW d \in R, d.s # 0
        PROVE  \E b \in R : IsBase(b, d.c, d.n) /\ b.committed
    <2>1. PICK d0 \in B : d = f[d0]
      OBVIOUS
    <2>2. PICK b0 \in B : IsBase(b0, d0.c, d0.n) /\ b0.committed
      BY <1>2, <1>7, <2>1 DEF GoodBlobs
    <2>3. f[b0] \in R /\ IsBase(f[b0], d.c, d.n) /\ f[b0].committed
      BY <1>2, <2>1, <2>2 DEF IsBase
    <2> QED
      BY <2>3
  <1>8. \A d, g \in R : Sharing(d, g)
    BY <1>2 DEF Sharing
  <1>9. Visible(R) = Visible(B)
    BY <1>2, <1>4 DEF Visible
  <1>10. \A d \in R : GoodDoc(d, e)
    BY <1>4
  <1>11. GoodBlobs(R, e)
    <2> HIDE DEF R
    <2> QED
      BY <1>5, <1>6, <1>7, <1>8, <1>10 DEF GoodBlobs
  <1> QED
    BY <1>3, <1>9, <1>11

\* An uncommitted blob is added under a name that has no documents.
LEMMA StageGood ==
    ASSUME NEW B, NEW e \in Nat, GoodBlobs(B, e), NEW new, GoodDoc(new, e + 1),
           ~new.committed, new.array = 0, new.s = 0,
           \A d \in B : ~(d.c = new.c /\ d.n = new.n)
    PROVE  GoodBlobs(B \cup {new}, e + 1) /\ Visible(B \cup {new}) = Visible(B)
  <1> DEFINE R == B \cup {new}
  <1>1. IsFiniteSet(R)
    BY FS_AddElement DEF GoodBlobs
  <1>2. \A d \in R : GoodDoc(d, e + 1)
    BY GoodDocGrows DEF GoodBlobs
  <1>3. \A d, f \in R : d.s = 0 /\ f.s = 0 /\ d.c = f.c /\ d.n = f.n => d = f
    BY DEF GoodBlobs
  <1>4. \A d \in R : d.s # 0 => \E b \in R : IsBase(b, d.c, d.n) /\ b.committed
    BY DEF GoodBlobs
  <1>5. \A d, f \in R : Sharing(d, f)
    BY DEF GoodBlobs, Sharing
  <1>6. Visible(R) = Visible(B)
    BY DEF Visible
  <1> HIDE DEF R
  <1>7. GoodBlobs(R, e + 1)
    BY <1>1, <1>2, <1>3, <1>4, <1>5 DEF GoodBlobs
  <1> QED
    BY <1>6, <1>7 DEF R

-----------------------------------------------------------------------------
(* The state of the store.                                                 *)

\* Without a clock a container's lease is free, infinite or broken.
ContainerLeases ==
    {None, AvailableLease} \cup {InfiniteLease(id) : id \in LeaseIds}
                           \cup {BrokenLease(id) : id \in LeaseIds}

GoodBlocks(K) ==
    /\ \A b \in K : b.c \in Containers /\ b.n \in Names /\ b.id \in BlockIds /\ b.data \in Data
    /\ \A a, b \in K : a.c = b.c /\ a.n = b.n /\ a.id = b.id => a = b

\* The inductive invariant.
IInv ==
    /\ containers \in [Containers -> ContainerLeases]
    /\ etags \in 0 .. MaxEtags
    /\ GoodBlobs(blobs, etags)
    /\ GoodBlocks(blocks)
    /\ \A d \in blobs \cup blocks : Exists(d.c)

\* Only block blobs share arrays: their elements are never changed in place.
BlockArrays == \A d \in blobs : d.array # 0 => d.type = "block"

\* What a step of the store has to achieve.
StepOK ==
    /\ IInv'
    /\ CopyTypes \subseteq {"block"} /\ BlockArrays
          => BlockArrays' /\ [Service!Next]_(Service!vars)

LEMMA LeaseTypes == ContainerLeases \subseteq ILease \cup {None}
  BY LeaseAssumption DEF ContainerLeases, ILease, AvailableLease, InfiniteLease, BrokenLease

LEMMA IInvWellFormed ==
    ASSUME IInv
    PROVE  WellFormed
  <1>1. TypeOK
    <2>1. containers \in [Containers -> ILease \cup {None}]
      BY LeaseTypes DEF IInv
    <2>2. ASSUME NEW d \in blobs
          PROVE  /\ d.c \in Containers /\ d.n \in Names /\ d.s \in Times \cup {0}
                 /\ d.type \in Types /\ d.committed \in BOOLEAN /\ d.etag \in 1 .. etags
                 /\ d.content \in (IF d.type = "page" THEN PageMaps ELSE Seq(Chunk))
                 /\ d.len \in 0 .. MaxLen
                 /\ d.type # "page" => d.len =< Len(d.content)
                 /\ d.sealed \in BOOLEAN /\ d.archived \in BOOLEAN /\ d.seq \in 0 .. 1
      <3>1. GoodDoc(d, etags)
        BY DEF IInv, GoodBlobs
      <3> QED
        BY <3>1 DEF GoodDoc, Documents
    <2>3. \A b \in blocks : b.c \in Containers /\ b.n \in Names /\ b.id \in BlockIds /\ b.data \in Data
      BY DEF IInv, GoodBlocks
    <2> QED
      BY <2>1, <2>2, <2>3 DEF IInv, TypeOK
  <1>2. \A d, e \in blobs : d.s = 0 /\ e.s = 0 /\ d.c = e.c /\ d.n = e.n => d = e
    BY DEF IInv, GoodBlobs
  <1>3. \A d \in blobs : d.s # 0 => \E b \in Doc(d.c, d.n, 0) : b.committed
    BY DEF IInv, GoodBlobs, Doc, IsBase
  <1>4. \A a, b \in blocks : a.c = b.c /\ a.n = b.n /\ a.id = b.id => a = b
    BY DEF IInv, GoodBlocks
  <1> QED
    BY <1>1, <1>2, <1>3, <1>4 DEF IInv, WellFormed

\* Every document lies in a container that exists, so all are listed.
LEMMA ObjectsVisible ==
    ASSUME IInv
    PROVE  Objects = Visible(blobs)
  <1>1. \A d \in blobs : d.c \in {c \in Containers : Exists(c)}
    BY DEF IInv, GoodBlobs, GoodDoc, Documents
  <1>2. UNION {ListBlobs(c, TRUE, FALSE) : c \in {c \in Containers : Exists(c)}}
           = {d \in blobs : d.committed}
    BY <1>1 DEF ListBlobs
  <1> QED
    BY <1>2 DEF Objects, Visible, Object

LEMMA ObjectsVisibleNext ==
    ASSUME IInv'
    PROVE  Objects' = Visible(blobs')
  <1>1. \A d \in blobs' : d.c \in {x \in Containers : Exists(x)'}
    BY DEF IInv, GoodBlobs, GoodDoc, Documents
  <1>2. (UNION {ListBlobs(x, TRUE, FALSE) : x \in {x \in Containers : Exists(x)}})'
           = {d \in blobs' : d.committed}
    BY <1>1 DEF ListBlobs
  <1> QED
    BY <1>2 DEF Objects, Visible, Object

\* What a good document shows is one of the views.
LEMMA ViewType ==
    ASSUME NEW d, NEW e, GoodDoc(d, e)
    PROVE  View(d) \in Views
  <1> USE DEF Types
  <1>1. /\ d.type \in {"block", "append", "page"} /\ d.len \in 0 .. MaxLen /\ d.sealed \in BOOLEAN
        /\ MaxLen \in Nat
    BY LokiBlobStoreAssumption DEF GoodDoc, Documents
  <1>2. CASE d.type = "page"
    <2>1. d.content \in PageMaps /\ d.sealed = FALSE
      BY <1>1, <1>2 DEF GoodDoc
    <2> DEFINE body == [p \in Pages |-> IF p < d.len THEN d.content[p] ELSE None]
    <2>2. body \in [Pages -> Data \cup {Zero, None}]
      BY <2>1 DEF PageMaps
    <2>3. View(d) = [type |-> "page", sealed |-> FALSE, body |-> body]
      BY <1>2, <2>1 DEF View
    <2> HIDE DEF body
    <2> QED
      BY <2>2, <2>3 DEF Views
  <1>3. CASE d.type # "page"
    <2>1. d.content \in Seq(Chunk) /\ d.len =< Len(d.content)
      BY <1>3 DEF GoodDoc
    <2> DEFINE body == [i \in 1 .. d.len |-> d.content[i].data]
    <2>2. \A i \in 1 .. d.len : d.content[i] \in Chunk
      BY <1>1, <2>1
    <2>3. body \in [1 .. d.len -> Data]
      BY <2>2 DEF Chunk
    <2>4. body \in UNION {[1 .. k -> Data] : k \in 0 .. MaxLen}
      BY <1>1, <2>3
    <2>5. View(d) = [type |-> d.type, sealed |-> d.sealed, body |-> body]
      BY <1>3 DEF View
    <2> HIDE DEF body
    <2>6. View(d) \in [type : {"block", "append"}, sealed : BOOLEAN,
                       body : UNION {[1 .. k -> Data] : k \in 0 .. MaxLen}]
      BY <1>1, <1>3, <2>4, <2>5
    <2> QED
      BY <2>6 DEF Views
  <1> QED
    BY <1>2, <1>3

\* A base blob that is written is a write of the service.
LEMMA WriteSeen ==
    ASSUME IInv, IInv', NEW c \in Containers, NEW n \in Names, Exists(c),
           containers' = containers, etags' = etags + 1,
           NEW new \in blobs', IsBase(new, c, n), new.committed, new.etag = etags',
           Visible(blobs') = {o \in Visible(blobs) : ~(o.c = c /\ o.n = n /\ o.s = 0)}
                                \cup {Object(new)}
    PROVE  Service!Write(c, n)
  <1>1. Objects = Visible(blobs)
    BY ObjectsVisible
  <1>2. Objects' = Visible(blobs')
    BY ObjectsVisibleNext
  <1>3. {o \in Visible(blobs) : ~(o.c = c /\ o.n = n /\ o.s = 0)}
           = Objects \ Service!Base(c, n)
    BY <1>1 DEF Service!Base, Service!Of
  <1>4. /\ Object(new).c = c /\ Object(new).n = n /\ Object(new).s = 0
        /\ Object(new).etag = etags + 1 /\ Object(new).view \in Views
    <2>1. GoodDoc(new, etags')
      BY DEF IInv, GoodBlobs
    <2>2. View(new) \in Views
      BY <2>1, ViewType
    <2> QED
      BY <2>2 DEF Object, IsBase
  <1>5. etags + 1 \in (1 .. MaxEtags) \ (1 .. etags) /\ 1 .. etags' = (1 .. etags) \cup {etags + 1}
    BY LokiBlobStoreAssumption DEF IInv
  <1> DEFINE o == Object(new)
  <1>6. o \in Objects' /\ Objects' = (Objects \ Service!Base(c, n)) \cup {o}
    BY <1>2, <1>3
  <1>7. c \in {x \in Containers : Exists(x)}
    OBVIOUS
  <1>8. {x \in Containers : Exists(x)}' = {x \in Containers : Exists(x)}
    BY DEF Exists
  <1> HIDE DEF o
  <1> QED
    BY <1>4, <1>5, <1>6, <1>7, <1>8 DEF Service!Write, o

\* What does not show is no step of the service.
LEMMA Unseen ==
    ASSUME IInv, IInv', containers' = containers, etags' = etags,
           Visible(blobs') = Visible(blobs)
    PROVE  UNCHANGED Service!vars
  <1>1. {x \in Containers : Exists(x)}' = {x \in Containers : Exists(x)}
    BY DEF Exists
  <1> QED
    BY <1>1, ObjectsVisible, ObjectsVisibleNext DEF Service!vars

\* A new document takes the place of a base blob.
LEMMA PutStep ==
    ASSUME IInv, NEW c \in Containers, NEW n \in Names, Exists(c),
           etags < MaxEtags, etags' = etags + 1, containers' = containers,
           blocks' \subseteq blocks,
           NEW B, GoodBlobs(B, etags), Visible(B) = Visible(blobs), \A d \in B : Exists(d.c),
           NEW new, GoodDoc(new, etags + 1), IsBase(new, c, n), new.committed,
           new.etag = etags + 1,
           new.array # 0 => \E d \in B : /\ d.array = new.array
                                         /\ d.type = new.type /\ d.content = new.content,
           blobs' = {d \in B : ~IsBase(d, c, n)} \cup {new}
    PROVE  /\ IInv' /\ Service!Write(c, n)
           /\ (\A d \in B \cup {new} : d.array # 0 => d.type = "block") => BlockArrays'
  <1>1. etags \in Nat /\ etags' \in 0 .. MaxEtags
    BY LokiBlobStoreAssumption DEF IInv
  <1>2. GoodBlobs(blobs', etags')
    BY <1>1, ReplaceGood
  <1>3. \A d \in blobs' \cup blocks' : Exists(d.c)'
    BY DEF IInv, Exists, IsBase
  <1>4. GoodBlocks(blocks')
    BY DEF IInv, GoodBlocks
  <1>5. IInv'
    BY <1>1, <1>2, <1>3, <1>4 DEF IInv
  <1>6. Visible(blobs') = {o \in Visible(blobs) : ~(o.c = c /\ o.n = n /\ o.s = 0)}
                             \cup {Object(new)}
    BY ReplaceVisible
  <1>7. new \in blobs'
    OBVIOUS
  <1>8. (\A d \in B \cup {new} : d.array # 0 => d.type = "block") => BlockArrays'
    BY DEF BlockArrays
  <1> QED
    BY <1>5, <1>6, <1>7, <1>8, WriteSeen

\* The document that a Put makes.
LEMMA NewDocGood ==
    ASSUME etags \in Nat, etags' = etags + 1, NEW c \in Containers, NEW n \in Names,
           NEW type \in Types, NEW len \in 0 .. MaxLen,
           NEW content \in (IF type = "page" THEN PageMaps ELSE Seq(Chunk)),
           type # "page" => len =< Len(content)
    PROVE  LET new == NewDoc(c, n, type, content, len)
           IN  /\ GoodDoc(new, etags + 1) /\ IsBase(new, c, n) /\ new.committed
               /\ new.etag = etags + 1 /\ new.array = 0
  <1> DEFINE new == NewDoc(c, n, type, content, len)
  <1>1. etags' \in 1 .. etags + 1
    OBVIOUS
  <1>2. new \in Documents(etags + 1)
    BY <1>1 DEF NewDoc, Documents
  <1> QED
    BY <1>2 DEF NewDoc, GoodDoc, IsBase

LEMMA CreateStep ==
    ASSUME IInv, NEW c \in Containers, NEW n \in Names, NEW cond,
           NEW type \in Types, NEW len \in 0 .. MaxLen,
           NEW content \in (IF type = "page" THEN PageMaps ELSE Seq(Chunk)),
           type # "page" => len =< Len(content),
           CreateBlob(c, n, cond, type, content, len)
    PROVE  StepOK
  <1> DEFINE new == NewDoc(c, n, type, content, len)
  <1>1. /\ Exists(c) /\ etags < MaxEtags /\ etags' = etags + 1 /\ UNCHANGED <<containers, blocks>>
        /\ blobs' = (blobs \ Doc(c, n, 0)) \cup {new}
    BY DEF CreateBlob, NewEtag
  <1>2. etags \in Nat
    BY LokiBlobStoreAssumption DEF IInv
  <1>3. /\ GoodDoc(new, etags + 1) /\ IsBase(new, c, n) /\ new.committed
        /\ new.etag = etags + 1 /\ new.array = 0
    BY <1>1, <1>2, NewDocGood
  <1>4. blobs \ Doc(c, n, 0) = {d \in blobs : ~IsBase(d, c, n)}
    BY DEF Doc, IsBase
  <1> HIDE DEF new
  <1>5. IInv' /\ Service!Write(c, n) /\ (BlockArrays => BlockArrays')
    BY <1>1, <1>3, <1>4, PutStep DEF IInv, BlockArrays
  <1> QED
    BY <1>5 DEF StepOK, Service!Next

\* A nonempty set of positions has a last one.
LEMMA LastPosition ==
    ASSUME NEW k \in Nat, NEW P \in SUBSET (1 .. k), P # {}
    PROVE  \E i \in P : \A j \in P : j =< i
  <1> DEFINE T == {k - i : i \in P}
  <1>1. T \subseteq Nat /\ T # {}
    <2>1. \A i \in P : i \in Int /\ k - i \in Nat
      OBVIOUS
    <2> QED
      BY <2>1
  <1> HIDE DEF T
  <1>2. PICK x \in T : \A y \in T : ~ (<<y, x>> \in OpToRel(<, Nat))
    BY <1>1, WFMin, NatLessThanWellFounded
  <1>3. \A y \in T : x =< y
    <2>1. \A y \in T : ~ (y < x)
      BY <1>1, <1>2 DEF OpToRel
    <2> QED
      BY <1>1, <2>1
  <1>4. PICK i \in P : x = k - i
    BY DEF T
  <1>5. \A j \in P : k - j \in T
    BY DEF T
  <1>6. \A j \in P : k - i =< k - j
    BY <1>3, <1>4, <1>5
  <1> QED
    BY <1>6

\* A block list selects chunks.
LEMMA SelectedChunks ==
    ASSUME NEW doc, \A d \in doc : d.content \in Seq(Chunk),
           NEW staged, \A b \in staged : b.id \in BlockIds /\ b.data \in Data,
           NEW entry, entry.from \in {"uncommitted", "committed", "latest"}
    PROVE  Selected(doc, staged, entry) \subseteq Chunk
  <1> DEFINE uncommitted == {[id |-> b.id, data |-> b.data] : b \in {b \in staged : b.id = entry.id}}
             d == CHOOSE x \in doc : TRUE
             places == IF doc = {} THEN {} ELSE {i \in DOMAIN d.content : d.content[i].id = entry.id}
             committed == IF places = {} THEN {}
                          ELSE {d.content[CHOOSE i \in places : \A j \in places : j =< i]}
  <1>1. uncommitted \subseteq Chunk
    BY DEF Chunk
  <1>2. committed \subseteq Chunk
    <2> SUFFICES ASSUME places # {}
                 PROVE  d.content[CHOOSE i \in places : \A j \in places : j =< i] \in Chunk
      OBVIOUS
    <2>1. d \in doc /\ d.content \in Seq(Chunk)
      OBVIOUS
    <2>2. places \in SUBSET (1 .. Len(d.content)) /\ Len(d.content) \in Nat
      BY <2>1
    <2> HIDE DEF places, d
    <2>3. \E i \in places : \A j \in places : j =< i
      BY <2>2, LastPosition
    <2>4. (CHOOSE i \in places : \A j \in places : j =< i) \in places
      BY <2>3
    <2>5. (CHOOSE i \in places : \A j \in places : j =< i) \in 1 .. Len(d.content)
      BY <2>2, <2>4
    <2> QED
      BY <2>1, <2>5
  <1>3. Selected(doc, staged, entry) =
           CASE entry.from = "uncommitted" -> uncommitted
             [] entry.from = "committed"   -> committed
             [] entry.from = "latest"      -> IF uncommitted # {} THEN uncommitted ELSE committed
    BY DEF Selected
  <1> HIDE DEF uncommitted, committed
  <1> QED
    BY <1>1, <1>2, <1>3

LEMMA CommitStep ==
    ASSUME IInv, NEW c \in Containers, NEW n \in Names, NEW cond, NEW list \in BlockLists,
           CommitBlockList(c, n, cond, list)
    PROVE  StepOK
  <1> DEFINE doc == Doc(c, n, 0)
             selected == [i \in DOMAIN list |-> Selected(doc, BlocksOf(c, n), list[i])]
             content == [i \in DOMAIN list |-> CHOOSE x \in selected[i] : TRUE]
             new == NewDoc(c, n, "block", content, Len(list))
  <1>1. /\ Exists(c) /\ etags < MaxEtags /\ etags' = etags + 1 /\ containers' = containers
        /\ \A d \in doc : d.type = "block"
        /\ \A i \in DOMAIN list : selected[i] # {}
        /\ blobs' = (blobs \ doc) \cup {new} /\ blocks' = blocks \ BlocksOf(c, n)
    BY DEF CommitBlockList, NewEtag
  <1>2. PICK k \in 0 .. MaxLen :
           list \in [1 .. k -> [id : BlockIds, from : {"uncommitted", "committed", "latest"}]]
    BY DEF BlockLists
  <1>3. k \in Nat /\ DOMAIN list = 1 .. k /\ Len(list) = k
    BY <1>2
  <1>4. \A d \in doc : d.content \in Seq(Chunk)
    BY <1>1 DEF Doc, IInv, GoodBlobs, GoodDoc
  <1>5. \A b \in BlocksOf(c, n) : b.id \in BlockIds /\ b.data \in Data
    BY DEF BlocksOf, IInv, GoodBlocks
  <1>6. \A i \in 1 .. k : content[i] \in Chunk
    <2> SUFFICES ASSUME NEW i \in 1 .. k PROVE content[i] \in Chunk
      OBVIOUS
    <2>1. list[i].from \in {"uncommitted", "committed", "latest"}
      BY <1>2
    <2>2. selected[i] = Selected(doc, BlocksOf(c, n), list[i])
      BY <1>3
    <2> HIDE DEF doc
    <2>3. Selected(doc, BlocksOf(c, n), list[i]) \subseteq Chunk
      BY <1>4, <1>5, <2>1, SelectedChunks
    <2>4. content[i] \in selected[i]
      BY <1>1, <1>3
    <2> QED
      BY <2>2, <2>3, <2>4
  <1>7. content \in Seq(Chunk) /\ Len(content) = k
    <2>1. content = [i \in 1 .. k |-> content[i]]
      BY <1>3
    <2> HIDE DEF content
    <2>2. content \in [1 .. k -> Chunk]
      BY <1>6, <2>1
    <2> QED
      BY <1>3, <2>2
  <1>8. etags \in Nat /\ "block" \in Types
    BY LokiBlobStoreAssumption DEF IInv, Types
  <1> HIDE DEF content
  <1>9. /\ GoodDoc(new, etags + 1) /\ IsBase(new, c, n) /\ new.committed
        /\ new.etag = etags + 1 /\ new.array = 0
    <2>1. k \in 0 .. MaxLen /\ k =< Len(content)
      BY <1>3, <1>7
    <2> QED
      BY <1>1, <1>3, <1>7, <1>8, <2>1, NewDocGood
  <1>10. blobs \ doc = {d \in blobs : ~IsBase(d, c, n)}
    BY DEF Doc, IsBase
  <1>11. blocks' \subseteq blocks
    BY <1>1
  <1> HIDE DEF new, doc, selected
  <1>12. IInv' /\ Service!Write(c, n) /\ (BlockArrays => BlockArrays')
    BY <1>1, <1>9, <1>10, <1>11, PutStep DEF IInv, BlockArrays
  <1> QED
    BY <1>12 DEF StepOK, Service!Next

\* A copy shares the arrays of its source.
LEMMA CopyStep ==
    ASSUME IInv, NEW c \in Containers, NEW n \in Names, NEW src \in blobs, src.committed,
           src.type \in CopyTypes, Exists(c), etags < MaxEtags, etags' = etags + 1, UNCHANGED <<containers, blocks>>,
           NEW sealed \in BOOLEAN, src.type = "page" => ~sealed, NEW archived \in BOOLEAN,
           InsertCopy(src, c, n, sealed, archived)
    PROVE  StepOK
  <1> DEFINE array == IF src.array = 0 THEN FreshArray ELSE src.array
             shared == [src EXCEPT !.array = array]
             copy == [shared EXCEPT !.c = c, !.n = n, !.s = 0, !.etag = etags',
                                    !.sealed = sealed, !.archived = archived]
             B == (blobs \ {src}) \cup {shared}
  <1>1. blobs' = {d \in B : ~IsBase(d, c, n)} \cup {copy}
    BY DEF InsertCopy, IsBase
  <1>2. IsFiniteSet(blobs) /\ GoodBlobs(blobs, etags) /\ etags \in Nat /\ GoodDoc(src, etags)
    BY LokiBlobStoreAssumption DEF IInv, GoodBlobs
  <1>3. src.array \in Nat
    BY <1>2 DEF GoodDoc, Documents
  <1>4. array \in Nat /\ (array = src.array \/ (src.array = 0 /\ \A d \in blobs : d.array # array))
    BY <1>2, <1>3, FreshArrayExists
  <1> HIDE DEF array
  <1>5. GoodBlobs(B, etags) /\ Visible(B) = Visible(blobs)
    BY <1>2, <1>4, ShareGood
  <1>6. /\ shared \in Documents(etags) /\ shared.array = array /\ shared.c = src.c
        /\ shared.type = src.type /\ shared.content = src.content /\ shared.len = src.len
        /\ shared.committed = src.committed
    BY <1>2, <1>4 DEF GoodDoc, Documents
  <1>7. \A d \in B : Exists(d.c)
    BY <1>6 DEF IInv
  <1>8. shared \in B
    OBVIOUS
  <1> HIDE DEF shared
  <1>9. /\ copy \in Documents(etags + 1) /\ copy.array = array
        /\ copy.type = src.type /\ copy.content = src.content /\ copy.len = src.len
        /\ copy.committed = src.committed /\ copy.sealed = sealed
        /\ copy.c = c /\ copy.n = n /\ copy.s = 0 /\ copy.etag = etags + 1
    <2>1. etags' \in 1 .. etags + 1 /\ 1 .. etags \subseteq 1 .. etags + 1
      BY <1>2
    <2> QED
      BY <1>6, <2>1 DEF Documents
  <1> HIDE DEF copy, B
  <1>10. GoodDoc(copy, etags + 1) /\ IsBase(copy, c, n)
    BY <1>2, <1>9 DEF GoodDoc, IsBase
  <1>11. \E d \in B : d.array = copy.array /\ d.type = copy.type /\ d.content = copy.content
    BY <1>6, <1>8, <1>9
  <1>12. /\ IInv' /\ Service!Write(c, n)
         /\ (\A d \in B \cup {copy} : d.array # 0 => d.type = "block") => BlockArrays'
    BY <1>1, <1>5, <1>7, <1>9, <1>10, <1>11, PutStep
  <1>13. CopyTypes \subseteq {"block"} /\ BlockArrays
            => \A d \in B \cup {copy} : d.array # 0 => d.type = "block"
    BY <1>6, <1>9 DEF B, BlockArrays
  <1> QED
    BY <1>12, <1>13 DEF StepOK, Service!Next

-----------------------------------------------------------------------------
(* Changes in place.                                                       *)

LEMMA UpdateStep ==
    ASSUME IInv, NEW c \in Containers, NEW n \in Names, Exists(c), NEW doc \in Doc(c, n, 0),
           doc.committed, etags < MaxEtags, etags' = etags + 1, UNCHANGED <<containers, blocks>>,
           NEW x, GoodDoc(x, etags), Successor(doc, x),
           doc.type = "block" => x.content = doc.content,
           blobs' = Mutated(doc, [x EXCEPT !.etag = etags'])
    PROVE  StepOK
  <1> DEFINE new == [x EXCEPT !.etag = etags']
  <1>1. etags \in Nat /\ etags' \in 0 .. MaxEtags /\ GoodBlobs(blobs, etags)
    BY LokiBlobStoreAssumption DEF IInv
  <1>2. doc \in blobs /\ IsBase(doc, c, n)
    BY DEF Doc, IsBase
  <1>3. /\ new \in Documents(etags + 1) /\ new.etag = etags + 1 /\ new.array = x.array
        /\ new.c = x.c /\ new.n = x.n /\ new.s = x.s /\ new.type = x.type
        /\ new.committed = x.committed /\ new.content = x.content /\ new.len = x.len
        /\ new.sealed = x.sealed
    <2>1. etags' \in 1 .. etags + 1 /\ 1 .. etags \subseteq 1 .. etags + 1
      BY <1>1
    <2> QED
      BY <2>1 DEF GoodDoc, Documents
  <1> HIDE DEF new
  <1>4. GoodDoc(new, etags + 1) /\ Successor(doc, new) /\ IsBase(new, c, n) /\ new.committed
    BY <1>2, <1>3 DEF GoodDoc, Successor, IsBase
  <1>5. blobs' = Change(blobs, doc, new)
    BY DEF Mutated, Change, new
  <1>6. GoodBlobs(blobs', etags')
    BY <1>1, <1>2, <1>4, <1>5, ChangeGood
  <1>7. \A d \in blobs' : d.c \in {b.c : b \in blobs}
    <2> SUFFICES ASSUME NEW b \in blobs
                 PROVE  (IF b = doc THEN new
                         ELSE IF b.array # 0 /\ b.array = doc.array
                              THEN [b EXCEPT !.content = new.content] ELSE b).c = b.c
      BY <1>5 DEF Change
    <2>1. [b EXCEPT !.content = new.content].c = b.c
      BY <1>1 DEF GoodBlobs, GoodDoc, Documents
    <2> QED
      BY <1>4, <2>1 DEF Successor
  <1>8. IInv'
    BY <1>1, <1>6, <1>7 DEF IInv, Exists
  <1>9. ASSUME BlockArrays
        PROVE  BlockArrays' /\ Service!Write(c, n)
    <2>1. ASSUME NEW b \in blobs, b.array # 0, b.array = doc.array
          PROVE  [b EXCEPT !.content = new.content] = b
      <3>1. b.content = doc.content /\ doc.type = "block" /\ b \in Documents(etags)
        BY <1>1, <1>2, <1>9, <2>1 DEF GoodBlobs, GoodDoc, Sharing, BlockArrays
      <3>2. new.content = b.content
        BY <1>3, <3>1
      <3> QED
        BY <3>1, <3>2 DEF Documents
    <2>2. Change(blobs, doc, new) = (blobs \ {doc}) \cup {new}
      BY <1>2, <2>1 DEF Change
    <2>3. blobs \ {doc} = {d \in blobs : ~IsBase(d, c, n)}
      BY <1>1, <1>2 DEF GoodBlobs, IsBase
    <2>4. blobs' = {d \in blobs : ~IsBase(d, c, n)} \cup {new}
      BY <1>5, <2>2, <2>3
    <2>5. new.array # 0 => doc.array = new.array /\ doc.type = new.type /\ doc.content = new.content
      BY <1>2, <1>3, <1>4, <1>9 DEF Successor, BlockArrays
    <2>6. \A d \in blobs : Exists(d.c)
      BY DEF IInv
    <2>7. \A d \in blobs \cup {new} : d.array # 0 => d.type = "block"
      BY <1>2, <1>9, <2>5 DEF BlockArrays
    <2> QED
      BY <1>1, <1>2, <1>3, <1>4, <2>4, <2>5, <2>6, <2>7, PutStep
  <1> QED
    BY <1>8, <1>9 DEF StepOK, Service!Next

\* The documents that the operations make of a document.
LEMMA SameStep ==
    ASSUME IInv, NEW c \in Containers, NEW n \in Names, NEW cond,
           UpdateBlob(c, n, cond, AnyDoc, Same)
    PROVE  StepOK
  <1>1. PICK doc \in Doc(c, n, 0) :
           /\ doc.committed /\ NewEtag
           /\ blobs' = Mutated(doc, [doc EXCEPT !.etag = etags'])
    BY DEF UpdateBlob, AnyDoc, Same
  <1>2. GoodDoc(doc, etags)
    BY DEF IInv, GoodBlobs, Doc
  <1>3. Successor(doc, doc)
    <2>1. doc.type # "page" => doc.content \in Seq(Chunk)
      BY <1>2 DEF GoodDoc
    <2>2. doc.type # "page" => Len(doc.content) =< Len(doc.content)
      BY <2>1
    <2> QED
      BY <2>2 DEF Successor
  <1> QED
    BY <1>1, <1>2, <1>3, UpdateStep DEF UpdateBlob, NewEtag

LEMMA AppendStep ==
    ASSUME IInv, NEW c \in Containers, NEW n \in Names, NEW cond, NEW data \in Data,
           AppendBlock(c, n, cond, data)
    PROVE  StepOK
  <1> DEFINE chunk == [id |-> None, data |-> data]
  <1>1. Exists(c) /\ UNCHANGED <<containers, blocks>>
    BY DEF AppendBlock, UpdateBlob
  <1>2. PICK doc \in Doc(c, n, 0) :
           /\ doc.committed /\ NewEtag /\ doc.type = "append" /\ Len(doc.content) < MaxLen
           /\ blobs' = Mutated(doc, [[doc EXCEPT !.len = doc.len + 1,
                                        !.content = Append(doc.content, chunk)] EXCEPT !.etag = etags'])
    BY DEF AppendBlock, UpdateBlob
  <1>3. GoodDoc(doc, etags)
    BY DEF IInv, GoodBlobs, Doc
  <1> DEFINE x == [doc EXCEPT !.len = doc.len + 1, !.content = Append(doc.content, chunk)]
  <1>4. /\ chunk \in Chunk /\ doc.content \in Seq(Chunk) /\ doc.len =< Len(doc.content)
        /\ doc.len \in 0 .. MaxLen /\ MaxLen \in Nat
    BY <1>2, <1>3, LokiBlobStoreAssumption DEF Chunk, GoodDoc, Documents
  <1> HIDE DEF chunk
  <1>5. /\ Append(doc.content, chunk) \in Seq(Chunk)
        /\ Len(Append(doc.content, chunk)) = Len(doc.content) + 1
        /\ doc.len + 1 \in 0 .. MaxLen /\ Len(doc.content) \in Nat
    BY <1>2, <1>4
  <1>6. /\ x \in Documents(etags) /\ x.array = doc.array /\ x.len = doc.len + 1
        /\ x.c = doc.c /\ x.n = doc.n /\ x.s = doc.s /\ x.type = doc.type
        /\ x.committed = doc.committed /\ x.content = Append(doc.content, chunk)
        /\ x.sealed = doc.sealed
    BY <1>3, <1>5 DEF GoodDoc, Documents
  <1>7. blobs' = Mutated(doc, [x EXCEPT !.etag = etags'])
    BY <1>2
  <1> HIDE DEF x
  <1>8. GoodDoc(x, etags) /\ Successor(doc, x)
    BY <1>2, <1>4, <1>5, <1>6 DEF GoodDoc, Successor
  <1> QED
    BY <1>1, <1>2, <1>7, <1>8, UpdateStep DEF NewEtag

LEMMA SealStep ==
    ASSUME IInv, NEW c \in Containers, NEW n \in Names, NEW cond, SealBlob(c, n, cond)
    PROVE  StepOK
  <1>1. Exists(c) /\ UNCHANGED <<containers, blocks>>
    BY DEF SealBlob, UpdateBlob
  <1>2. PICK doc \in Doc(c, n, 0) :
           /\ doc.committed /\ NewEtag /\ doc.type = "append"
           /\ blobs' = Mutated(doc, [[doc EXCEPT !.sealed = TRUE] EXCEPT !.etag = etags'])
    BY DEF SealBlob, UpdateBlob
  <1>3. GoodDoc(doc, etags)
    BY DEF IInv, GoodBlobs, Doc
  <1> DEFINE x == [doc EXCEPT !.sealed = TRUE]
  <1>4. /\ x \in Documents(etags) /\ x.array = doc.array /\ x.len = doc.len
        /\ x.c = doc.c /\ x.n = doc.n /\ x.s = doc.s /\ x.type = doc.type
        /\ x.committed = doc.committed /\ x.content = doc.content
    BY <1>3 DEF GoodDoc, Documents
  <1>5. blobs' = Mutated(doc, [x EXCEPT !.etag = etags'])
    BY <1>2
  <1> HIDE DEF x
  <1>6. GoodDoc(x, etags) /\ Successor(doc, x)
    BY <1>2, <1>3, <1>4 DEF GoodDoc, Successor
  <1> QED
    BY <1>1, <1>2, <1>5, <1>6, UpdateStep DEF NewEtag

\* The operations on pages write the map, the length or the sequence number.
LEMMA PageStep ==
    ASSUME IInv, NEW c \in Containers, NEW n \in Names, Exists(c), NEW doc \in Doc(c, n, 0),
           doc.committed, NewEtag, doc.type = "page", UNCHANGED <<containers, blocks>>,
           NEW x, GoodDoc(doc, etags) => x \in Documents(etags) /\ x.content \in PageMaps,
           GoodDoc(doc, etags) =>
              /\ x.c = doc.c /\ x.n = doc.n /\ x.s = doc.s /\ x.type = doc.type
              /\ x.committed = doc.committed /\ x.array = doc.array /\ x.sealed = doc.sealed,
           blobs' = Mutated(doc, [x EXCEPT !.etag = etags'])
    PROVE  StepOK
  <1>1. GoodDoc(doc, etags)
    BY DEF IInv, GoodBlobs, Doc
  <1>2. GoodDoc(x, etags) /\ Successor(doc, x)
    BY <1>1 DEF GoodDoc, Successor
  <1> QED
    BY <1>2, UpdateStep DEF NewEtag

LEMMA SetPagesType ==
    ASSUME NEW content \in PageMaps, NEW from, NEW to, NEW data \in Data \cup {Zero}
    PROVE  SetPages(content, from, to, data) \in PageMaps
  BY DEF SetPages, PageMaps

LEMMA UploadStep ==
    ASSUME IInv, NEW c \in Containers, NEW n \in Names, NEW cond, NEW from, NEW to,
           NEW data \in Data \cup {Zero},
           UpdateBlob(c, n, cond, IsPage,
                      LAMBDA doc : [doc EXCEPT !.content = SetPages(doc.content, from, to, data)])
    PROVE  StepOK
  <1>1. Exists(c) /\ UNCHANGED <<containers, blocks>>
    BY DEF UpdateBlob
  <1>2. PICK doc \in Doc(c, n, 0) :
           /\ doc.committed /\ NewEtag /\ doc.type = "page"
           /\ blobs' = Mutated(doc, [[doc EXCEPT !.content = SetPages(doc.content, from, to, data)]
                                        EXCEPT !.etag = etags'])
    BY DEF UpdateBlob, IsPage
  <1> DEFINE x == [doc EXCEPT !.content = SetPages(doc.content, from, to, data)]
  <1>3. ASSUME GoodDoc(doc, etags)
        PROVE  /\ x \in Documents(etags) /\ x.content \in PageMaps
               /\ x.c = doc.c /\ x.n = doc.n /\ x.s = doc.s /\ x.type = doc.type
               /\ x.committed = doc.committed /\ x.array = doc.array /\ x.sealed = doc.sealed
    <2>1. SetPages(doc.content, from, to, data) \in PageMaps
      BY <1>2, <1>3, SetPagesType DEF GoodDoc
    <2> QED
      BY <1>3, <2>1 DEF GoodDoc, Documents
  <1>4. blobs' = Mutated(doc, [x EXCEPT !.etag = etags'])
    BY <1>2
  <1> HIDE DEF x
  <1> QED
    BY <1>1, <1>2, <1>3, <1>4, PageStep

LEMMA ClearStep ==
    ASSUME IInv, NEW c \in Containers, NEW n \in Names, NEW cond, NEW from, NEW to,
           ClearRange(c, n, cond, from, to)
    PROVE  StepOK
  <1> DEFINE New(doc) == IF IsPage(doc)
                         THEN [doc EXCEPT !.content = SetPages(doc.content, from, to, Zero)]
                         ELSE doc
  <1>1. Exists(c) /\ UNCHANGED <<containers, blocks>>
    BY DEF ClearRange, UpdateBlob
  <1>2. PICK doc \in Doc(c, n, 0) :
           /\ doc.committed /\ NewEtag
           /\ blobs' = Mutated(doc, [New(doc) EXCEPT !.etag = etags'])
    BY DEF ClearRange, UpdateBlob
  <1>3. CASE doc.type = "page"
    <2> DEFINE x == [doc EXCEPT !.content = SetPages(doc.content, from, to, Zero)]
    <2>1. ASSUME GoodDoc(doc, etags)
          PROVE  /\ x \in Documents(etags) /\ x.content \in PageMaps
                 /\ x.c = doc.c /\ x.n = doc.n /\ x.s = doc.s /\ x.type = doc.type
                 /\ x.committed = doc.committed /\ x.array = doc.array /\ x.sealed = doc.sealed
      <3>1. SetPages(doc.content, from, to, Zero) \in PageMaps
        BY <1>3, <2>1, SetPagesType DEF GoodDoc
      <3> QED
        BY <2>1, <3>1 DEF GoodDoc, Documents
    <2>2. blobs' = Mutated(doc, [x EXCEPT !.etag = etags'])
      BY <1>2, <1>3 DEF IsPage
    <2> HIDE DEF x
    <2> QED
      BY <1>1, <1>2, <1>3, <2>1, <2>2, PageStep
  <1>4. CASE doc.type # "page"
    <2>1. blobs' = Mutated(doc, [doc EXCEPT !.etag = etags'])
      BY <1>2, <1>4 DEF IsPage
    <2>2. GoodDoc(doc, etags)
      BY DEF IInv, GoodBlobs, Doc
    <2>3. doc.content \in Seq(Chunk)
      BY <1>4, <2>2 DEF GoodDoc
    <2>4. Len(doc.content) =< Len(doc.content)
      BY <2>3
    <2>5. Successor(doc, doc)
      BY <2>4 DEF Successor
    <2> QED
      BY <1>1, <1>2, <2>1, <2>2, <2>5, UpdateStep DEF NewEtag
  <1> QED
    BY <1>3, <1>4

LEMMA ResizeStep ==
    ASSUME IInv, NEW c \in Containers, NEW n \in Names, NEW cond, NEW len \in 0 .. MaxLen,
           ResizePageBlob(c, n, cond, len)
    PROVE  StepOK
  <1>1. Exists(c) /\ UNCHANGED <<containers, blocks>>
    BY DEF ResizePageBlob, UpdateBlob
  <1> DEFINE Pg(doc) == IF doc.len > len THEN SetPages(doc.content, len, doc.len - 1, Zero)
                        ELSE doc.content
  <1>2. PICK doc \in Doc(c, n, 0) :
           /\ doc.committed /\ NewEtag /\ doc.type = "page"
           /\ blobs' = Mutated(doc, [[doc EXCEPT !.len = len, !.content = Pg(doc)] EXCEPT !.etag = etags'])
    BY DEF ResizePageBlob, UpdateBlob, IsPage
  <1> DEFINE pages == Pg(doc)
             x == [doc EXCEPT !.len = len, !.content = pages]
  <1>3. blobs' = Mutated(doc, [x EXCEPT !.etag = etags'])
    BY <1>2
  <1>4. GoodDoc(doc, etags) => pages \in PageMaps
    BY <1>2, SetPagesType DEF GoodDoc
  <1> HIDE DEF pages
  <1>5. ASSUME GoodDoc(doc, etags)
        PROVE  /\ x \in Documents(etags) /\ x.content \in PageMaps
               /\ x.c = doc.c /\ x.n = doc.n /\ x.s = doc.s /\ x.type = doc.type
               /\ x.committed = doc.committed /\ x.array = doc.array /\ x.sealed = doc.sealed
    BY <1>4, <1>5 DEF GoodDoc, Documents
  <1> HIDE DEF x
  <1> QED
    BY <1>1, <1>2, <1>3, <1>5, PageStep

LEMMA SequenceStep ==
    ASSUME IInv, NEW c \in Containers, NEW n \in Names, NEW cond, NEW seq \in 0 .. 1,
           UpdateSequenceNumber(c, n, cond, seq)
    PROVE  StepOK
  <1>1. Exists(c) /\ UNCHANGED <<containers, blocks>>
    BY DEF UpdateSequenceNumber, UpdateBlob
  <1>2. PICK doc \in Doc(c, n, 0) :
           /\ doc.committed /\ NewEtag /\ doc.type = "page"
           /\ blobs' = Mutated(doc, [[doc EXCEPT !.seq = seq] EXCEPT !.etag = etags'])
    BY DEF UpdateSequenceNumber, UpdateBlob, IsPage
  <1> DEFINE x == [doc EXCEPT !.seq = seq]
  <1>3. ASSUME GoodDoc(doc, etags)
        PROVE  /\ x \in Documents(etags) /\ x.content \in PageMaps
               /\ x.c = doc.c /\ x.n = doc.n /\ x.s = doc.s /\ x.type = doc.type
               /\ x.committed = doc.committed /\ x.array = doc.array /\ x.sealed = doc.sealed
    BY <1>2, <1>3 DEF GoodDoc, Documents
  <1>4. blobs' = Mutated(doc, [x EXCEPT !.etag = etags'])
    BY <1>2
  <1> HIDE DEF x
  <1> QED
    BY <1>1, <1>2, <1>3, <1>4, PageStep

-----------------------------------------------------------------------------
(* Snapshots, deletes, tiers and staged blocks.                            *)

LEMMA SnapshotStep ==
    ASSUME IInv, NEW c \in Containers, NEW n \in Names, NEW t \in Times, CreateSnapshot(c, n, t)
    PROVE  StepOK
  <1>1. Exists(c) /\ UNCHANGED <<containers, blocks, etags>>
    BY DEF CreateSnapshot
  <1>2. PICK d \in Doc(c, n, 0) :
           d.committed /\ blobs' = blobs \cup {SnapshotOf(d, t)}
    BY DEF CreateSnapshot, SnapshotOf
  <1> DEFINE copy == SnapshotOf(d, t)
  <1>3. d \in blobs /\ d.c = c /\ d.n = n /\ d.s = 0 /\ GoodDoc(d, etags)
    BY DEF Doc, IInv, GoodBlobs
  <1>4. /\ GoodBlobs(blobs', etags)
        /\ Visible(blobs') = Visible(blobs) \cup {[Object(d) EXCEPT !.s = t]}
    <2>1. GoodBlobs(blobs, etags)
      BY DEF IInv
    <2> QED
      BY <1>2, <1>3, <2>1, SnapshotGood
  <1>5. copy.c = c /\ copy.array = 0
    BY <1>3 DEF GoodDoc, Documents, SnapshotOf
  <1>6. IInv'
    BY <1>1, <1>2, <1>4, <1>5 DEF IInv, Exists
  <1>7. BlockArrays => BlockArrays'
    BY <1>2, <1>5 DEF BlockArrays
  <1>8. Objects = Visible(blobs) /\ Objects' = Visible(blobs')
    BY <1>6, ObjectsVisible, ObjectsVisibleNext
  <1>9. Object(d) \in Service!Base(c, n)
    BY <1>2, <1>3, <1>8 DEF Visible, Object, Service!Base, Service!Of
  <1>10. {x \in Containers : Exists(x)}' = {x \in Containers : Exists(x)}
    BY <1>1 DEF Exists
  <1> DEFINE o == Object(d)
  <1>11. o \in Service!Base(c, n) /\ Objects' = Objects \cup {[o EXCEPT !.s = t]}
    BY <1>4, <1>8, <1>9
  <1> HIDE DEF o
  <1>12. Service!Snapshot(c, n, t)
    BY <1>1, <1>10, <1>11 DEF Service!Snapshot
  <1> QED
    BY <1>6, <1>7, <1>12 DEF StepOK, Service!Next

LEMMA DeleteStep ==
    ASSUME IInv, NEW c \in Containers, NEW n \in Names, NEW s \in Times \cup {0},
           NEW mode \in Modes, DeleteBlob(c, n, s, mode)
    PROVE  StepOK
  <1>1. Exists(c) /\ UNCHANGED <<containers, blocks, etags>> /\ (s # 0 <=> mode = "snapshot")
    BY DEF DeleteBlob
  <1>2. blobs' = CASE mode \in {"base", "include"} -> blobs \ DocsOf(c, n)
                   [] mode = "snapshot" -> blobs \ Doc(c, n, s)
                   [] mode = "only"     -> blobs \ {d \in DocsOf(c, n) : d.s # 0}
    BY DEF DeleteBlob
  <1>3. \/ mode \in {"base", "include"} /\ blobs' = blobs \ DocsOf(c, n)
        \/ mode = "snapshot" /\ s # 0 /\ blobs' = blobs \ Doc(c, n, s)
        \/ mode = "only" /\ blobs' = blobs \ {d \in DocsOf(c, n) : d.s # 0}
    BY <1>1, <1>2 DEF Modes
  <1>4. blobs' \in SUBSET blobs
    BY <1>3
  <1>5. \A b \in blobs \ blobs', d \in blobs' : b.s = 0 /\ d.c = b.c /\ d.n = b.n => d.s = 0
    BY <1>3 DEF DocsOf, Doc
  <1>6. GoodBlobs(blobs', etags)
    BY <1>4, <1>5, RemoveGood DEF IInv
  <1>7. IInv'
    BY <1>1, <1>4, <1>6 DEF IInv, Exists
  <1>8. BlockArrays => BlockArrays'
    BY <1>4 DEF BlockArrays
  <1>9. Objects = Visible(blobs) /\ Objects' = Visible(blobs')
    BY <1>7, ObjectsVisible, ObjectsVisibleNext
  <1>10. {x \in Containers : Exists(x)}' = {x \in Containers : Exists(x)}
    BY <1>1 DEF Exists
  <1>11. \/ Objects' = Objects \ Service!Of(c, n)
         \/ Objects' = Objects \ Service!Snapshots(c, n)
         \/ \E t \in Times : Objects' = {o \in Objects : ~(o \in Service!Of(c, n) /\ o.s = t)}
    <2>1. CASE blobs' = blobs \ DocsOf(c, n)
      BY <1>9, <2>1 DEF Visible, Object, DocsOf, Service!Of
    <2>2. CASE s # 0 /\ blobs' = blobs \ Doc(c, n, s)
      <3>1. Objects' = {o \in Objects : ~(o \in Service!Of(c, n) /\ o.s = s)}
        BY <1>9, <2>2 DEF Visible, Object, Doc, Service!Of
      <3> QED
        BY <2>2, <3>1
    <2>3. CASE blobs' = blobs \ {d \in DocsOf(c, n) : d.s # 0}
      BY <1>9, <2>3 DEF Visible, Object, DocsOf, Service!Of, Service!Base, Service!Snapshots
    <2> QED
      BY <1>3, <2>1, <2>2, <2>3
  <1>12. Service!Delete(c, n)
    BY <1>1, <1>10, <1>11 DEF Service!Delete
  <1> QED
    BY <1>7, <1>8, <1>12 DEF StepOK, Service!Next

LEMMA TierStep ==
    ASSUME IInv, NEW c \in Containers, NEW n \in Names, NEW archived \in BOOLEAN,
           SetTier(c, n, archived)
    PROVE  StepOK
  <1>1. UNCHANGED <<containers, blocks, etags>>
    BY DEF SetTier
  <1>2. PICK doc \in Doc(c, n, 0) :
           /\ doc.type = "block"
           /\ blobs' = (blobs \ {doc}) \cup {[doc EXCEPT !.archived = archived]}
    BY DEF SetTier
  <1> DEFINE new == [doc EXCEPT !.archived = archived]
  <1>3. doc \in blobs /\ GoodDoc(doc, etags) /\ GoodBlobs(blobs, etags)
    BY DEF Doc, IInv, GoodBlobs
  <1>4. GoodBlobs(blobs', etags) /\ Visible(blobs') = Visible(blobs)
    BY <1>2, <1>3, TierGood
  <1>5. new.c = doc.c /\ new.type = doc.type
    BY <1>3 DEF GoodDoc, Documents
  <1>6. IInv'
    BY <1>1, <1>2, <1>3, <1>4, <1>5 DEF IInv, Exists
  <1>7. BlockArrays => BlockArrays'
    BY <1>2, <1>5 DEF BlockArrays
  <1> QED
    BY <1>1, <1>4, <1>6, <1>7, Unseen DEF StepOK

LEMMA StageStep ==
    ASSUME IInv, NEW c \in Containers, NEW n \in Names, NEW id \in BlockIds, NEW data \in Data,
           StageBlock(c, n, id, data)
    PROVE  StepOK
  <1> DEFINE block == [c |-> c, n |-> n, id |-> id, data |-> data]
             kept == {b \in blocks : ~(b \in BlocksOf(c, n) /\ b.id = id)}
  <1>1. Exists(c) /\ containers' = containers /\ blocks' = kept \cup {block}
    BY DEF StageBlock
  <1>2. /\ \A b \in kept : b \in blocks /\ ~(b.c = c /\ b.n = n /\ b.id = id)
        /\ block.c = c /\ block.n = n /\ block.id = id /\ block.data = data
    BY DEF BlocksOf
  <1> HIDE DEF kept, block
  <1>3. GoodBlocks(blocks')
    BY <1>1, <1>2 DEF IInv, GoodBlocks
  <1>4. \A b \in blocks' : Exists(b.c)'
    BY <1>1, <1>2 DEF IInv, Exists
  <1>5. CASE UNCHANGED <<blobs, etags>>
    <2>1. IInv'
      BY <1>1, <1>3, <1>4, <1>5 DEF IInv, Exists
    <2>2. UNCHANGED Service!vars
      BY <1>1, <1>5, <2>1, Unseen
    <2> QED
      BY <1>5, <2>1, <2>2 DEF StepOK, BlockArrays
  <1>6. CASE /\ DocsOf(c, n) = {} /\ NewEtag
             /\ blobs' = blobs \cup {[NewDoc(c, n, "block", <<>>, 0) EXCEPT !.committed = FALSE]}
    <2> DEFINE new == [NewDoc(c, n, "block", <<>>, 0) EXCEPT !.committed = FALSE]
    <2>1. etags \in Nat /\ etags' = etags + 1 /\ etags' \in 0 .. MaxEtags
          /\ GoodBlobs(blobs, etags)
      BY <1>6, LokiBlobStoreAssumption DEF IInv, NewEtag
    <2>2. /\ new \in Documents(etags + 1) /\ new.type = "block" /\ new.content = <<>>
          /\ new.len = 0 /\ new.committed = FALSE /\ new.array = 0 /\ new.s = 0
          /\ new.c = c /\ new.n = n
      <3>1. etags' \in 1 .. etags + 1 /\ 0 \in 0 .. MaxLen /\ "block" \in Types /\ <<>> \in Seq(Chunk)
        BY <2>1, LokiBlobStoreAssumption DEF Types
      <3> DEFINE doc == NewDoc(c, n, "block", <<>>, 0)
      <3>2. /\ doc \in Documents(etags + 1) /\ doc.type = "block" /\ doc.content = <<>>
            /\ doc.len = 0 /\ doc.array = 0 /\ doc.s = 0 /\ doc.c = c /\ doc.n = n
        BY <3>1 DEF NewDoc, Documents
      <3> HIDE DEF doc
      <3>3. LET x == [doc EXCEPT !.committed = FALSE]
            IN  /\ x \in Documents(etags + 1) /\ x.type = "block" /\ x.content = <<>>
                /\ x.len = 0 /\ x.committed = FALSE /\ x.array = 0 /\ x.s = 0
                /\ x.c = c /\ x.n = n
        BY <3>2 DEF Documents
      <3> QED
        BY <3>3 DEF doc
    <2> HIDE DEF new
    <2>3. GoodDoc(new, etags + 1)
      BY <2>2 DEF GoodDoc
    <2>4. \A d \in blobs : ~(d.c = new.c /\ d.n = new.n)
      BY <1>6, <2>2 DEF DocsOf
    <2>5. blobs' = blobs \cup {new}
      BY <1>6 DEF new
    <2>6. GoodBlobs(blobs', etags') /\ Visible(blobs') = Visible(blobs)
      BY <2>1, <2>2, <2>3, <2>4, <2>5, StageGood
    <2>7. IInv'
      BY <1>1, <1>3, <1>4, <2>1, <2>2, <2>5, <2>6 DEF IInv, Exists
    <2>8. BlockArrays => BlockArrays'
      BY <2>2, <2>5 DEF BlockArrays
    <2>9. Objects' = Objects
      BY <2>6, <2>7, ObjectsVisible, ObjectsVisibleNext
    <2>10. etags + 1 \in (1 .. MaxEtags) \ (1 .. etags) /\ 1 .. etags' = (1 .. etags) \cup {etags + 1}
      BY <2>1, LokiBlobStoreAssumption
    <2>11. c \in {x \in Containers : Exists(x)}
      BY <1>1
    <2>12. {x \in Containers : Exists(x)}' = {x \in Containers : Exists(x)}
      BY <1>1 DEF Exists
    <2>13. Service!Write(c, n)
      BY <2>9, <2>10, <2>11, <2>12 DEF Service!Write
    <2> QED
      BY <2>7, <2>8, <2>13 DEF StepOK, Service!Next
  <1> QED
    BY <1>5, <1>6 DEF StageBlock

LEMMA RestartStep ==
    ASSUME IInv, Restart
    PROVE  StepOK
  <1>1. blobs' = {[d EXCEPT !.array = 0] : d \in blobs} /\ UNCHANGED <<containers, blocks, etags>>
    BY DEF Restart
  <1>2. GoodBlobs(blobs', etags) /\ Visible(blobs') = Visible(blobs)
    BY <1>1, RestartGood DEF IInv
  <1>3. \A d \in blobs : [d EXCEPT !.array = 0].c = d.c /\ [d EXCEPT !.array = 0].array = 0
    BY DEF IInv, GoodBlobs, GoodDoc, Documents
  <1>4. IInv'
    <2>1. \A d \in blobs' \cup blocks' : Exists(d.c)'
      <3>1. \A d \in blobs \cup blocks : containers[d.c] # None
        BY DEF IInv, Exists
      <3>2. \A d \in blobs' : \E b \in blobs : d.c = b.c
        BY <1>1, <1>3
      <3> QED
        BY <1>1, <3>1, <3>2 DEF Exists
    <2> QED
      BY <1>1, <1>2, <2>1 DEF IInv
  <1>5. BlockArrays'
    BY <1>1, <1>3 DEF BlockArrays
  <1> QED
    BY <1>1, <1>2, <1>4, <1>5, Unseen DEF StepOK

-----------------------------------------------------------------------------
(* Containers.                                                             *)

LEMMA LeaseStep ==
    ASSUME IInv, NEW c \in Containers, Exists(c), NEW lease \in ContainerLeases, lease # None,
           SetContainerLease(c, lease)
    PROVE  StepOK
  <1>1. /\ containers' = [containers EXCEPT ![c] = lease] /\ UNCHANGED <<blobs, blocks, etags>>
        /\ containers' \in [Containers -> ContainerLeases]
    BY DEF SetContainerLease, IInv
  <1>2. \A x \in Containers : Exists(x)' <=> Exists(x)
    BY <1>1 DEF Exists, IInv
  <1>3. \A d \in blobs \cup blocks : d.c \in Containers
    BY DEF IInv, GoodBlobs, GoodDoc, Documents, GoodBlocks
  <1>4. IInv'
    BY <1>1, <1>2, <1>3 DEF IInv
  <1>5. {x \in Containers : Exists(x)}' = {x \in Containers : Exists(x)}
    BY <1>2
  <1>6. Objects' = Objects
    BY <1>1, <1>4, ObjectsVisible, ObjectsVisibleNext
  <1>7. UNCHANGED Service!vars
    BY <1>1, <1>5, <1>6 DEF Service!vars
  <1> QED
    BY <1>1, <1>4, <1>7 DEF StepOK, BlockArrays

LEMMA LeasesAreNotNone ==
    /\ AvailableLease \in ContainerLeases /\ AvailableLease # None
    /\ \A id \in LeaseIds : /\ InfiniteLease(id) \in ContainerLeases /\ InfiniteLease(id) # None
                            /\ BrokenLease(id) \in ContainerLeases /\ BrokenLease(id) # None
  <1>1. AvailableLease \in ILease
    BY DEF AvailableLease, ILease
  <1>2. \A id \in LeaseIds : InfiniteLease(id) \in ILease /\ BrokenLease(id) \in ILease
    BY DEF InfiniteLease, BrokenLease, ILease
  <1> QED
    BY <1>1, <1>2, LeaseAssumption DEF ContainerLeases

\* The lease operations on a container stay within its leases.
LEMMA ContainerLeaseStep ==
    ASSUME IInv, NEW c \in Containers,
           \/ BreakContainerLease(c)
           \/ \E id \in LeaseIds :
                 \/ AcquireContainerLease(c, id) \/ ReleaseContainerLease(c, id)
                 \/ RenewContainerLease(c, id)
                 \/ \E proposed \in LeaseIds : ChangeContainerLease(c, id, proposed)
    PROVE  StepOK
  <1> DEFINE l == containers[c]
  <1>1. Exists(c) /\ l # None
    BY DEF BreakContainerLease, AcquireContainerLease, ReleaseContainerLease,
           RenewContainerLease, ChangeContainerLease, Exists
  <1>2. \/ l = AvailableLease
        \/ \E id \in LeaseIds : l = InfiniteLease(id) \/ l = BrokenLease(id)
    BY <1>1 DEF IInv, ContainerLeases
  <1>3. /\ AvailableLease.leaseState = "available"
        /\ \A id \in LeaseIds : BrokenLease(id).leaseState = "broken"
    BY DEF AvailableLease, BrokenLease
  <1>4. CASE BreakContainerLease(c)
    <2>1. BreakAllowed(l, 0) /\ SetContainerLease(c, Break(l, 0, 0))
      BY <1>4 DEF BreakContainerLease
    <2>2. \E id \in LeaseIds : Break(l, 0, 0) = BrokenLease(id)
      <3>1. l # AvailableLease
        BY <2>1 DEF BreakAllowed, AvailableLease
      <3>2. PICK id \in LeaseIds : l = InfiniteLease(id) \/ l = BrokenLease(id)
        BY <1>2, <3>1
      <3>3. l.leaseId = id /\ l.leaseState \in {"leased", "broken"}
        BY <3>2 DEF InfiniteLease, BrokenLease
      <3>4. Break(l, 0, 0) = BrokenLease(l.leaseId)
        <4>1. LeasedBreak(l, 0, 0) = BrokenLease(l.leaseId)
          BY LeaseAssumption DEF LeasedBreak
        <4>2. l.leaseState # "breaking"
          BY <3>3
        <4> QED
          BY <4>1, <4>2 DEF Break
      <3> QED
        BY <3>3, <3>4
    <2> QED
      BY <1>1, <2>1, <2>2, LeasesAreNotNone, LeaseStep
  <1>5. ASSUME NEW id \in LeaseIds, AcquireContainerLease(c, id)
        PROVE  StepOK
    <2>1. SetContainerLease(c, InfiniteLease(id))
      BY <1>5 DEF AcquireContainerLease, Acquired
    <2> QED
      BY <1>1, <2>1, LeasesAreNotNone, LeaseStep
  <1>6. ASSUME NEW id \in LeaseIds, ReleaseContainerLease(c, id)
        PROVE  StepOK
    BY <1>1, <1>6, LeasesAreNotNone, LeaseStep DEF ReleaseContainerLease
  <1>7. ASSUME NEW id \in LeaseIds, RenewContainerLease(c, id)
        PROVE  StepOK
    <2>1. RenewAllowed(l, id) /\ SetContainerLease(c, Renewed(l, 0))
      BY <1>7 DEF RenewContainerLease
    <2>2. \E x \in LeaseIds : l = InfiniteLease(x)
      <3>1. l.leaseState \in {"leased", "expired"}
        BY <2>1 DEF RenewAllowed
      <3> QED
        BY <1>2, <1>3, <3>1
    <2>3. l.leaseDurationType = "infinite"
      BY <2>2 DEF InfiniteLease
    <2>4. Renewed(l, 0) = l
      BY <2>3 DEF Renewed
    <2> QED
      BY <1>1, <2>1, <2>2, <2>4, LeasesAreNotNone, LeaseStep
  <1>8. ASSUME NEW id \in LeaseIds, NEW proposed \in LeaseIds, ChangeContainerLease(c, id, proposed)
        PROVE  StepOK
    <2>1. ChangeAllowed(l, id, proposed) /\ SetContainerLease(c, Changed(l, proposed))
      BY <1>8 DEF ChangeContainerLease
    <2>2. \E x \in LeaseIds : l = InfiniteLease(x)
      <3>1. l.leaseState = "leased"
        BY <2>1 DEF ChangeAllowed
      <3> QED
        BY <1>2, <1>3, <3>1
    <2>3. Changed(l, proposed) = InfiniteLease(proposed)
      BY <2>2 DEF Changed, InfiniteLease
    <2> QED
      BY <1>1, <2>1, <2>3, LeasesAreNotNone, LeaseStep
  <1> QED
    BY <1>4, <1>5, <1>6, <1>7, <1>8

LEMMA CreateContainerStep ==
    ASSUME IInv, NEW c \in Containers, CreateContainer(c)
    PROVE  StepOK
  <1>1. /\ ~Exists(c) /\ containers' = [containers EXCEPT ![c] = AvailableLease]
        /\ UNCHANGED <<blobs, blocks, etags>>
        /\ containers' \in [Containers -> ContainerLeases]
    BY LeasesAreNotNone DEF CreateContainer, IInv
  <1>2. \A x \in Containers : Exists(x)' <=> Exists(x) \/ x = c
    BY <1>1, LeasesAreNotNone DEF Exists, IInv
  <1>3. \A d \in blobs \cup blocks : d.c \in Containers
    BY DEF IInv, GoodBlobs, GoodDoc, Documents, GoodBlocks
  <1>4. IInv'
    BY <1>1, <1>2, <1>3 DEF IInv
  <1>5. {x \in Containers : Exists(x)}' = {x \in Containers : Exists(x)} \cup {c}
    BY <1>2
  <1>6. Objects' = Objects
    BY <1>1, <1>4, ObjectsVisible, ObjectsVisibleNext
  <1>7. Service!CreateContainer(c)
    BY <1>1, <1>5, <1>6 DEF Service!CreateContainer
  <1> QED
    BY <1>1, <1>4, <1>7 DEF StepOK, BlockArrays, Service!Next

LEMMA DeleteContainerStep ==
    ASSUME IInv, NEW c \in Containers, NEW leaseId, DeleteContainer(c, leaseId)
    PROVE  StepOK
  <1>1. /\ Exists(c) /\ containers' = [containers EXCEPT ![c] = None]
        /\ blobs' = {d \in blobs : d.c # c} /\ blocks' = {b \in blocks : b.c # c}
        /\ etags' = etags
        /\ containers' \in [Containers -> ContainerLeases]
    BY DEF DeleteContainer, IInv, ContainerLeases
  <1>2. \A x \in Containers : Exists(x)' <=> Exists(x) /\ x # c
    BY <1>1 DEF Exists, IInv
  <1>3. \A d \in blobs \cup blocks : d.c \in Containers
    BY DEF IInv, GoodBlobs, GoodDoc, Documents, GoodBlocks
  <1>4. GoodBlobs(blobs', etags)
    <2>1. blobs' \in SUBSET blobs
      BY <1>1
    <2>2. \A b \in blobs \ blobs', d \in blobs' : b.s = 0 /\ d.c = b.c /\ d.n = b.n => d.s = 0
      BY <1>1
    <2> QED
      BY <2>1, <2>2, RemoveGood DEF IInv
  <1>5. GoodBlocks(blocks')
    BY <1>1 DEF IInv, GoodBlocks
  <1>6. \A d \in blobs' \cup blocks' : Exists(d.c)'
    BY <1>1, <1>2, <1>3 DEF IInv
  <1>7. IInv'
    BY <1>1, <1>4, <1>5, <1>6 DEF IInv
  <1>8. {x \in Containers : Exists(x)}' = {x \in Containers : Exists(x)} \ {c}
    BY <1>2
  <1>9. Objects = Visible(blobs) /\ Objects' = Visible(blobs')
    BY <1>7, ObjectsVisible, ObjectsVisibleNext
  <1>10. Objects' = {o \in Objects : o.c # c}
    BY <1>1, <1>9 DEF Visible, Object
  <1>11. Service!DeleteContainer(c)
    BY <1>1, <1>8, <1>10 DEF Service!DeleteContainer
  <1>12. BlockArrays => BlockArrays'
    BY <1>1 DEF BlockArrays
  <1> QED
    BY <1>7, <1>11, <1>12 DEF StepOK, Service!Next

-----------------------------------------------------------------------------
(* Every request.                                                          *)

LEMMA ContainerRequest ==
    ASSUME IInv, NEW c \in Containers, ContainerNext(c)
    PROVE  StepOK
  <1>1. CASE ContainerCreate(c)
    BY <1>1, CreateContainerStep DEF ContainerCreate
  <1>2. ASSUME NEW id \in LeaseIds \cup {None}, ContainerDelete(c, id)
        PROVE  StepOK
    BY <1>2, DeleteContainerStep DEF ContainerDelete
  <1>3. CASE \/ BreakContainerLease(c)
             \/ \E id \in LeaseIds :
                   \/ AcquireContainerLease(c, id) \/ ReleaseContainerLease(c, id)
                   \/ RenewContainerLease(c, id)
                   \/ \E proposed \in LeaseIds : ChangeContainerLease(c, id, proposed)
    BY <1>3, ContainerLeaseStep
  <1> QED
    BY <1>1, <1>2, <1>3 DEF ContainerNext, ContainerBreakLease, ContainerAcquireLease,
           ContainerReleaseLease, ContainerRenewLease, ContainerChangeLease

LEMMA PutRequest ==
    ASSUME IInv, NEW c \in Containers, NEW n \in Names, NEW cond, PutNext(c, n, cond)
    PROVE  StepOK
  <1>1. ASSUME NEW data \in Data, BlockBlobUpload(c, n, cond, data)
        PROVE  StepOK
    <2> DEFINE content == <<[id |-> None, data |-> data]>>
    <2>1. content \in Seq(Chunk) /\ Len(content) = 1
      BY DEF Chunk
    <2>2. CreateBlob(c, n, cond, "block", content, 1)
      BY <1>1 DEF BlockBlobUpload
    <2>3. 1 \in 0 .. MaxLen /\ "block" \in Types
      BY LokiBlobStoreAssumption DEF Types
    <2> HIDE DEF content
    <2>4. /\ content \in (IF "block" = "page" THEN PageMaps ELSE Seq(Chunk))
          /\ "block" # "page" => 1 =< Len(content)
      BY <2>1
    <2> QED
      BY <2>2, <2>3, <2>4, CreateStep
  <1>2. CASE AppendBlobCreate(c, n, cond)
    <2> DEFINE content == EmptyContent("append")
    <2>1. content \in Seq(Chunk) /\ Len(content) = 0
      BY DEF EmptyContent
    <2>2. CreateBlob(c, n, cond, "append", content, 0)
      BY <1>2 DEF AppendBlobCreate
    <2>3. 0 \in 0 .. MaxLen /\ "append" \in Types
      BY LokiBlobStoreAssumption DEF Types
    <2> HIDE DEF content
    <2>4. /\ content \in (IF "append" = "page" THEN PageMaps ELSE Seq(Chunk))
          /\ "append" # "page" => 0 =< Len(content)
      BY <2>1
    <2> QED
      BY <2>2, <2>3, <2>4, CreateStep
  <1>3. ASSUME NEW len \in 0 .. MaxLen, PageBlobCreate(c, n, cond, len)
        PROVE  StepOK
    <2> DEFINE content == EmptyContent("page")
    <2>1. content \in PageMaps
      BY DEF EmptyContent, PageMaps
    <2>2. CreateBlob(c, n, cond, "page", content, len)
      BY <1>3 DEF PageBlobCreate
    <2>3. "page" \in Types
      BY DEF Types
    <2> HIDE DEF content
    <2> QED
      BY <2>1, <2>2, <2>3, CreateStep
  <1>4. ASSUME NEW list \in BlockLists, BlockBlobCommitBlockList(c, n, cond, list)
        PROVE  StepOK
    BY <1>4, CommitStep DEF BlockBlobCommitBlockList
  <1>5. ASSUME NEW src \in blobs, NEW tier, BlobCopyFromURL(src, c, n, cond, tier)
        PROVE  StepOK
    <2>1. /\ src.committed /\ Exists(c) /\ src.type \in CopyTypes
          /\ etags < MaxEtags /\ etags' = etags + 1 /\ UNCHANGED <<containers, blocks>>
          /\ InsertCopy(src, c, n, src.sealed, src.type = "block" /\ tier = "Archive")
      BY <1>5 DEF BlobCopyFromURL, CopyFromURL, CopyAllowed, NewEtag
    <2>2. src.sealed \in BOOLEAN /\ (src.type = "page" => ~src.sealed)
      BY DEF IInv, GoodBlobs, GoodDoc, Documents
    <2>3. (src.type = "block" /\ tier = "Archive") \in BOOLEAN
      OBVIOUS
    <2> QED
      BY <2>1, <2>2, <2>3, CopyStep
  <1>6. ASSUME NEW src \in blobs, NEW tier, NEW seal \in BOOLEAN,
               BlobStartCopyFromURL(src, c, n, cond, tier, seal)
        PROVE  StepOK
    <2> DEFINE sealed == IF src.type = "append" THEN seal ELSE src.sealed
    <2>1. /\ src.committed /\ Exists(c) /\ src.type \in CopyTypes
          /\ etags < MaxEtags /\ etags' = etags + 1 /\ UNCHANGED <<containers, blocks>>
          /\ InsertCopy(src, c, n, sealed, src.type = "block" /\ tier = "Archive")
      BY <1>6 DEF BlobStartCopyFromURL, StartCopyFromURL, CopyAllowed, NewEtag
    <2>2. sealed \in BOOLEAN /\ (src.type = "page" => ~sealed)
      BY DEF IInv, GoodBlobs, GoodDoc, Documents
    <2>3. (src.type = "block" /\ tier = "Archive") \in BOOLEAN
      OBVIOUS
    <2> HIDE DEF sealed
    <2> QED
      BY <2>1, <2>2, <2>3, CopyStep
  <1> QED
    BY <1>1, <1>2, <1>3, <1>4, <1>5, <1>6 DEF PutNext

LEMMA UpdateRequest ==
    ASSUME IInv, NEW c \in Containers, NEW n \in Names, NEW cond, UpdateNext(c, n, cond)
    PROVE  StepOK
  <1>1. CASE BlobSetHTTPHeaders(c, n, cond, None) \/ BlobSetHTTPHeaders(c, n, cond, "update")
    BY <1>1, SameStep, SequenceStep DEF BlobSetHTTPHeaders, SetBlobHTTPHeaders
  <1>2. CASE BlobSetMetadata(c, n, cond)
    BY <1>2, SameStep DEF BlobSetMetadata, SetBlobMetadata
  <1>3. CASE AppendBlobSeal(c, n, cond)
    BY <1>3, SealStep DEF AppendBlobSeal
  <1>4. ASSUME NEW data \in Data, AppendBlobAppendBlock(c, n, cond, data)
        PROVE  StepOK
    BY <1>4, AppendStep DEF AppendBlobAppendBlock
  <1>5. ASSUME NEW len \in 0 .. MaxLen, PageBlobResize(c, n, cond, len)
        PROVE  StepOK
    BY <1>5, ResizeStep DEF PageBlobResize
  <1>6. ASSUME NEW seq \in 0 .. 1, PageBlobUpdateSequenceNumber(c, n, cond, seq)
        PROVE  StepOK
    BY <1>6, SequenceStep DEF PageBlobUpdateSequenceNumber
  <1>7. ASSUME NEW from, NEW to, NEW data \in Data, PageBlobUploadPages(c, n, cond, from, to, data)
        PROVE  StepOK
    <2>1. UpdateBlob(c, n, cond, IsPage,
                     LAMBDA doc : [doc EXCEPT !.content = SetPages(doc.content, from, to, data)])
      BY <1>7 DEF PageBlobUploadPages, UploadPages
    <2> QED
      BY <2>1, UploadStep
  <1>8. ASSUME NEW from, NEW to, PageBlobClearPages(c, n, cond, from, to)
        PROVE  StepOK
    BY <1>8, ClearStep DEF PageBlobClearPages
  <1> QED
    BY <1>1, <1>2, <1>3, <1>4, <1>5, <1>6, <1>7, <1>8 DEF UpdateNext

LEMMA NextStep ==
    ASSUME IInv, Next
    PROVE  StepOK
  <1>1. ASSUME NEW c \in Containers, NEW n \in Names, BlobNext(c, n)
        PROVE  StepOK
    <2>1. ASSUME NEW t \in Times, BlobCreateSnapshot(c, n, t)
          PROVE  StepOK
      BY <2>1, SnapshotStep DEF BlobCreateSnapshot
    <2>2. ASSUME NEW s \in Times \cup {0}, NEW mode \in Modes, BlobDelete(c, n, s, mode)
          PROVE  StepOK
      BY <2>2, DeleteStep DEF BlobDelete
    <2>3. ASSUME NEW archived \in BOOLEAN, BlobSetTier(c, n, archived)
          PROVE  StepOK
      BY <2>3, TierStep DEF BlobSetTier
    <2>4. ASSUME NEW id \in BlockIds, NEW data \in Data, BlockBlobStageBlock(c, n, id, data)
          PROVE  StepOK
      BY <2>4, StageStep DEF BlockBlobStageBlock
    <2> QED
      BY <1>1, <2>1, <2>2, <2>3, <2>4, PutRequest, UpdateRequest DEF BlobNext
  <1> QED
    BY <1>1, ContainerRequest, RestartStep DEF Next

-----------------------------------------------------------------------------
(* The theorems.                                                           *)

LEMMA InitGood == Init => IInv /\ BlockArrays /\ Service!Init
  <1> SUFFICES ASSUME Init PROVE IInv /\ BlockArrays /\ Service!Init
    OBVIOUS
  <1>1. GoodBlobs(blobs, etags) /\ GoodBlocks(blocks)
    BY FS_EmptySet DEF Init, GoodBlobs, GoodBlocks
  <1>2. containers \in [Containers -> ContainerLeases]
    BY DEF Init, ContainerLeases
  <1>3. IInv
    BY <1>1, <1>2, LokiBlobStoreAssumption DEF Init, IInv
  <1>4. Objects = {} /\ {c \in Containers : Exists(c)} = {}
    BY <1>3, ObjectsVisible DEF Init, Visible, Exists
  <1>5. 1 .. etags = {}
    BY DEF Init
  <1> QED
    BY <1>3, <1>4, <1>5 DEF Init, BlockArrays, Service!Init

LEMMA StuttersOK ==
    ASSUME IInv, UNCHANGED vars
    PROVE  StepOK
  <1>1. IInv'
    BY DEF vars, IInv, Exists
  <1>2. UNCHANGED Service!vars
    BY <1>1, ObjectsVisible, ObjectsVisibleNext DEF vars, Service!vars, Exists
  <1> QED
    BY <1>1, <1>2 DEF StepOK, vars, BlockArrays

LEMMA Inductive == Spec => []IInv
  <1>1. IInv /\ [Next]_vars => IInv'
    BY NextStep, StuttersOK DEF StepOK
  <1> QED
    BY <1>1, InitGood, PTL DEF Spec

\* Whatever blob, container and lease requests LokiBlobMetadataStore serves,
\* with copies of every type and restarts between them: a name has at most one
\* base blob, a snapshot a committed base blob, a block id is staged once,
\* nothing lies in a deleted container, and a contentLength never reaches
\* beyond the blocks it counts.
THEOREM BlobStoreWellFormed == Spec => []WellFormed
  <1> QED
    BY Inductive, IInvWellFormed, PTL

\* LokiBlobMetadataStore keeps BlobService's promise as long as only block
\* blobs are copied: a write gives one base blob a new version under a new
\* etag and leaves every snapshot and every other blob as it was, in spite of
\* the arrays that a copy and its source share.
THEOREM StoreImplementsBlobService ==
    ASSUME CopyTypes \subseteq {"block"}
    PROVE  Spec => ImplementsBlobService
  <1>1. IInv /\ BlockArrays /\ [Next]_vars => BlockArrays' /\ [Service!Next]_(Service!vars)
    BY NextStep, StuttersOK DEF StepOK
  <1>2. Spec => [](IInv /\ BlockArrays)
    BY <1>1, InitGood, Inductive, PTL DEF Spec
  <1> QED
    BY <1>1, <1>2, InitGood, PTL DEF Spec, ImplementsBlobService, Service!Spec

=============================================================================
