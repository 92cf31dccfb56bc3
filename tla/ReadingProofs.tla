--------------------------- MODULE ReadingProofs ---------------------------
(***************************************************************************)
(* What a client reads.                                                    *)
(*                                                                         *)
(* Listing: whoever follows the markers of a listing to its end is told    *)
(* exactly once of everything that was there all the time, and every       *)
(* marker lies behind the one before: for any number of items, pages of    *)
(* any size, any folders, and whatever is created and deleted between the  *)
(* pages.  Sorting is by ranks: the k-th of a set is the one with k - 1    *)
(* predecessors.  A page that is filled item by item is a fold; both are   *)
(* unrolled by induction on a set of numbers (NatsFrom).                   *)
(*                                                                         *)
(* BlobContent: Get Page Ranges lists exactly the written pages.  The      *)
(* bisections find the first and the last range they are to find, in a     *)
(* list that is tidy: its ranges lie in order and apart, and each has a    *)
(* chunk of its own length.  mergeRange() and clearRange() keep it so.     *)
(*                                                                         *)
(* And a download reads what was last written.  Extents only grow, so what *)
(* a chunk refers to stays; readExtents() reads the concatenation of its   *)
(* chunks, whose two folds are unrolled position by position; and the      *)
(* blocks, or the ranges filled up with zeros, hold the content.           *)
(***************************************************************************)
EXTENDS Listing, BlobContent, FiniteSetTheorems, SequenceTheorems, TLAPS

----------------------------------------------------------------------------
(* Induction.                                                              *)

\* A set of numbers with the first one and all successors has them all.
LEMMA NatsFrom ==
    ASSUME NEW T, 0 \in T, \A n \in Nat : n \in T => n + 1 \in T
    PROVE  \A n \in Nat : n \in T
  <1> SUFFICES ASSUME Nat \ T # {}
               PROVE  FALSE
    OBVIOUS
  <1>1. PICK n \in Nat \ T : \A m \in Nat \ T : ~(<<m, n>> \in OpToRel(<, Nat))
    BY WFMin, NatLessThanWellFounded
  <1>2. \A m \in Nat \ T : ~(m < n)
    BY <1>1 DEF OpToRel
  <1>3. n \in Nat /\ n # 0 /\ n \notin T
    BY <1>1
  <1>4. n - 1 \in Nat /\ n - 1 < n /\ (n - 1) + 1 = n
    BY <1>3
  <1>5. n - 1 \in T
    BY <1>2, <1>4
  <1> QED
    BY <1>3, <1>4, <1>5

LEMMA FunctionIsSeq ==
    ASSUME NEW S, NEW n \in Nat, NEW f \in [1 .. n -> S]
    PROVE  f \in Seq(S) /\ Len(f) = n
  OBVIOUS

----------------------------------------------------------------------------
(* Sorting by ranks.                                                       *)

\* P maps the elements of D to their predecessors in a total order.
Ordered(D, P) ==
    /\ P \in [D -> SUBSET D]
    /\ \A i \in D : i \notin P[i]
    /\ \A i, j \in D : i # j => i \in P[j] \/ j \in P[i]
    /\ \A i, j \in D : j \in P[i] => P[j] \subseteq P[i]

\* s gives every position an element with so many predecessors, if there is one.
Ranked(s, D, P) ==
    /\ s = [k \in 1 .. Cardinality(D) |-> s[k]]
    /\ \A k \in 1 .. Cardinality(D) :
          (\E i \in D : Cardinality(P[i]) = k - 1) => s[k] \in D /\ Cardinality(P[s[k]]) = k - 1

\* Then it enumerates the set in order.
Enumerates(s, D, P) ==
    /\ Cardinality(D) \in Nat
    /\ s \in Seq(D) /\ Len(s) = Cardinality(D)
    /\ \A i \in D : \E k \in 1 .. Cardinality(D) : s[k] = i
    /\ \A a, b \in 1 .. Cardinality(D) : a < b => s[a] \in P[s[b]]
    /\ \A k \in 1 .. Cardinality(D) : Cardinality(P[s[k]]) = k - 1
    /\ \A i, j \in D : Cardinality(P[i]) = Cardinality(P[j]) => i = j

LEMMA RanksEnumerate ==
    ASSUME NEW D, IsFiniteSet(D), NEW P, NEW s, Ordered(D, P), Ranked(s, D, P)
    PROVE  Enumerates(s, D, P)
  <1> USE DEF Ordered, Ranked
  <1> DEFINE N == Cardinality(D)
             rank == [i \in D |-> Cardinality(P[i])]
  <1>1. N \in Nat
    BY FS_CardinalityType
  <1>2. \A i \in D : IsFiniteSet(P[i]) /\ Cardinality(P[i]) \in Nat
    BY FS_Subset, FS_CardinalityType
  <1>3. \A i, j \in D : j \in P[i] => Cardinality(P[j]) < Cardinality(P[i])
    <2> SUFFICES ASSUME NEW i \in D, NEW j \in D, j \in P[i]
                 PROVE  Cardinality(P[j]) < Cardinality(P[i])
      OBVIOUS
    <2>1. P[j] \in SUBSET P[i] /\ P[j] # P[i]
      OBVIOUS
    <2>2. Cardinality(P[j]) <= Cardinality(P[i]) /\ Cardinality(P[i]) # Cardinality(P[j])
      BY <1>2, <2>1, FS_Subset
    <2> QED
      BY <1>2, <2>2
  <1>4. \A i, j \in D : Cardinality(P[i]) = Cardinality(P[j]) => i = j
    BY <1>2, <1>3
  <1>5. \A i \in D : Cardinality(P[i]) \in 0 .. N - 1
    <2> SUFFICES ASSUME NEW i \in D PROVE Cardinality(P[i]) \in 0 .. N - 1
      OBVIOUS
    <2>1. P[i] \in SUBSET D /\ P[i] # D
      OBVIOUS
    <2>2. Cardinality(P[i]) <= N /\ N # Cardinality(P[i])
      BY <2>1, FS_Subset
    <2> QED
      BY <1>1, <1>2, <2>2
  <1>6. rank \in Injection(D, 0 .. N - 1)
    BY <1>4, <1>5 DEF Injection, IsInjective
  <1>7. IsFiniteSet(0 .. N - 1) /\ Cardinality(0 .. N - 1) = N
    <2>1. 0 \in Int /\ N - 1 \in Int /\ (IF 0 > N - 1 THEN 0 ELSE (N - 1) - 0 + 1) = N
      BY <1>1
    <2> HIDE DEF N
    <2> QED
      BY <2>1, FS_Interval
  <1>8. rank \in Surjection(D, 0 .. N - 1)
    <2> HIDE DEF rank
    <2> QED
      BY <1>6, <1>7, FS_Injection
  <1>9. \A k \in 1 .. N : \E i \in D : Cardinality(P[i]) = k - 1
    <2> SUFFICES ASSUME NEW k \in 1 .. N PROVE \E i \in D : Cardinality(P[i]) = k - 1
      OBVIOUS
    <2>1. k - 1 \in 0 .. N - 1
      BY <1>1
    <2>2. \E i \in D : rank[i] = k - 1
      BY <1>8, <2>1 DEF Surjection
    <2> QED
      BY <2>2
  <1>10. \A k \in 1 .. N : s[k] \in D /\ Cardinality(P[s[k]]) = k - 1
    BY <1>9
  <1>11. s \in Seq(D) /\ Len(s) = N
    <2>1. s \in [1 .. N -> D]
      BY <1>10
    <2> HIDE DEF N
    <2> QED
      BY <1>1, <2>1, FunctionIsSeq
  <1>12. \A i \in D : \E k \in 1 .. N : s[k] = i
    <2> SUFFICES ASSUME NEW i \in D PROVE \E k \in 1 .. N : s[k] = i
      OBVIOUS
    <2>1. Cardinality(P[i]) + 1 \in 1 .. N
      BY <1>1, <1>5
    <2>2. Cardinality(P[s[Cardinality(P[i]) + 1]]) = Cardinality(P[i])
      BY <1>2, <1>10, <2>1
    <2> QED
      BY <1>4, <1>10, <2>1, <2>2
  <1>13. ASSUME NEW a \in 1 .. N, NEW b \in 1 .. N, a < b
         PROVE  s[a] \in P[s[b]]
    <2>1. s[a] \in D /\ s[b] \in D /\ Cardinality(P[s[a]]) < Cardinality(P[s[b]])
      BY <1>1, <1>10, <1>13
    <2>2. s[a] # s[b] /\ s[b] \notin P[s[a]]
      BY <1>2, <1>3, <2>1
    <2> QED
      BY <2>1, <2>2
  <1> QED
    BY <1>1, <1>4, <1>10, <1>11, <1>12, <1>13 DEF Enumerates

----------------------------------------------------------------------------
(* Listings by name and by key.                                            *)

DistinctNames == \A i, j \in Items : Name[i] = Name[j] => i = j
DistinctKeys == \A i, j \in Items : Key[i] = Key[j] => i = j

\* s lists the elements of D, each at one place.
Lists(s, D) ==
    /\ s \in Seq(D)
    /\ \A i \in D : \E k \in 1 .. Len(s) : s[k] = i
AscendingNames(s) == \A a, b \in 1 .. Len(s) : a < b => Name[s[a]] < Name[s[b]]
AscendingKeys(s) == \A a, b \in 1 .. Len(s) : a < b => KeyBefore(s[a], s[b])

NthByName(D, k) == CHOOSE i \in D : Cardinality({j \in D : NameBefore(j, i)}) = k - 1
NthByKey(D, k) == CHOOSE i \in D : Cardinality({j \in D : KeyBefore(j, i)}) = k - 1

LEMMA SortedByName ==
    ASSUME DistinctNames, NEW D \in SUBSET Items
    PROVE  /\ Lists(Sorted(D), D)
           /\ AscendingNames(Sorted(D))
           /\ Len(Sorted(D)) = Cardinality(D)
           /\ \A k \in 1 .. Len(Sorted(D)) :
                 Cardinality({j \in D : NameBefore(j, Sorted(D)[k])}) = k - 1
           /\ \A i, j \in D : Cardinality({h \in D : NameBefore(h, i)})
                                 = Cardinality({h \in D : NameBefore(h, j)}) => i = j
  <1> DEFINE P == [i \in D |-> {j \in D : NameBefore(j, i)}]
             s == Sorted(D)
  <1>1. \A i \in D : Name[i] \in Nat /\ i \in Int
    BY ItemsAssumption
  <1>2. \A i, j \in D : NameBefore(i, j) <=> Name[i] < Name[j]
    BY <1>1 DEF NameBefore, DistinctNames
  <1>3. IsFiniteSet(D)
    BY ItemsAssumption, FS_Subset
  <1>4. P \in [D -> SUBSET D]
    OBVIOUS
  <1>5. \A i \in D : P[i] = {j \in D : NameBefore(j, i)}
    OBVIOUS
  <1>6. \A i, j \in D : j \in P[i] <=> Name[j] < Name[i]
    BY <1>2
  <1>7. s = [k \in 1 .. Cardinality(D) |-> s[k]]
    <2>1. s = [k \in 1 .. Cardinality(D) |-> NthByName(D, k)]
      BY DEF Sorted, SortedBy, NthByName
    <2> HIDE DEF s
    <2> QED
      BY <2>1
  <1>8. \A k \in 1 .. Cardinality(D) :
           (\E i \in D : Cardinality(P[i]) = k - 1) => s[k] \in D /\ Cardinality(P[s[k]]) = k - 1
    <2> SUFFICES ASSUME NEW k \in 1 .. Cardinality(D), \E i \in D : Cardinality(P[i]) = k - 1
                 PROVE  s[k] \in D /\ Cardinality(P[s[k]]) = k - 1
      OBVIOUS
    <2>1. s[k] = CHOOSE i \in D : Cardinality({j \in D : NameBefore(j, i)}) = k - 1
      BY DEF Sorted, SortedBy
    <2>2. \E i \in D : Cardinality({j \in D : NameBefore(j, i)}) = k - 1
      OBVIOUS
    <2>3. s[k] \in D /\ Cardinality({j \in D : NameBefore(j, s[k])}) = k - 1
      BY <2>1, <2>2
    <2> QED
      BY <1>5, <2>3
  <1> HIDE DEF P, s
  <1>9. \A i \in D : i \notin P[i]
    BY <1>1, <1>6
  <1>10. \A i, j \in D : i # j => i \in P[j] \/ j \in P[i]
    BY <1>1, <1>6 DEF DistinctNames
  <1>11. \A i, j \in D : j \in P[i] => P[j] \subseteq P[i]
    BY <1>1, <1>4, <1>6
  <1>12. Enumerates(s, D, P)
    <2>1. Ordered(D, P)
      BY <1>4, <1>9, <1>10, <1>11 DEF Ordered
    <2>2. Ranked(s, D, P)
      BY <1>7, <1>8 DEF Ranked
    <2> QED
      BY <1>3, <2>1, <2>2, RanksEnumerate
  <1>13. \A k \in 1 .. Len(s) : s[k] \in D
    BY <1>12, ElementOfSeq DEF Enumerates
  <1>14. Lists(s, D)
    BY <1>12 DEF Lists, Enumerates
  <1>15. AscendingNames(s)
    BY <1>6, <1>12, <1>13 DEF AscendingNames, Enumerates
  <1>16. \A k \in 1 .. Len(s) : Cardinality({j \in D : NameBefore(j, s[k])}) = k - 1
    BY <1>5, <1>12, <1>13 DEF Enumerates
  <1>17. \A i, j \in D : Cardinality({h \in D : NameBefore(h, i)})
                             = Cardinality({h \in D : NameBefore(h, j)}) => i = j
    <2> SUFFICES ASSUME NEW i \in D, NEW j \in D,
                        Cardinality({h \in D : NameBefore(h, i)}) = Cardinality({h \in D : NameBefore(h, j)})
                 PROVE  i = j
      OBVIOUS
    <2>1. Cardinality(P[i]) = Cardinality(P[j])
      BY <1>5
    <2> QED
      BY <1>12, <2>1 DEF Enumerates
  <1> QED
    BY <1>12, <1>14, <1>15, <1>16, <1>17 DEF s, Enumerates

LEMMA SortedByKeys ==
    ASSUME DistinctKeys, NEW D \in SUBSET Items
    PROVE  Lists(SortedByKey(D), D) /\ AscendingKeys(SortedByKey(D))
  <1> DEFINE P == [i \in D |-> {j \in D : KeyBefore(j, i)}]
             s == SortedByKey(D)
  <1>1. \A i \in D : Key[i] \in (Nat \ {0}) \X Nat
    BY ItemsAssumption
  <1>2. \A i \in D : Key[i][1] \in Nat /\ Key[i][2] \in Nat /\ Key[i] = <<Key[i][1], Key[i][2]>>
    BY <1>1
  <1>3. IsFiniteSet(D)
    BY ItemsAssumption, FS_Subset
  <1>4. P \in [D -> SUBSET D]
    OBVIOUS
  <1>5. \A i \in D : P[i] = {j \in D : KeyBefore(j, i)}
    OBVIOUS
  <1>6. \A i, j \in D : j \in P[i] <=> KeyBefore(j, i)
    OBVIOUS
  <1>7. s = [k \in 1 .. Cardinality(D) |-> s[k]]
    <2>1. s = [k \in 1 .. Cardinality(D) |-> NthByKey(D, k)]
      BY DEF SortedByKey, SortedBy, NthByKey
    <2> HIDE DEF s
    <2> QED
      BY <2>1
  <1>8. \A k \in 1 .. Cardinality(D) :
           (\E i \in D : Cardinality(P[i]) = k - 1) => s[k] \in D /\ Cardinality(P[s[k]]) = k - 1
    <2> SUFFICES ASSUME NEW k \in 1 .. Cardinality(D), \E i \in D : Cardinality(P[i]) = k - 1
                 PROVE  s[k] \in D /\ Cardinality(P[s[k]]) = k - 1
      OBVIOUS
    <2>1. s[k] = CHOOSE i \in D : Cardinality({j \in D : KeyBefore(j, i)}) = k - 1
      BY DEF SortedByKey, SortedBy
    <2>2. \E i \in D : Cardinality({j \in D : KeyBefore(j, i)}) = k - 1
      OBVIOUS
    <2>3. s[k] \in D /\ Cardinality({j \in D : KeyBefore(j, s[k])}) = k - 1
      BY <2>1, <2>2
    <2> QED
      BY <1>5, <2>3
  <1> HIDE DEF P, s
  <1>9. \A i \in D : i \notin P[i]
    BY <1>2, <1>6 DEF KeyBefore
  <1>10. \A i, j \in D : i # j => i \in P[j] \/ j \in P[i]
    <2> SUFFICES ASSUME NEW i \in D, NEW j \in D, i # j PROVE i \in P[j] \/ j \in P[i]
      OBVIOUS
    <2>1. Key[i] # Key[j]
      BY DEF DistinctKeys
    <2>2. Key[i][1] # Key[j][1] \/ Key[i][2] # Key[j][2]
      BY <1>2, <2>1
    <2> QED
      BY <1>2, <1>6, <2>2 DEF KeyBefore
  <1>11. \A i, j \in D : j \in P[i] => P[j] \subseteq P[i]
    <2> SUFFICES ASSUME NEW i \in D, NEW j \in D, j \in P[i], NEW h \in D, h \in P[j]
                 PROVE  h \in P[i]
      BY <1>4
    <2> QED
      BY <1>2, <1>6 DEF KeyBefore
  <1>12. Enumerates(s, D, P)
    <2>1. Ordered(D, P)
      BY <1>4, <1>9, <1>10, <1>11 DEF Ordered
    <2>2. Ranked(s, D, P)
      BY <1>7, <1>8 DEF Ranked
    <2> QED
      BY <1>3, <2>1, <2>2, RanksEnumerate
  <1>13. \A k \in 1 .. Len(s) : s[k] \in D
    BY <1>12, ElementOfSeq DEF Enumerates
  <1>14. Lists(s, D)
    BY <1>12 DEF Lists, Enumerates
  <1>15. AscendingKeys(s)
    BY <1>6, <1>12, <1>13 DEF AscendingKeys, Enumerates
  <1> QED
    BY <1>14, <1>15 DEF s

----------------------------------------------------------------------------
(* The inductive invariant.                                                *)

\* What the claims need beyond the code.  Of every listing: no two items with
\* one name (no snapshots are asked for) or one key.  Of three of them more,
\* and nothing in the code sees to it: queues are created in the order of
\* their names (the marker of listQueues is a $loki but its pages are sorted
\* by name), all tags match where the Loki store filters by tags, and
\* transactions see one snapshot where the SQL store reads in rounds.
Orderly ==
    /\ DistinctNames
    /\ DistinctKeys
    /\ scan.lister = "queues" => InOrder
    /\ scan.lister = "filterBlobs" => AllMatch
    /\ scan.lister \in {"sqlBlobs", "sqlFilterBlobs"} => Isolated

Delimited == {"blobs", "sqlBlobs"}
Filtered == {"filterBlobs", "sqlFilterBlobs"}
Zero == [i \in Items |-> 0]

\* Item i, with $loki id, lies before the place where the marker goes on.
Passed(lister, marker, rowMarker, id, i) ==
    CASE lister = "tables" -> Name[i] < marker
      [] lister = "entities" -> \/ Key[i][1] < marker
                                \/ Key[i][1] = marker /\ Key[i][2] < rowMarker
      [] lister = "queues" -> id <= marker
      [] OTHER -> Name[i] <= marker

\* The client has been told of i once.
Told(sc, i) == IF sc.folding[i] = 0 THEN sc.listed[i] = 1
               ELSE sc.folding[i] \in sc.prefixes

ScanType(sc) ==
    /\ sc \in [state : {"none", "ask", "read", "done", "refused"},
               lister : Listers, asked : {Unlimited} \cup 1 .. (Limit + 1),
               max : Nat \ {0}, folding : Foldings, where : SUBSET Items,
               marker : Nat, rowMarker : Nat, listed : [Items -> 0 .. 2],
               prefixes : SUBSET Nat, throughout : SUBSET Items]
    /\ sc.lister \notin Delimited => sc.folding = Flat
    /\ sc.lister # "sqlFilterBlobs" => sc.where = Items
    /\ sc.state = "read" => sc.lister \in Delimited \cup Filtered
    /\ sc.state = "none" => /\ sc.marker = 0 /\ sc.rowMarker = 0
                            /\ sc.listed = Zero /\ sc.throughout = {}

StoreInv ==
    /\ ids \in [Items -> Nat]
    /\ created \in Nat
    /\ scan.throughout \subseteq Present
    /\ scan.lister = "queues" =>
          /\ \A i \in Items : ids[i] <= created
          /\ \A i, j \in Present : Name[i] < Name[j] => ids[i] < ids[j]

\* On the way to the end: what lies before the marker has been told once,
\* what lies behind it has not been listed.
Progress ==
    scan.state \in {"ask", "read"} =>
        \A i \in scan.throughout \cap scan.where :
           IF Passed(scan.lister, scan.marker, scan.rowMarker, ids[i], i)
           THEN Told(scan, i) ELSE scan.listed[i] = 0

\* What a page of the blobs after the marker has been read from.
ToList(p, marker) == Sorted({i \in p.view : Name[i] > marker})

\* The page has the first n of s, as items or by their prefixes, and its
\* marker is the last of them; only the empty page has none.
PageHas(p, s, n, max, folding) ==
    /\ p.blobItems \in Seq(Items)
    /\ p.blobPrefixes \in SUBSET Nat
    /\ p.isFull \in BOOLEAN /\ p.isExhausted \in BOOLEAN
    /\ p.isFull => Len(p.blobItems) + Cardinality(p.blobPrefixes) = max
    /\ p.latestMarker = IF n = 0 THEN 0 ELSE Name[s[n]]
    /\ n = 0 => ~p.isFull /\ ~p.isExhausted
    /\ \A k \in 1 .. n : IF folding[s[k]] = 0 THEN s[k] \in Range(p.blobItems)
                         ELSE folding[s[k]] \in p.blobPrefixes
    /\ \A i \in Range(p.blobItems) : \E k \in 1 .. n : s[k] = i

PageType(p) ==
    p = [blobItems |-> p.blobItems, blobPrefixes |-> p.blobPrefixes,
         latestMarker |-> p.latestMarker, isFull |-> p.isFull,
         isExhausted |-> p.isExhausted, offset |-> p.offset,
         added |-> p.added, view |-> p.view]

PageInv ==
    scan.state = "read" =>
        /\ PageType(page)
        /\ page.view \in SUBSET Items
        /\ scan.throughout \subseteq page.view
        /\ page.offset \in 0 .. Len(ToList(page, scan.marker))
        /\ PageHas(page, ToList(page, scan.marker), page.offset, scan.max, scan.folding)

ListingInv ==
    /\ ScanType(scan)
    /\ StoreInv
    /\ Progress
    /\ PageInv
    /\ ListedExactlyOnce

----------------------------------------------------------------------------
(* Parts of sequences.                                                     *)

LEMMA Limited ==
    ASSUME NEW S, NEW s \in Seq(S), NEW n \in Nat
    PROVE  /\ LimitTo(s, n) \in Seq(S)
           /\ Len(LimitTo(s, n)) = IF n < Len(s) THEN n ELSE Len(s)
           /\ \A k \in 1 .. Len(LimitTo(s, n)) : LimitTo(s, n)[k] = s[k]
  <1> DEFINE m == IF n < Len(s) THEN n ELSE Len(s)
  <1>1. Len(s) \in Nat /\ m \in 0 .. Len(s)
    OBVIOUS
  <1>2. LimitTo(s, n) = SubSeq(s, 1, m)
    BY DEF LimitTo
  <1>3. \A i \in 1 .. m : s[i] \in S
    BY <1>1, ElementOfSeq
  <1> HIDE DEF m
  <1>4. SubSeq(s, 1, m) = [k \in 1 .. m |-> s[k]]
    BY <1>1
  <1>5. [k \in 1 .. m |-> s[k]] \in [1 .. m -> S]
    BY <1>3
  <1> QED
    BY <1>1, <1>2, <1>4, <1>5, FunctionIsSeq DEF m

\* The page d of n items and one more, of the documents D in the order s:
\* all there are, or the first n, with the one after them.
FirstPage(d, s, D, n) ==
    /\ Len(d) <= n => Range(d) = D
    /\ ~(Len(d) <= n) => /\ n + 1 \in 1 .. Len(s)
                         /\ Range(Front(d)) = {s[k] : k \in 1 .. n}
                         /\ d[Len(d) - 1] = s[n]
                         /\ Last(d) = s[n + 1]

LEMMA PageOfOneMore ==
    ASSUME NEW D, NEW s, Lists(s, D), NEW n \in Nat \ {0}
    PROVE  FirstPage(LimitTo(s, n + 1), s, D, n)
  <1> DEFINE d == LimitTo(s, n + 1)
  <1>1. s \in Seq(D) /\ n + 1 \in Nat /\ Len(s) \in Nat
    BY DEF Lists
  <1>2. /\ d \in Seq(D)
        /\ Len(d) = IF n + 1 < Len(s) THEN n + 1 ELSE Len(s)
        /\ \A k \in 1 .. Len(d) : d[k] = s[k]
    BY <1>1, Limited
  <1> HIDE DEF d
  <1>3. DOMAIN d = 1 .. Len(d)
    BY <1>2
  <1>4. \A k \in 1 .. Len(s) : s[k] \in D
    BY <1>1, ElementOfSeq
  <1>5. CASE Len(d) <= n
    <2>1. Len(d) = Len(s)
      BY <1>1, <1>2, <1>5
    <2>2. Range(d) = D
      BY <1>2, <1>3, <1>4, <2>1 DEF Range, Lists
    <2> QED
      BY <1>5, <2>2 DEF FirstPage, d
  <1>6. CASE ~(Len(d) <= n)
    <2>1. Len(d) = n + 1 /\ n + 1 \in 1 .. Len(s)
      BY <1>1, <1>2, <1>6
    <2>2. Front(d) = [k \in 1 .. n |-> d[k]]
      BY <1>2, <2>1 DEF Front
    <2>3. Range(Front(d)) = {s[k] : k \in 1 .. n}
      <3>1. Range(Front(d)) = {d[k] : k \in 1 .. n}
        BY <2>2 DEF Range
      <3>2. \A k \in 1 .. n : d[k] = s[k]
        BY <1>2, <2>1
      <3> QED
        BY <3>1, <3>2
    <2>4. d[Len(d) - 1] = s[n] /\ Last(d) = s[n + 1]
      BY <1>2, <2>1 DEF Last
    <2> QED
      BY <1>6, <2>1, <2>3, <2>4 DEF FirstPage, d
  <1> QED
    BY <1>5, <1>6

----------------------------------------------------------------------------
(* An answer.                                                              *)

\* An answer with a marker m (0: the last one) has nothing that the client
\* has been told of, and all that lies before m and only that.
Continues(items, prefixes, m, r) ==
    \A i \in scan.throughout \cap scan.where :
       LET was == Passed(scan.lister, scan.marker, scan.rowMarker, ids[i], i)
           is == Passed(scan.lister, m, r, ids[i], i)
           has == IF scan.folding[i] = 0 THEN i \in items
                  ELSE scan.folding[i] \in prefixes
       IN  /\ was => i \notin items
           /\ m = 0 => was \/ has
           /\ m # 0 => (was => is) /\ (is => was \/ has) /\ (~is => i \notin items)

Forward(m, r) ==
    m # 0 => \/ m > scan.marker
             \/ m = scan.marker /\ r > scan.rowMarker

GoodAnswer(items, prefixes, m, r) ==
    /\ prefixes \in SUBSET Nat
    /\ m \in Nat /\ r \in Nat
    /\ Continues(items, prefixes, m, r)
    /\ Forward(m, r)

LEMMA AnswerStep ==
    ASSUME ListingInv, scan.state \in {"ask", "read"},
           NEW items, NEW prefixes, NEW m, NEW r,
           GoodAnswer(items, prefixes, m, r),
           Answer(items, prefixes, m, r)
    PROVE  ListingInv'
  <1> DEFINE count(i) == IF i \notin items THEN scan.listed[i]
                         ELSE IF scan.listed[i] < 2 THEN scan.listed[i] + 1 ELSE 2
  <1>1. scan' = [scan EXCEPT !.listed = [i \in Items |-> count(i)],
                             !.prefixes = scan.prefixes \cup prefixes,
                             !.marker = m, !.rowMarker = r,
                             !.state = IF m = 0 THEN "done" ELSE "ask"]
    BY DEF Answer
  <1>2. ids' = ids /\ created' = created
    BY DEF Answer
  <1>3. /\ scan \in [state : {"none", "ask", "read", "done", "refused"},
               lister : Listers, asked : {Unlimited} \cup 1 .. (Limit + 1),
               max : Nat \ {0}, folding : Foldings, where : SUBSET Items,
               marker : Nat, rowMarker : Nat, listed : [Items -> 0 .. 2],
               prefixes : SUBSET Nat, throughout : SUBSET Items]
        /\ scan.lister \notin Delimited => scan.folding = Flat
        /\ scan.lister # "sqlFilterBlobs" => scan.where = Items
    BY DEF ListingInv, ScanType
  <1>4. \A i \in Items : scan.listed[i] \in 0 .. 2
    BY <1>3
  <1>5. [i \in Items |-> count(i)] \in [Items -> 0 .. 2]
    BY <1>4
  <1>6. m \in Nat /\ r \in Nat /\ prefixes \in SUBSET Nat
    BY DEF GoodAnswer
  <1>7. /\ scan'.listed = [i \in Items |-> count(i)]
        /\ scan'.prefixes = scan.prefixes \cup prefixes
        /\ scan'.marker = m /\ scan'.rowMarker = r
        /\ scan'.state = IF m = 0 THEN "done" ELSE "ask"
        /\ scan'.throughout = scan.throughout
        /\ scan'.lister = scan.lister /\ scan'.where = scan.where
        /\ scan'.folding = scan.folding
    BY <1>1, <1>3
  <1> HIDE DEF count
  <1>8. ScanType(scan')
    <2>1. scan' \in [state : {"none", "ask", "read", "done", "refused"},
               lister : Listers, asked : {Unlimited} \cup 1 .. (Limit + 1),
               max : Nat \ {0}, folding : Foldings, where : SUBSET Items,
               marker : Nat, rowMarker : Nat, listed : [Items -> 0 .. 2],
               prefixes : SUBSET Nat, throughout : SUBSET Items]
      BY <1>1, <1>3, <1>5, <1>6
    <2> QED
      BY <1>3, <1>7, <2>1 DEF ScanType
  <1>9. StoreInv'
    BY <1>2, <1>7 DEF ListingInv, StoreInv, Present
  <1>10. PageInv'
    BY <1>7 DEF PageInv
  <1>11. ASSUME NEW i \in scan.throughout \cap scan.where
         PROVE  /\ m = 0 => Told(scan', i)
                /\ m # 0 => IF Passed(scan.lister, m, r, ids[i], i)
                            THEN Told(scan', i) ELSE scan'.listed[i] = 0
    <2> DEFINE was == Passed(scan.lister, scan.marker, scan.rowMarker, ids[i], i)
               is == Passed(scan.lister, m, r, ids[i], i)
    <2>1. i \in Items
      BY <1>3
    <2>2. scan'.listed[i] = count(i)
      BY <1>7, <2>1
    <2>3. IF was THEN Told(scan, i) ELSE scan.listed[i] = 0
      BY DEF ListingInv, Progress
    <2>4. /\ was => i \notin items
          /\ m = 0 => was \/ (IF scan.folding[i] = 0 THEN i \in items ELSE scan.folding[i] \in prefixes)
          /\ m # 0 => /\ was => is
                      /\ is => was \/ (IF scan.folding[i] = 0 THEN i \in items ELSE scan.folding[i] \in prefixes)
                      /\ ~is => i \notin items
      BY DEF GoodAnswer, Continues
    <2> HIDE DEF was, is
    <2>5. was => Told(scan', i)
      BY <1>7, <2>2, <2>3, <2>4 DEF Told, count
    <2>6. ~was /\ (IF scan.folding[i] = 0 THEN i \in items ELSE scan.folding[i] \in prefixes)
            => Told(scan', i)
      BY <1>7, <2>2, <2>3 DEF Told, count
    <2>7. m # 0 /\ ~is => scan'.listed[i] = 0
      BY <2>2, <2>3, <2>4 DEF count
    <2> QED
      BY <2>4, <2>5, <2>6, <2>7 DEF is
  <1>12. Progress'
    BY <1>2, <1>7, <1>11 DEF Progress
  <1>13. ListedExactlyOnce'
    BY <1>7, <1>11 DEF ListedExactlyOnce, Told
  <1> QED
    BY <1>8, <1>9, <1>10, <1>12, <1>13 DEF ListingInv

----------------------------------------------------------------------------
(* The listings that read once.                                            *)

\* What a page of d by names has of D: all, or what comes before its end.
SplitsByName(d, D, n) ==
    /\ Len(d) <= n => Range(d) = D
    /\ ~(Len(d) <= n) =>
          /\ d[Len(d) - 1] \in D /\ Last(d) \in D
          /\ Name[d[Len(d) - 1]] < Name[Last(d)]
          /\ Range(Front(d)) \subseteq D
          /\ \A i \in D : i \in Range(Front(d)) <=> Name[i] <= Name[d[Len(d) - 1]]
          /\ \A i \in D : i \in Range(Front(d)) <=> Name[i] < Name[Last(d)]

LEMMA PageByName ==
    ASSUME DistinctNames, NEW D \in SUBSET Items, NEW n \in Nat \ {0}
    PROVE  SplitsByName(LimitTo(Sorted(D), n + 1), D, n)
  <1> DEFINE s == Sorted(D)
             d == LimitTo(s, n + 1)
  <1>1. Lists(s, D) /\ AscendingNames(s)
    BY SortedByName
  <1> HIDE DEF s
  <1>2. FirstPage(d, s, D, n)
    BY <1>1, PageOfOneMore
  <1> HIDE DEF d
  <1>3. s \in Seq(D) /\ (\A k \in 1 .. Len(s) : s[k] \in D)
    BY <1>1, ElementOfSeq DEF Lists
  <1>4. \A i \in D : Name[i] \in Nat
    BY ItemsAssumption
  <1>5. CASE Len(d) <= n
    BY <1>2, <1>5 DEF FirstPage, SplitsByName, s, d
  <1>6. CASE ~(Len(d) <= n)
    <2>1. /\ n + 1 \in 1 .. Len(s)
          /\ Range(Front(d)) = {s[k] : k \in 1 .. n}
          /\ d[Len(d) - 1] = s[n]
          /\ Last(d) = s[n + 1]
      BY <1>2, <1>6 DEF FirstPage
    <2>2. n \in 1 .. Len(s) /\ n < n + 1 /\ (\A k \in 1 .. n : k \in 1 .. Len(s)) /\ Len(s) \in Nat
      BY <1>3, <2>1
    <2>3. s[n] \in D /\ s[n + 1] \in D /\ Name[s[n]] < Name[s[n + 1]]
      BY <1>1, <1>3, <2>1, <2>2 DEF AscendingNames
    <2>4. Range(Front(d)) \subseteq D
      BY <1>3, <2>1, <2>2
    <2>5. ASSUME NEW i \in D
          PROVE  /\ i \in Range(Front(d)) <=> Name[i] <= Name[s[n]]
                 /\ i \in Range(Front(d)) <=> Name[i] < Name[s[n + 1]]
      <3>1. PICK k \in 1 .. Len(s) : s[k] = i
        BY <1>1 DEF Lists
      <3>2. \A a, b \in 1 .. Len(s) : a < b => Name[s[a]] < Name[s[b]]
        BY <1>1 DEF AscendingNames
      <3>3. k <= n => Name[i] <= Name[s[n]] /\ Name[i] < Name[s[n + 1]]
        BY <1>3, <1>4, <2>1, <2>2, <3>1, <3>2, SMTT(30)
      <3>4. k > n => Name[i] > Name[s[n]] /\ Name[i] >= Name[s[n + 1]]
        BY <1>3, <1>4, <2>1, <2>2, <3>1, <3>2
      <3>5. \A l \in 1 .. n : Name[s[l]] <= Name[s[n]] /\ Name[s[l]] < Name[s[n + 1]]
        BY <1>3, <1>4, <2>1, <2>2, <3>2
      <3>6. k <= n => i \in Range(Front(d))
        BY <2>1, <3>1
      <3>7. i \in Range(Front(d)) => Name[i] <= Name[s[n]] /\ Name[i] < Name[s[n + 1]]
        BY <2>1, <3>5
      <3>8. k \in Nat /\ n \in Nat /\ Name[i] \in Nat /\ Name[s[n]] \in Nat /\ Name[s[n + 1]] \in Nat
        BY <1>4, <2>3
      <3> QED
        BY <3>3, <3>4, <3>6, <3>7, <3>8
    <2> QED
      BY <1>6, <2>1, <2>3, <2>4, <2>5 DEF SplitsByName, s, d
  <1> QED
    BY <1>5, <1>6

\* The same by keys.
SplitsByKey(d, D, n) ==
    /\ Len(d) <= n => Range(d) = D
    /\ ~(Len(d) <= n) =>
          /\ Last(d) \in D
          /\ \E i \in D : KeyBefore(i, Last(d))
          /\ Range(Front(d)) \subseteq D
          /\ \A i \in D : i \in Range(Front(d)) <=> KeyBefore(i, Last(d))

LEMMA PageByKey ==
    ASSUME DistinctKeys, NEW D \in SUBSET Items, NEW n \in Nat \ {0}
    PROVE  SplitsByKey(LimitTo(SortedByKey(D), n + 1), D, n)
  <1> DEFINE s == SortedByKey(D)
             d == LimitTo(s, n + 1)
  <1>1. Lists(s, D) /\ AscendingKeys(s)
    BY SortedByKeys
  <1> HIDE DEF s
  <1>2. FirstPage(d, s, D, n)
    BY <1>1, PageOfOneMore
  <1> HIDE DEF d
  <1>3. s \in Seq(D) /\ (\A k \in 1 .. Len(s) : s[k] \in D)
    BY <1>1, ElementOfSeq DEF Lists
  <1>4. \A i \in D : Key[i][1] \in Nat /\ Key[i][2] \in Nat
    BY ItemsAssumption
  <1>5. CASE Len(d) <= n
    BY <1>2, <1>5 DEF FirstPage, SplitsByKey, s, d
  <1>6. CASE ~(Len(d) <= n)
    <2>1. /\ n + 1 \in 1 .. Len(s)
          /\ Range(Front(d)) = {s[k] : k \in 1 .. n}
          /\ Last(d) = s[n + 1]
      BY <1>2, <1>6 DEF FirstPage
    <2>2. n \in 1 .. Len(s) /\ n < n + 1 /\ (\A k \in 1 .. n : k \in 1 .. Len(s) /\ k < n + 1) /\ Len(s) \in Nat
      BY <1>3, <2>1
    <2>3. s[n] \in D /\ s[n + 1] \in D /\ KeyBefore(s[n], s[n + 1])
      BY <1>1, <1>3, <2>1, <2>2 DEF AscendingKeys
    <2>4. Range(Front(d)) \subseteq D
      BY <1>3, <2>1, <2>2
    <2>5. ASSUME NEW i \in D
          PROVE  i \in Range(Front(d)) <=> KeyBefore(i, s[n + 1])
      <3>1. PICK k \in 1 .. Len(s) : s[k] = i
        BY <1>1 DEF Lists
      <3>2. \A a, b \in 1 .. Len(s) : a < b => KeyBefore(s[a], s[b])
        BY <1>1 DEF AscendingKeys
      <3>3. \A l \in 1 .. n : KeyBefore(s[l], s[n + 1])
        BY <2>1, <2>2, <3>2
      <3>4. k > n => i = s[n + 1] \/ KeyBefore(s[n + 1], i)
        BY <2>1, <2>2, <3>1, <3>2
      <3>5. k > n => ~KeyBefore(i, s[n + 1])
        BY <1>4, <2>3, <3>4 DEF KeyBefore
      <3>6. k <= n => i \in Range(Front(d))
        BY <2>1, <3>1
      <3> QED
        BY <2>1, <3>1, <3>3, <3>5, <3>6
    <2> QED
      BY <1>6, <2>1, <2>3, <2>4, <2>5 DEF SplitsByKey, s, d
  <1> QED
    BY <1>5, <1>6

LEMMA PagesHaveRoom ==
    ASSUME ScanType(scan)
    PROVE  /\ ContainerResults(scan.asked) \in Nat \ {0}
           /\ QueueResults(scan.asked) \in Nat \ {0}
           /\ TableResults(scan.asked) \in Nat \ {0}
           /\ EntityResults(scan.asked) \in Nat \ {0}
           /\ BlobResults(scan.asked) \in Nat \ {0}
  <1>1. scan.asked \in {Unlimited} \cup 1 .. (Limit + 1) /\ Limit \in Nat \ {0}
    BY LimitAssumption DEF ScanType
  <1> HIDE DEF ScanType
  <1> DEFINE a == scan.asked
  <1>2. a = Unlimited \/ a \in Nat \ {0}
    BY <1>1
  <1> HIDE DEF a
  <1>3. /\ (IF a = Unlimited THEN Limit ELSE a) \in Nat \ {0}
        /\ (IF a = Unlimited \/ a > Limit THEN Limit ELSE a) \in Nat \ {0}
    BY <1>1, <1>2
  <1> QED
    BY <1>3 DEF a, ContainerResults, QueueResults, TableResults, EntityResults, BlobResults

LEMMA ScanFacts ==
    ASSUME ListingInv
    PROVE  /\ ScanType(scan)
           /\ scan.marker \in Nat /\ scan.rowMarker \in Nat
           /\ Present \in SUBSET Items
           /\ scan.throughout \subseteq Present
           /\ scan.lister \notin Delimited => \A i \in Items : scan.folding[i] = 0
           /\ \A i \in Items : Name[i] \in Nat \ {0} /\ ids[i] \in Nat
           /\ \A i \in Items : Key[i][1] \in Nat \ {0} /\ Key[i][2] \in Nat
  BY ItemsAssumption DEF ListingInv, ScanType, StoreInv, Present, Flat

LEMMA ListContainersAnswer ==
    ASSUME Orderly, ListingInv, scan.lister \in {"containers", "sqlContainers"},
           NEW n \in Nat \ {0}
    PROVE  LET r == ListContainers(scan.marker, n)
           IN  GoodAnswer(Range(r.items), {}, r.marker, 0)
  <1> DEFINE D == {i \in Present : Name[i] > scan.marker}
             d == LimitTo(Sorted(D), n + 1)
             r == ListContainers(scan.marker, n)
  <1>1. ListingInv /\ scan.lister \notin Delimited
    BY DEF Delimited
  <1> USE <1>1, ScanFacts
  <1>2. SplitsByName(d, D, n)
    BY PageByName DEF Orderly
  <1>3. r = IF Len(d) <= n THEN [items |-> d, marker |-> 0]
            ELSE [items |-> Front(d), marker |-> Name[d[Len(d) - 1]]]
    BY DEF ListContainers
  <1>4. \A i \in Present, m \in Nat : \A q, id : Passed(scan.lister, m, q, id, i) <=> Name[i] <= m
    BY DEF Passed
  <1>5. \A i \in Present : i \in D <=> Name[i] > scan.marker
    OBVIOUS
  <1>6. D \subseteq Present
    OBVIOUS
  <1> HIDE DEF D, d, r
  <1>7. CASE Len(d) <= n
    <2>1. Range(r.items) = D /\ r.marker = 0
      BY <1>2, <1>3, <1>7 DEF SplitsByName
    <2>2. Continues(Range(r.items), {}, r.marker, 0)
      BY <1>4, <1>5, <2>1 DEF Continues
    <2> QED
      BY <2>1, <2>2 DEF GoodAnswer, Forward, r
  <1>8. CASE ~(Len(d) <= n)
    <2> DEFINE e == d[Len(d) - 1]
    <2>1. /\ e \in D
          /\ Range(Front(d)) \subseteq D
          /\ \A i \in D : i \in Range(Front(d)) <=> Name[i] <= Name[e]
      BY <1>2, <1>8 DEF SplitsByName
    <2>2. Range(r.items) = Range(Front(d)) /\ r.marker = Name[e]
      BY <1>3, <1>8
    <2> HIDE DEF e
    <2>3. Name[e] \in Nat \ {0} /\ Name[e] > scan.marker
      BY <1>5, <1>6, <2>1
    <2>4. Continues(Range(r.items), {}, r.marker, 0)
      BY <1>4, <1>5, <2>1, <2>2, <2>3 DEF Continues
    <2> QED
      BY <2>2, <2>3, <2>4 DEF GoodAnswer, Forward, r
  <1> QED
    BY <1>7, <1>8

LEMMA SqlListContainersAnswer ==
    ASSUME Orderly, ListingInv, scan.lister = "sqlContainers", NEW n \in Nat \ {0}
    PROVE  LET r == SqlListContainers(scan.marker, n)
           IN  GoodAnswer(Range(r.items), {}, r.marker, 0)
  <1>1. ListingInv
    OBVIOUS
  <1>2. {i \in Present : scan.marker # 0 => Name[i] > scan.marker}
          = {i \in Present : Name[i] > scan.marker}
    BY <1>1, ScanFacts
  <1>3. SqlListContainers(scan.marker, n) = ListContainers(scan.marker, n)
    BY <1>2 DEF SqlListContainers, ListContainers
  <1> QED
    BY <1>3, ListContainersAnswer

LEMMA QueryTableAnswer ==
    ASSUME Orderly, ListingInv, scan.lister = "tables", NEW n \in Nat \ {0}
    PROVE  LET r == QueryTable(scan.marker, n)
           IN  GoodAnswer(Range(r.items), {}, r.marker, 0)
  <1> DEFINE D == {i \in Present : Name[i] >= scan.marker}
             d == LimitTo(Sorted(D), n + 1)
             r == QueryTable(scan.marker, n)
  <1>1. ListingInv /\ scan.lister \notin Delimited
    BY DEF Delimited
  <1> USE <1>1, ScanFacts
  <1>2. SplitsByName(d, D, n)
    BY PageByName DEF Orderly
  <1>3. r = IF Len(d) <= n THEN [items |-> d, marker |-> 0]
            ELSE [items |-> Front(d), marker |-> Name[Last(d)]]
    BY DEF QueryTable
  <1>4. \A i \in Present, m \in Nat : \A q, id : Passed(scan.lister, m, q, id, i) <=> Name[i] < m
    BY DEF Passed
  <1>5. \A i \in Present : i \in D <=> Name[i] >= scan.marker
    OBVIOUS
  <1>6. D \subseteq Present
    OBVIOUS
  <1> HIDE DEF D, d, r
  <1>7. CASE Len(d) <= n
    <2>1. Range(r.items) = D /\ r.marker = 0
      BY <1>2, <1>3, <1>7 DEF SplitsByName
    <2>2. Continues(Range(r.items), {}, r.marker, 0)
      BY <1>4, <1>5, <2>1 DEF Continues
    <2> QED
      BY <2>1, <2>2 DEF GoodAnswer, Forward, r
  <1>8. CASE ~(Len(d) <= n)
    <2> DEFINE e == Last(d)
    <2>1. /\ e \in D
          /\ d[Len(d) - 1] \in D /\ Name[d[Len(d) - 1]] < Name[e]
          /\ Range(Front(d)) \subseteq D
          /\ \A i \in D : i \in Range(Front(d)) <=> Name[i] < Name[e]
      BY <1>2, <1>8 DEF SplitsByName
    <2>2. Range(r.items) = Range(Front(d)) /\ r.marker = Name[e]
      BY <1>3, <1>8
    <2> HIDE DEF e
    <2>3. Name[e] \in Nat \ {0} /\ Name[e] > scan.marker
      BY <1>5, <1>6, <2>1
    <2>4. Continues(Range(r.items), {}, r.marker, 0)
      BY <1>4, <1>5, <2>1, <2>2, <2>3 DEF Continues
    <2> QED
      BY <2>2, <2>3, <2>4 DEF GoodAnswer, Forward, r
  <1> QED
    BY <1>7, <1>8

LEMMA QueryTableEntitiesAnswer ==
    ASSUME Orderly, ListingInv, scan.lister = "entities", NEW n \in Nat \ {0}
    PROVE  LET r == QueryTableEntities(scan.marker, scan.rowMarker, n)
           IN  GoodAnswer(Range(r.items), {}, r.marker, r.rowMarker)
  <1> DEFINE D == {i \in Present : \/ Key[i][1] > scan.marker
                                   \/ /\ Key[i][1] = scan.marker
                                      /\ Key[i][2] >= scan.rowMarker}
             d == LimitTo(SortedByKey(D), n + 1)
             r == QueryTableEntities(scan.marker, scan.rowMarker, n)
             before(i, m, q) == Key[i][1] < m \/ (Key[i][1] = m /\ Key[i][2] < q)
  <1>1. ListingInv /\ scan.lister \notin Delimited
    BY DEF Delimited
  <1> USE <1>1, ScanFacts
  <1>2. SplitsByKey(d, D, n)
    BY PageByKey DEF Orderly
  <1>3. r = IF Len(d) <= n THEN [items |-> d, marker |-> 0, rowMarker |-> 0]
            ELSE [items |-> Front(d), marker |-> Key[Last(d)][1], rowMarker |-> Key[Last(d)][2]]
    BY DEF QueryTableEntities
  <1>4. \A i \in Present, m, q \in Nat : \A id : Passed(scan.lister, m, q, id, i) <=> before(i, m, q)
    BY DEF Passed
  <1>5. \A i \in Present : i \in D <=> ~before(i, scan.marker, scan.rowMarker)
    OBVIOUS
  <1>6. D \subseteq Present
    OBVIOUS
  <1>7. \A i, j \in Present : KeyBefore(i, j) <=> before(i, Key[j][1], Key[j][2])
    BY DEF KeyBefore
  <1> HIDE DEF D, d, r
  <1>8. CASE Len(d) <= n
    <2>1. Range(r.items) = D /\ r.marker = 0 /\ r.rowMarker = 0
      BY <1>2, <1>3, <1>8 DEF SplitsByKey
    <2>2. Continues(Range(r.items), {}, r.marker, r.rowMarker)
      BY <1>4, <1>5, <2>1 DEF Continues
    <2> QED
      BY <2>1, <2>2 DEF GoodAnswer, Forward, r
  <1>9. CASE ~(Len(d) <= n)
    <2> DEFINE e == Last(d)
               m == Key[e][1]
               q == Key[e][2]
    <2>1. /\ e \in D
          /\ \E i \in D : KeyBefore(i, e)
          /\ Range(Front(d)) \subseteq D
          /\ \A i \in D : i \in Range(Front(d)) <=> KeyBefore(i, e)
      BY <1>2, <1>9 DEF SplitsByKey
    <2>2. Range(r.items) = Range(Front(d)) /\ r.marker = m /\ r.rowMarker = q
      BY <1>3, <1>9
    <2>3. m \in Nat \ {0} /\ q \in Nat
      BY <1>6, <2>1
    <2> HIDE DEF e
    <2>4. \A i \in D : i \in Range(Front(d)) <=> before(i, m, q)
      BY <1>6, <1>7, <2>1
    <2>5. PICK i \in D : before(i, m, q) /\ ~before(i, scan.marker, scan.rowMarker)
      BY <1>5, <1>6, <1>7, <2>1
    <2>6. i \in Items
      BY <1>6
    <2> HIDE DEF m, q
    <2>7. m > scan.marker \/ (m = scan.marker /\ q > scan.rowMarker)
      BY <2>3, <2>5, <2>6
    <2>8. \A j \in Present : before(j, scan.marker, scan.rowMarker) => before(j, m, q)
      BY <2>3, <2>7
    <2> HIDE DEF before
    <2>9. Continues(Range(r.items), {}, r.marker, r.rowMarker)
      BY <1>4, <1>5, <2>1, <2>2, <2>3, <2>4, <2>8 DEF Continues
    <2> QED
      BY <2>2, <2>3, <2>7, <2>9 DEF GoodAnswer, Forward, r
  <1> QED
    BY <1>8, <1>9

LEMMA ListQueuesAnswer ==
    ASSUME Orderly, ListingInv, scan.lister = "queues", NEW n \in Nat \ {0}
    PROVE  LET r == ListQueues(scan.marker, n)
           IN  GoodAnswer(Range(r.items), {}, r.marker, 0)
  <1> DEFINE D == {i \in Present : ids[i] > scan.marker}
             d == LimitTo(Sorted(D), n + 1)
             r == ListQueues(scan.marker, n)
  <1>1. ListingInv /\ scan.lister \notin Delimited
    BY DEF Delimited
  <1> USE <1>1, ScanFacts
  <1>2. SplitsByName(d, D, n)
    BY PageByName DEF Orderly
  <1>3. r = IF Len(d) <= n THEN [items |-> d, marker |-> 0]
            ELSE [items |-> Front(d), marker |-> ids[Last(d)] - 1]
    BY DEF ListQueues
  <1>4. \A i, m, q : Passed(scan.lister, m, q, ids[i], i) <=> ids[i] <= m
    BY DEF Passed
  <1>5. \A i \in Present : i \in D <=> ids[i] > scan.marker
    OBVIOUS
  <1>6. D \subseteq Present
    OBVIOUS
  <1>7. \A i, j \in Present : Name[i] < Name[j] <=> ids[i] < ids[j]
    <2>1. \A i, j \in Present : Name[i] < Name[j] => ids[i] < ids[j]
      BY DEF ListingInv, StoreInv
    <2> QED
      BY <2>1 DEF Orderly, DistinctNames
  <1> HIDE DEF D, d, r
  <1>8. CASE Len(d) <= n
    <2>1. Range(r.items) = D /\ r.marker = 0
      BY <1>2, <1>3, <1>8 DEF SplitsByName
    <2>2. Continues(Range(r.items), {}, r.marker, 0)
      <3> SUFFICES ASSUME NEW i \in scan.throughout \cap scan.where
                   PROVE  (ids[i] <= scan.marker => i \notin D) /\ (ids[i] <= scan.marker \/ i \in D)
        BY <1>4, <2>1 DEF Continues
      <3> QED
        BY <1>5
    <2> QED
      BY <2>1, <2>2 DEF GoodAnswer, Forward, r
  <1>9. CASE ~(Len(d) <= n)
    <2> DEFINE e == Last(d)
               m == ids[e] - 1
    <2>1. /\ e \in D
          /\ d[Len(d) - 1] \in D /\ Name[d[Len(d) - 1]] < Name[e]
          /\ Range(Front(d)) \subseteq D
          /\ \A i \in D : i \in Range(Front(d)) <=> Name[i] < Name[e]
      BY <1>2, <1>9 DEF SplitsByName
    <2>2. Range(r.items) = Range(Front(d)) /\ r.marker = m
      BY <1>3, <1>9
    <2> HIDE DEF e
    <2>3. ids[d[Len(d) - 1]] < ids[e] /\ ids[d[Len(d) - 1]] > scan.marker
      BY <1>5, <1>6, <1>7, <2>1
    <2>4. ids[e] \in Nat /\ ids[d[Len(d) - 1]] \in Nat
      BY <1>6, <2>1
    <2>5. m \in Nat \ {0} /\ m > scan.marker
      BY <2>3, <2>4
    <2>6. \A i \in D : i \in Range(Front(d)) <=> ids[i] <= m
      <3> SUFFICES ASSUME NEW i \in D PROVE i \in Range(Front(d)) <=> ids[i] <= m
        OBVIOUS
      <3>1. i \in Range(Front(d)) <=> ids[i] < ids[e]
        BY <1>6, <1>7, <2>1
      <3>2. ids[i] \in Nat
        BY <1>6
      <3> QED
        BY <2>4, <3>1, <3>2
    <2> HIDE DEF m
    <2>7. Continues(Range(r.items), {}, r.marker, 0)
      <3> DEFINE F == Range(Front(d))
      <3> SUFFICES ASSUME NEW i \in scan.throughout \cap scan.where
                   PROVE  /\ ids[i] <= scan.marker => i \notin F
                          /\ ids[i] <= scan.marker => ids[i] <= m
                          /\ ids[i] <= m => ids[i] <= scan.marker \/ i \in F
                          /\ ~(ids[i] <= m) => i \notin F
        BY <1>4, <2>2, <2>5 DEF Continues
      <3> QED
        BY <1>5, <2>1, <2>5, <2>6
    <2> QED
      BY <2>2, <2>5, <2>7 DEF GoodAnswer, Forward, r
  <1> QED
    BY <1>8, <1>9

----------------------------------------------------------------------------
(* FoldLeft, unrolled: a page is filled item by item; chunks and buffers   *)
(* are read one by one.                                                    *)

\* What the folds of the reads do with one buffer, or with one chunk.
TakeBuffer(state, buffer) ==
    IF state.take = 0 THEN state
    ELSE IF state.skip > 0 /\ Len(buffer) <= state.skip
         THEN [state EXCEPT !.skip = @ - Len(buffer)]
    ELSE LET slice == SubSeq(buffer, state.skip + 1,
                             Smaller(state.skip + state.take, Len(buffer)))
         IN  [skip |-> 0, take |-> state.take - Len(slice), out |-> state.out \o slice]

\* The part of a chunk that begins at `at', within offset .. end.
ChunkPart(offset, end, at, chunk) ==
    LET next == at + chunk.count
        from == IF offset > at THEN offset - at ELSE 0
        beyond == IF end <= next THEN next - end ELSE 0
    IN  Chunk(chunk.id, chunk.offset + from, chunk.count - from - beyond)

TakeChunk(offset, end, state, chunk) ==
    LET next == state.at + chunk.count
    IN  IF next <= offset THEN [state EXCEPT !.at = next]
        ELSE IF end <= state.at THEN state
        ELSE [at |-> next, out |-> state.out \o ReadExtent(ChunkPart(offset, end, state.at, chunk))]

\* One round of each fold.
AddOne(how, p, i) ==
    IF how[1] = "filtered" THEN addFiltered(p, i)
    ELSE IF how[1] = "listed" THEN add(p, i)
    ELSE IF how[1] = "buffers" THEN TakeBuffer(p, i)
    ELSE IF how[1] = "chunks" THEN TakeChunk(how[2], how[3], p, i)
    ELSE p + i.count

Folds(h, n, q, docs, how) ==
    h = [s \in SUBSET (1 .. n) |->
            IF s = {} THEN q
            ELSE AddOne(how, h[s \ {Max(s)}], docs[Max(s)])]

LEMMA MaxOfTop ==
    ASSUME NEW n \in Nat, NEW s \in SUBSET (1 .. n + 1), n + 1 \in s
    PROVE  Max(s) = n + 1
  <1>1. \A y \in s : n + 1 >= y
    OBVIOUS
  <1>2. \A x \in s : (\A y \in s : x >= y) => x = n + 1
    OBVIOUS
  <1> QED
    BY <1>1, <1>2 DEF Max

LEMMA FoldExists ==
    ASSUME NEW q, NEW docs, NEW how
    PROVE  \A n \in Nat : \E h : Folds(h, n, q, docs, how)
  <1> DEFINE T == {n \in Nat : \E h : Folds(h, n, q, docs, how)}
  <1>1. 0 \in T
    <2> DEFINE h == [s \in SUBSET (1 .. 0) |-> q]
    <2>1. \A s \in SUBSET (1 .. 0) : s = {}
      OBVIOUS
    <2>2. h = [s \in SUBSET (1 .. 0) |->
                  IF s = {} THEN q ELSE AddOne(how, h[s \ {Max(s)}], docs[Max(s)])]
      BY <2>1
    <2>3. Folds(h, 0, q, docs, how)
      BY <2>2 DEF Folds
    <2> QED
      BY <2>3
  <1>2. ASSUME NEW n \in Nat, n \in T
        PROVE  n + 1 \in T
    <2>1. PICK h : Folds(h, n, q, docs, how)
      BY <1>2
    <2> DEFINE body(g, s) == IF s = {} THEN q ELSE AddOne(how, g[s \ {Max(s)}], docs[Max(s)])
               g == [s \in SUBSET (1 .. n + 1) |->
                        IF n + 1 \in s THEN AddOne(how, h[s \ {n + 1}], docs[n + 1]) ELSE h[s]]
    <2>2. \A s \in SUBSET (1 .. n) : h[s] = body(h, s)
      <3> DEFINE S == SUBSET (1 .. n)
      <3>1. h = [s \in S |-> body(h, s)]
        BY <2>1 DEF Folds
      <3> HIDE DEF body, S
      <3> QED
        BY <3>1 DEF S
    <2>3. \A s \in SUBSET (1 .. n + 1) :
             g[s] = IF n + 1 \in s THEN AddOne(how, h[s \ {n + 1}], docs[n + 1]) ELSE h[s]
      OBVIOUS
    <2>4. DOMAIN g = SUBSET (1 .. n + 1)
      OBVIOUS
    <2>5. g = [s \in DOMAIN g |-> g[s]]
      OBVIOUS
    <2> HIDE DEF g
    <2>6. ASSUME NEW s \in SUBSET (1 .. n + 1)
          PROVE  g[s] = body(g, s)
      <3>1. CASE n + 1 \in s
        <4>1. s \ {n + 1} \in SUBSET (1 .. n + 1) /\ n + 1 \notin s \ {n + 1} /\ s # {}
          BY <3>1
        <4>2. g[s \ {n + 1}] = h[s \ {n + 1}]
          BY <2>3, <4>1
        <4> QED
          BY <2>3, <3>1, <4>1, <4>2, MaxOfTop
      <3>2. CASE n + 1 \notin s
        <4>1. s \in SUBSET (1 .. n)
          BY <3>2
        <4>2. s \ {Max(s)} \in SUBSET (1 .. n + 1) /\ n + 1 \notin s \ {Max(s)}
          BY <3>2
        <4>3. g[s] = h[s] /\ g[s \ {Max(s)}] = h[s \ {Max(s)}]
          BY <2>3, <3>2, <4>2
        <4> QED
          BY <2>2, <4>1, <4>3
      <3> QED
        BY <3>1, <3>2
    <2>7. g = [s \in SUBSET (1 .. n + 1) |-> body(g, s)]
      <3> HIDE DEF body
      <3> QED
        BY <2>4, <2>5, <2>6
    <2>8. Folds(g, n + 1, q, docs, how)
      BY <2>7 DEF Folds
    <2> QED
      BY <2>8
  <1> HIDE DEF T
  <1>3. \A n \in Nat : n \in T
    BY <1>1, <1>2, NatsFrom
  <1> QED
    BY <1>3 DEF T

\* F goes from round to round.
Fills(F, q, docs, how) ==
    /\ F[0] = q
    /\ \A k \in 1 .. Len(docs) : F[k] = AddOne(how, F[k - 1], docs[k])

LEMMA FoldFills ==
    ASSUME NEW q, NEW S, NEW docs \in Seq(S), NEW how, NEW g,
           Folds(g, Len(docs), q, docs, how)
    PROVE  \E F : Fills(F, q, docs, how) /\ F[Len(docs)] = g[1 .. Len(docs)]
  <1> DEFINE n == Len(docs)
             F == [k \in 0 .. n |-> g[1 .. k]]
             body(s) == IF s = {} THEN q ELSE AddOne(how, g[s \ {Max(s)}], docs[Max(s)])
  <1>1. n \in Nat
    OBVIOUS
  <1>2. g = [s \in SUBSET (1 .. n) |-> body(s)]
    BY DEF Folds
  <1>3. \A s \in SUBSET (1 .. n) : g[s] = body(s)
    <2> DEFINE D == SUBSET (1 .. n)
    <2>1. g = [s \in D |-> body(s)]
      BY <1>2
    <2> HIDE DEF body, D
    <2> QED
      BY <2>1 DEF D
  <1>4. \A k \in 0 .. n : F[k] = g[1 .. k]
    OBVIOUS
  <1> HIDE DEF n, F
  <1>5. F[0] = q
    <2>1. 1 .. 0 = {} /\ 1 .. 0 \in SUBSET (1 .. n) /\ 0 \in 0 .. n
      BY <1>1
    <2> QED
      BY <1>3, <1>4, <2>1
  <1>6. ASSUME NEW k \in 1 .. n
        PROVE  F[k] = AddOne(how, F[k - 1], docs[k])
    <2>1. k \in 0 .. n /\ k - 1 \in 0 .. n /\ k - 1 \in Nat /\ (k - 1) + 1 = k
      BY <1>1
    <2>2. (1 .. k) \in SUBSET (1 .. n) /\ 1 .. k # {} /\ (1 .. k) \ {k} = 1 .. (k - 1)
      BY <1>1
    <2>3. Max(1 .. k) = k
      <3> DEFINE m == k - 1
      <3>1. m \in Nat /\ (1 .. k) \in SUBSET (1 .. m + 1) /\ m + 1 \in 1 .. k /\ m + 1 = k
        BY <2>1
      <3> HIDE DEF m
      <3> QED
        BY <3>1, MaxOfTop
    <2> QED
      BY <1>3, <1>4, <2>1, <2>2, <2>3, ZenonT(30)
  <1>7. Fills(F, q, docs, how)
    BY <1>5, <1>6 DEF Fills, n
  <1>8. F[n] = g[1 .. n]
    BY <1>1, <1>4
  <1> QED
    BY <1>7, <1>8 DEF n

LEMMA ProcessListFills ==
    ASSUME NEW p, NEW docs \in Seq(Items),
           scan.lister \notin Delimited => \A i \in Items : scan.folding[i] = 0
    PROVE  \E F : /\ F[0] = [p EXCEPT !.added = 0]
                  /\ \A k \in 1 .. Len(docs) : F[k] = add(F[k - 1], docs[k])
                  /\ F[Len(docs)] = processList(p, docs)
  <1> DEFINE q == [p EXCEPT !.added = 0]
             n == Len(docs)
  <1>1. DOMAIN docs = 1 .. n /\ n \in Nat
    OBVIOUS
  <1> HIDE DEF q, n
  <1>2. CASE scan.lister \in Delimited
    <2> DEFINE it == CHOOSE g : g = [s \in SUBSET (1 .. n) |->
                        IF s = {} THEN q ELSE add(g[s \ {Max(s)}], docs[Max(s)])]
    <2>1. FoldLeft(add, q, docs) = it[1 .. n]
      BY <1>1 DEF FoldLeft, MapThenFoldSet
    <2>2. PICK h : Folds(h, n, q, docs, <<"listed">>)
      BY <1>1, FoldExists
    <2>3. h = [s \in SUBSET (1 .. n) |->
                 IF s = {} THEN q ELSE add(h[s \ {Max(s)}], docs[Max(s)])]
      BY <2>2 DEF Folds, AddOne
    <2>4. it = [s \in SUBSET (1 .. n) |->
                 IF s = {} THEN q ELSE add(it[s \ {Max(s)}], docs[Max(s)])]
      BY <2>3
    <2> HIDE DEF it
    <2>5. Folds(it, n, q, docs, <<"listed">>)
      BY <2>4 DEF Folds, AddOne
    <2>6. processList(p, docs) = it[1 .. n]
      BY <1>2, <2>1 DEF processList, Delimited, q
    <2>7. PICK F : Fills(F, q, docs, <<"listed">>) /\ F[n] = it[1 .. n]
      BY <2>5, FoldFills DEF n
    <2> QED
      BY <2>6, <2>7 DEF n, q, Fills, AddOne
  <1>3. CASE scan.lister \notin Delimited
    <2> DEFINE it == CHOOSE g : g = [s \in SUBSET (1 .. n) |->
                        IF s = {} THEN q ELSE addFiltered(g[s \ {Max(s)}], docs[Max(s)])]
    <2>1. FoldLeft(addFiltered, q, docs) = it[1 .. n]
      BY <1>1 DEF FoldLeft, MapThenFoldSet
    <2>2. PICK h : Folds(h, n, q, docs, <<"filtered">>)
      BY <1>1, FoldExists
    <2>3. h = [s \in SUBSET (1 .. n) |->
                 IF s = {} THEN q ELSE addFiltered(h[s \ {Max(s)}], docs[Max(s)])]
      BY <2>2 DEF Folds, AddOne
    <2>4. it = [s \in SUBSET (1 .. n) |->
                 IF s = {} THEN q ELSE addFiltered(it[s \ {Max(s)}], docs[Max(s)])]
      BY <2>3
    <2> HIDE DEF it
    <2>5. Folds(it, n, q, docs, <<"filtered">>)
      BY <2>4 DEF Folds, AddOne
    <2>6. processList(p, docs) = it[1 .. n]
      BY <1>3, <2>1 DEF processList, Delimited, q
    <2>7. PICK F : Fills(F, q, docs, <<"filtered">>) /\ F[n] = it[1 .. n]
      BY <2>5, FoldFills DEF n
    <2>8. ASSUME NEW k \in 1 .. n
          PROVE  F[k] = add(F[k - 1], docs[k])
      <3>1. docs[k] \in Items
        BY ElementOfSeq DEF n
      <3>2. F[k] = addFiltered(F[k - 1], docs[k])
        BY <2>7 DEF Fills, AddOne, n
      <3> QED
        BY <1>3, <3>1, <3>2 DEF add, addFiltered
    <2> QED
      BY <2>6, <2>7, <2>8 DEF n, q, Fills
  <1> QED
    BY <1>2, <1>3

LEMMA AppendRange ==
    ASSUME NEW S, NEW s \in Seq(S), NEW i \in S
    PROVE  Append(s, i) \in Seq(S) /\ Range(Append(s, i)) = Range(s) \cup {i}
  <1>1. Len(s) \in Nat /\ DOMAIN s = 1 .. Len(s)
    OBVIOUS
  <1>2. /\ Append(s, i) \in Seq(S)
        /\ DOMAIN Append(s, i) = 1 .. Len(s) + 1
        /\ \A k \in 1 .. Len(s) : Append(s, i)[k] = s[k]
        /\ Append(s, i)[Len(s) + 1] = i
    OBVIOUS
  <1>3. \A k \in 1 .. Len(s) + 1 : k \in 1 .. Len(s) \/ k = Len(s) + 1
    BY <1>1
  <1>4. \A k \in 1 .. Len(s) : k \in 1 .. Len(s) + 1
    BY <1>1
  <1>5. Len(s) + 1 \in 1 .. Len(s) + 1
    BY <1>1
  <1>6. Range(Append(s, i)) \subseteq Range(s) \cup {i}
    BY <1>1, <1>2, <1>3 DEF Range
  <1>7. Range(s) \cup {i} \subseteq Range(Append(s, i))
    BY <1>1, <1>2, <1>4, <1>5 DEF Range
  <1> QED
    BY <1>2, <1>6, <1>7

\* What adding leaves alone, and the page that it leaves.
AddsNext(p, q, s, n, max, folding) ==
    /\ PageType(q) /\ q.offset = p.offset /\ q.view = p.view
    /\ \/ q.added = p.added + 1 /\ PageHas(q, s, n + 1, max, folding)
       \/ q.added = p.added /\ q.isExhausted /\ PageHas(q, s, n, max, folding)

LEMMA AddStep ==
    ASSUME ScanType(scan),
           NEW s \in Seq(Items), NEW n \in Nat, n + 1 \in 1 .. Len(s), NEW p,
           PageType(p), PageHas(p, s, n, scan.max, scan.folding), ~p.isExhausted
    PROVE  AddsNext(p, add(p, s[n + 1]), s, n, scan.max, scan.folding)
  <1> DEFINE i == s[n + 1]
             f == scan.folding
             max == scan.max
             q == add(p, i)
             count(b, c) == Len(b) + Cardinality(c)
             rec(b, c, l, u, x, o, a, v) ==
                [blobItems |-> b, blobPrefixes |-> c, latestMarker |-> l, isFull |-> u,
                 isExhausted |-> x, offset |-> o, added |-> a, view |-> v]
  <1>1. i \in Items
    BY ElementOfSeq
  <1>2. f[i] \in Nat /\ Name[i] \in Nat
    <2>1. f \in Foldings
      BY DEF ScanType
    <2>2. f \in [Items -> Nat] /\ Name \in [Items -> Nat \ {0}]
      BY <2>1, ItemsAssumption
    <2> HIDE DEF f, i
    <2> QED
      BY <1>1, <2>2
  <1>3. /\ p.blobItems \in Seq(Items)
        /\ p.blobPrefixes \in SUBSET Nat
        /\ p.isFull \in BOOLEAN
        /\ p.isFull => count(p.blobItems, p.blobPrefixes) = max
        /\ p.latestMarker = IF n = 0 THEN 0 ELSE Name[s[n]]
        /\ n = 0 => ~p.isFull
        /\ \A k \in 1 .. n : IF f[s[k]] = 0 THEN s[k] \in Range(p.blobItems)
                             ELSE f[s[k]] \in p.blobPrefixes
        /\ \A j \in Range(p.blobItems) : \E k \in 1 .. n : s[k] = j
    BY DEF PageHas
  <1>4. \A k \in 1 .. n + 1 : k \in 1 .. n \/ k = n + 1
    OBVIOUS
  <1>5. \A k \in 1 .. n : k \in 1 .. n + 1
    OBVIOUS
  <1>6. p = rec(p.blobItems, p.blobPrefixes, p.latestMarker, p.isFull, p.isExhausted,
                p.offset, p.added, p.view)
    BY DEF PageType
  <1>7. n + 1 \in 1 .. n + 1 /\ n + 1 # 0
    OBVIOUS
  <1> HIDE DEF i, f, max
  <1>8. CASE f[i] = 0 /\ p.isFull
    <2>1. q = [p EXCEPT !.isFull = (count(p.blobItems, p.blobPrefixes) = max),
                        !.isExhausted = (count(p.blobItems, p.blobPrefixes) = max)]
      BY <1>6, <1>8 DEF add, addItem, updateFull, f, max
    <2>2. q = rec(p.blobItems, p.blobPrefixes, p.latestMarker, TRUE, TRUE, p.offset, p.added, p.view)
      BY <1>3, <1>6, <1>8, <2>1
    <2> HIDE DEF q
    <2>3. PageHas(q, s, n, max, f)
      BY <1>3, <1>8, <2>2 DEF PageHas
    <2> QED
      BY <2>2, <2>3 DEF AddsNext, PageType, q, i, f, max
  <1>9. CASE f[i] = 0 /\ ~p.isFull
    <2> DEFINE b == Append(p.blobItems, i)
               u == count(b, p.blobPrefixes) = max
    <2>1. q = rec(b, p.blobPrefixes, Name[i], u, u, p.offset, p.added + 1, p.view)
      BY <1>6, <1>9 DEF add, addItem, updateFull, f, max
    <2>2. b \in Seq(Items) /\ Range(b) = Range(p.blobItems) \cup {i}
      BY <1>1, <1>3, AppendRange
    <2>3. u \in BOOLEAN /\ (u => count(b, p.blobPrefixes) = max)
      OBVIOUS
    <2> HIDE DEF q, b, u
    <2>4. \A k \in 1 .. n + 1 : IF f[s[k]] = 0 THEN s[k] \in Range(b) ELSE f[s[k]] \in p.blobPrefixes
      BY <1>3, <1>4, <1>9, <2>2 DEF i
    <2>5. \A j \in Range(b) : \E k \in 1 .. n + 1 : s[k] = j
      BY <1>3, <1>5, <1>7, <2>2 DEF i
    <2>6. PageHas(q, s, n + 1, max, f)
      BY <1>3, <1>7, <2>1, <2>2, <2>3, <2>4, <2>5 DEF PageHas, i
    <2> QED
      BY <2>1, <2>6 DEF AddsNext, PageType, q, i, f, max
  <1>10. CASE f[i] # 0 /\ p.isFull /\ f[i] \notin p.blobPrefixes
    <2>1. q = rec(p.blobItems, p.blobPrefixes, p.latestMarker, p.isFull, TRUE, p.offset, p.added, p.view)
      BY <1>6, <1>10 DEF add, addPrefix, f, max
    <2> HIDE DEF q
    <2>2. PageHas(q, s, n, max, f)
      BY <1>3, <1>10, <2>1 DEF PageHas
    <2> QED
      BY <2>1, <2>2 DEF AddsNext, PageType, q, i, f, max
  <1>11. CASE f[i] # 0 /\ ~(p.isFull /\ f[i] \notin p.blobPrefixes)
    <2> DEFINE c == p.blobPrefixes \cup {f[i]}
               u == count(p.blobItems, c) = max
    <2>1. q = rec(p.blobItems, c, Name[i], u, p.isExhausted, p.offset, p.added + 1, p.view)
      BY <1>6, <1>11 DEF add, addPrefix, updateFull, f, max
    <2>2. c \in SUBSET Nat
      BY <1>2, <1>3
    <2>3. u \in BOOLEAN /\ (u => count(p.blobItems, c) = max)
      OBVIOUS
    <2>4. p.blobPrefixes \subseteq c /\ f[i] \in c
      OBVIOUS
    <2> HIDE DEF q, c, u
    <2>5. \A k \in 1 .. n + 1 : IF f[s[k]] = 0 THEN s[k] \in Range(p.blobItems) ELSE f[s[k]] \in c
      BY <1>3, <1>4, <1>11, <2>4 DEF i
    <2>6. \A j \in Range(p.blobItems) : \E k \in 1 .. n + 1 : s[k] = j
      BY <1>3, <1>5
    <2>7. PageHas(q, s, n + 1, max, f)
      BY <1>3, <1>7, <2>1, <2>2, <2>3, <2>5, <2>6 DEF PageHas, i
    <2> QED
      BY <2>1, <2>7 DEF AddsNext, PageType, q, i, f, max
  <1> QED
    BY <1>8, <1>9, <1>10, <1>11

\* The page q after k documents from the offset of p on: it has taken them
\* all, or the first of them up to the one that did not fit.
FilledPage(p, q, s, k, max, folding) ==
    /\ PageType(q) /\ q.offset = p.offset /\ q.view = p.view
    /\ q.added \in 0 .. k
    /\ q.added = k \/ q.isExhausted
    /\ PageHas(q, s, p.offset + q.added, max, folding)

\* docs are the documents of s from an offset on; F goes from page to page.
PartOf(docs, s, o) ==
    /\ o \in Nat /\ o + Len(docs) <= Len(s)
    /\ \A k \in 1 .. Len(docs) : docs[k] = s[o + k]
Adds(F, p, docs) ==
    /\ F[0] = [p EXCEPT !.added = 0]
    /\ \A k \in 1 .. Len(docs) : F[k] = add(F[k - 1], docs[k])

LEMMA NextIndex ==
    \A k, o, m, l \in Nat : k + 1 <= m /\ o + m <= l =>
        o + k \in Nat /\ (o + k) + 1 = o + (k + 1) /\ (o + k) + 1 \in 1 .. l
  OBVIOUS

LEMMA FillPage ==
    ASSUME ScanType(scan),
           NEW s \in Seq(Items), NEW docs \in Seq(Items), NEW p, PageType(p),
           PartOf(docs, s, p.offset),
           PageHas(p, s, p.offset, scan.max, scan.folding),
           NEW F, Adds(F, p, docs)
    PROVE  FilledPage(p, F[Len(docs)], s, Len(docs), scan.max, scan.folding)
  <1>0. /\ p.offset \in Nat /\ p.offset + Len(docs) <= Len(s)
        /\ \A k \in 1 .. Len(docs) : docs[k] = s[p.offset + k]
        /\ F[0] = [p EXCEPT !.added = 0]
        /\ \A k \in 1 .. Len(docs) : F[k] = add(F[k - 1], docs[k])
    BY DEF PartOf, Adds
  <1> USE <1>0
  <1> DEFINE off == p.offset
             J(k) == FilledPage(p, F[k], s, k, scan.max, scan.folding)
             T == {k \in Nat : k <= Len(docs) => J(k)}
  <1>1. Len(docs) \in Nat /\ Len(s) \in Nat
    OBVIOUS
  <1>2. J(0)
    <2>1. p = [blobItems |-> p.blobItems, blobPrefixes |-> p.blobPrefixes,
               latestMarker |-> p.latestMarker, isFull |-> p.isFull,
               isExhausted |-> p.isExhausted, offset |-> p.offset,
               added |-> p.added, view |-> p.view]
      BY DEF PageType
    <2>2. F[0] = [blobItems |-> p.blobItems, blobPrefixes |-> p.blobPrefixes,
               latestMarker |-> p.latestMarker, isFull |-> p.isFull,
               isExhausted |-> p.isExhausted, offset |-> p.offset,
               added |-> 0, view |-> p.view]
      BY <2>1
    <2>3. F[0].added = 0 /\ off + 0 = off
      BY <2>2
    <2>4. PageHas(F[0], s, off, scan.max, scan.folding)
      BY <2>2 DEF PageHas
    <2>5. PageType(F[0]) /\ F[0].offset = p.offset /\ F[0].view = p.view
      BY <2>2 DEF PageType
    <2> QED
      BY <2>3, <2>4, <2>5 DEF FilledPage
  <1>3. ASSUME NEW k \in Nat, k + 1 <= Len(docs), J(k)
        PROVE  J(k + 1)
    <2> DEFINE a == F[k].added
    <2>1. /\ PageType(F[k]) /\ F[k].offset = off /\ F[k].view = p.view
          /\ a \in 0 .. k
          /\ a = k \/ F[k].isExhausted
          /\ PageHas(F[k], s, off + a, scan.max, scan.folding)
      BY <1>3 DEF FilledPage
    <2>2. k + 1 \in 1 .. Len(docs) /\ (k + 1) - 1 = k
      BY <1>1, <1>3
    <2>3. F[k + 1] = add(F[k], docs[k + 1]) /\ docs[k + 1] = s[off + (k + 1)]
      BY <2>2
    <2>4. CASE F[k].isExhausted
      <3>1. F[k + 1] = F[k]
        BY <2>3, <2>4 DEF add
      <3>2. a \in 0 .. k + 1
        BY <2>1
      <3> QED
        BY <2>1, <2>4, <3>1, <3>2 DEF FilledPage
    <2>5. CASE ~F[k].isExhausted
      <3>1. a = k /\ off + a \in Nat /\ (off + a) + 1 = off + (k + 1) /\ (off + a) + 1 \in 1 .. Len(s)
        <4>1. a = k
          BY <2>1, <2>5, Zenon
        <4> QED
          BY <1>1, <1>3, <4>1, NextIndex, Zenon
      <3>2. AddsNext(F[k], F[k + 1], s, off + a, scan.max, scan.folding)
        BY <2>1, <2>3, <2>5, <3>1, AddStep
      <3>3. CASE F[k + 1].added = a + 1 /\ PageHas(F[k + 1], s, (off + a) + 1, scan.max, scan.folding)
        <4>1. F[k + 1].added = k + 1 /\ off + F[k + 1].added = (off + a) + 1 /\ k + 1 \in 0 .. k + 1
          BY <3>1, <3>3
        <4> QED
          BY <2>1, <3>2, <3>3, <4>1 DEF FilledPage, AddsNext
      <3>4. CASE F[k + 1].added = a /\ F[k + 1].isExhausted /\ PageHas(F[k + 1], s, off + a, scan.max, scan.folding)
        <4>1. a \in 0 .. k + 1
          BY <2>1
        <4> QED
          BY <2>1, <3>2, <3>4, <4>1 DEF FilledPage, AddsNext
      <3> QED
        BY <3>2, <3>3, <3>4 DEF AddsNext
    <2> QED
      BY <2>4, <2>5
  <1> HIDE DEF J
  <1>4. 0 \in T
    BY <1>2
  <1>5. \A k \in Nat : k \in T => k + 1 \in T
    BY <1>1, <1>3
  <1>6. \A k \in Nat : k \in T
    <2> HIDE DEF T
    <2> QED
      BY <1>4, <1>5, NatsFrom
  <1> QED
    BY <1>1, <1>6 DEF J

LEMMA ReadFrom ==
    ASSUME NEW s \in Seq(Items), NEW off \in 0 .. Len(s), scan.max \in Nat \ {0}
    PROVE  LET docs == FromOffset(s, off)
           IN  /\ docs \in Seq(Items)
               /\ Len(docs) = IF scan.max < Len(s) - off THEN scan.max ELSE Len(s) - off
               /\ off + Len(docs) <= Len(s)
               /\ \A k \in 1 .. Len(docs) : docs[k] = s[off + k]
  <1> DEFINE r == SubSeq(s, off + 1, Len(s))
             n == Len(s) - off
  <1>1. Len(s) \in Nat /\ off \in Nat /\ n \in Nat
    OBVIOUS
  <1>2. r = [k \in 1 .. n |-> s[off + k]]
    <2>1. (Len(s) - (off + 1)) + 1 = n
      BY <1>1
    <2> HIDE DEF n
    <2>2. SubSeq(s, off + 1, Len(s)) = [k \in 1 .. n |-> s[(off + 1) + k - 1]]
      BY <1>1, <2>1
    <2>3. \A k \in 1 .. n : (off + 1) + k - 1 = off + k
      BY <1>1
    <2> QED
      BY <2>2, <2>3
  <1>3. \A k \in 1 .. n : s[off + k] \in Items
    <2> SUFFICES ASSUME NEW k \in 1 .. n PROVE s[off + k] \in Items
      OBVIOUS
    <2>1. off + k \in 1 .. Len(s)
      BY <1>1
    <2> QED
      BY <2>1, ElementOfSeq
  <1> HIDE DEF n, r
  <1>4. r \in Seq(Items) /\ Len(r) = n /\ (\A k \in 1 .. n : r[k] = s[off + k])
    <2>1. r \in [1 .. n -> Items]
      BY <1>2, <1>3
    <2> QED
      BY <1>1, <1>2, <2>1, FunctionIsSeq
  <1>5. FromOffset(s, off) = LimitTo(r, scan.max)
    BY DEF FromOffset, r
  <1>6. /\ LimitTo(r, scan.max) \in Seq(Items)
        /\ Len(LimitTo(r, scan.max)) = IF scan.max < n THEN scan.max ELSE n
        /\ \A k \in 1 .. Len(LimitTo(r, scan.max)) : LimitTo(r, scan.max)[k] = r[k]
    BY <1>4, Limited
  <1>7. Len(LimitTo(r, scan.max)) <= n /\ Len(LimitTo(r, scan.max)) \in Nat
    BY <1>1, <1>6
  <1> QED
    BY <1>1, <1>4, <1>5, <1>6, <1>7 DEF n

\* The first n positions hold n elements.
LEMMA CountAscending ==
    ASSUME NEW d \in Seq(Items), AscendingNames(d), NEW n \in 0 .. Len(d)
    PROVE  LET E == {d[k] : k \in 1 .. n}
           IN  IsFiniteSet(E) /\ Cardinality(E) = n
  <1> DEFINE E == {d[k] : k \in 1 .. n}
             g == [k \in 1 .. n |-> d[k]]
  <1>1. n \in Nat /\ (\A k \in 1 .. n : k \in 1 .. Len(d))
    OBVIOUS
  <1>2. \A k \in 1 .. Len(d) : Name[d[k]] \in Nat
    BY ElementOfSeq, ItemsAssumption
  <1>3. \A a, b \in 1 .. n : d[a] = d[b] => a = b
    <2> SUFFICES ASSUME NEW a \in 1 .. n, NEW b \in 1 .. n, d[a] = d[b], a # b
                 PROVE  FALSE
      OBVIOUS
    <2>1. a \in 1 .. Len(d) /\ b \in 1 .. Len(d) /\ (a < b \/ b < a)
      BY <1>1
    <2>2. Name[d[a]] < Name[d[b]] \/ Name[d[b]] < Name[d[a]]
      BY <2>1 DEF AscendingNames
    <2> QED
      BY <1>2, <2>1, <2>2
  <1>4. g \in Bijection(1 .. n, E)
    BY <1>3 DEF Bijection, Injection, Surjection, IsInjective
  <1>5. IsFiniteSet(1 .. n) /\ Cardinality(1 .. n) = n
    BY <1>1, FS_Interval
  <1>6. ExistsBijection(1 .. n, E)
    BY <1>4 DEF ExistsBijection
  <1> HIDE DEF E
  <1>7. IsFiniteSet(E) /\ Cardinality(E) = n
    BY <1>5, <1>6, FS_Bijection
  <1> QED
    BY <1>7 DEF E

\* What is sorted stays as it is.
LEMMA SortedAlready ==
    ASSUME DistinctNames, NEW d \in Seq(Items), AscendingNames(d)
    PROVE  Sorted(Range(d)) = d
  <1> DEFINE E == Range(d)
             t == Sorted(E)
             rank(i) == Cardinality({j \in E : NameBefore(j, i)})
  <1>1. DOMAIN d = 1 .. Len(d) /\ Len(d) \in Nat /\ (\A k \in 1 .. Len(d) : d[k] \in Items)
    BY ElementOfSeq
  <1>2. E = {d[k] : k \in 1 .. Len(d)} /\ E \in SUBSET Items
    BY <1>1 DEF Range
  <1> HIDE DEF E
  <1>3. /\ Lists(t, E)
        /\ Len(t) = Cardinality(E)
        /\ \A k \in 1 .. Len(t) : rank(t[k]) = k - 1
        /\ \A i, j \in E : rank(i) = rank(j) => i = j
    BY <1>2, SortedByName
  <1>4. Len(t) = Len(d)
    <2>1. Len(d) \in 0 .. Len(d)
      BY <1>1
    <2> QED
      BY <1>2, <1>3, <2>1, CountAscending
  <1>5. \A i \in Items : Name[i] \in Nat /\ i \in Int
    BY ItemsAssumption
  <1>6. \A i, j \in Items : NameBefore(i, j) <=> Name[i] < Name[j]
    BY <1>5 DEF NameBefore, DistinctNames
  <1>7. ASSUME NEW k \in 1 .. Len(d)
        PROVE  rank(d[k]) = k - 1
    <2>1. k - 1 \in 0 .. Len(d) /\ k \in Nat
      BY <1>1
    <2>2. \A l \in 1 .. Len(d) : NameBefore(d[l], d[k]) <=> l \in 1 .. k - 1
      <3> SUFFICES ASSUME NEW l \in 1 .. Len(d)
                   PROVE  Name[d[l]] < Name[d[k]] <=> l < k
        BY <1>1, <1>6
      <3>1. l < k => Name[d[l]] < Name[d[k]]
        BY DEF AscendingNames
      <3>2. k < l => Name[d[k]] < Name[d[l]]
        BY DEF AscendingNames
      <3>3. Name[d[l]] \in Nat /\ Name[d[k]] \in Nat /\ l \in Nat
        BY <1>1, <1>5
      <3> QED
        BY <2>1, <3>1, <3>2, <3>3
    <2>3. \A l \in 1 .. k - 1 : l \in 1 .. Len(d)
      BY <1>1
    <2>4. {j \in E : NameBefore(j, d[k])} = {d[l] : l \in 1 .. k - 1}
      BY <1>2, <2>2, <2>3
    <2> QED
      BY <2>1, <2>4, CountAscending
  <1>8. ASSUME NEW k \in 1 .. Len(d)
        PROVE  t[k] = d[k]
    <2>1. t \in Seq(E)
      BY <1>3 DEF Lists
    <2>2. t[k] \in E /\ d[k] \in E
      BY <1>2, <1>4, <2>1, ElementOfSeq
    <2>3. rank(t[k]) = rank(d[k])
      BY <1>3, <1>4, <1>7
    <2> QED
      BY <1>3, <2>2, <2>3
  <1>9. t \in Seq(Items)
    BY <1>2, <1>3 DEF Lists
  <1> HIDE DEF t
  <1>10. t = d
    BY <1>4, <1>8, <1>9, SeqEqual
  <1> QED
    BY <1>10 DEF t, E

----------------------------------------------------------------------------
(* The listings that read in rounds.                                       *)

LEMMA BlobsToList ==
    ASSUME Orderly, ListingInv, scan.state = "read"
    PROVE  LET D == {i \in page.view : Name[i] > scan.marker}
               s == ToList(page, scan.marker)
           IN  /\ D \in SUBSET Items
               /\ Lists(s, D) /\ AscendingNames(s)
               /\ s \in Seq(Items)
               /\ \A k \in 1 .. Len(s) : s[k] \in D
  <1> DEFINE D == {i \in page.view : Name[i] > scan.marker}
             s == ToList(page, scan.marker)
  <1>1. D \in SUBSET Items
    BY DEF ListingInv, PageInv
  <1>2. s = Sorted(D)
    BY DEF ToList
  <1> HIDE DEF D, s
  <1>3. Lists(s, D) /\ AscendingNames(s)
    BY <1>1, <1>2, SortedByName DEF Orderly
  <1>4. s \in Seq(D)
    BY <1>3 DEF Lists
  <1>5. s \in Seq(Items) /\ (\A k \in 1 .. Len(s) : s[k] \in D)
    BY <1>1, <1>4, ElementOfSeq
  <1> QED
    BY <1>1, <1>3, <1>5 DEF D, s

LEMMA PageAnswer ==
    ASSUME Orderly, ListingInv, scan.state = "read", NEW p, NEW n,
           n \in 0 .. Len(ToList(page, scan.marker)),
           PageHas(p, ToList(page, scan.marker), n, scan.max, scan.folding),
           NEW items,
           items = IF scan.lister = "sqlFilterBlobs"
                   THEN Range(p.blobItems) \cap scan.where ELSE Range(p.blobItems)
    PROVE  /\ n = Len(ToList(page, scan.marker)) => GoodAnswer(items, p.blobPrefixes, 0, 0)
           /\ n # 0 => GoodAnswer(items, p.blobPrefixes, Name[ToList(page, scan.marker)[n]], 0)
  <1> DEFINE D == {i \in page.view : Name[i] > scan.marker}
             s == ToList(page, scan.marker)
             T == scan.throughout \cap scan.where
             has(i) == IF scan.folding[i] = 0 THEN i \in items
                       ELSE scan.folding[i] \in p.blobPrefixes
  <1>1. /\ D \in SUBSET Items
        /\ Lists(s, D) /\ AscendingNames(s)
        /\ s \in Seq(Items)
        /\ \A k \in 1 .. Len(s) : s[k] \in D
    BY BlobsToList
  <1>2. Len(s) \in Nat /\ n \in Nat /\ n <= Len(s) /\ (\A k \in 1 .. n : k \in 1 .. Len(s))
    BY <1>1
  <1>3. ListingInv
    OBVIOUS
  <1>4. T \subseteq page.view /\ T \subseteq Items /\ scan.marker \in Nat
    BY <1>3, ScanFacts DEF ListingInv, PageInv
  <1>5. /\ p.blobPrefixes \in SUBSET Nat
        /\ \A k \in 1 .. n : IF scan.folding[s[k]] = 0 THEN s[k] \in Range(p.blobItems)
                             ELSE scan.folding[s[k]] \in p.blobPrefixes
        /\ \A i \in Range(p.blobItems) : \E k \in 1 .. n : s[k] = i
    BY DEF PageHas
  <1>6. \A i, m, q, id : Passed(scan.lister, m, q, id, i) <=> Name[i] <= m
    <2>1. scan.lister \in {"blobs", "sqlBlobs", "filterBlobs", "sqlFilterBlobs"}
      BY DEF ListingInv, ScanType, Delimited, Filtered
    <2> QED
      BY <2>1 DEF Passed
  <1>7. \A i \in Items : Name[i] \in Nat \ {0}
    BY ItemsAssumption
  <1>8. \A i \in page.view : i \in D <=> Name[i] > scan.marker
    OBVIOUS
  <1> HIDE DEF D, s
  <1>9. \A i \in items : i \in Range(p.blobItems)
    OBVIOUS
  <1>10. \A i \in T : i \in Range(p.blobItems) => i \in items
    OBVIOUS
  <1>11. ASSUME NEW i \in T, Name[i] <= scan.marker
         PROVE  i \notin items
    <2> SUFFICES ASSUME i \in items
                 PROVE  FALSE
      OBVIOUS
    <2>1. PICK k \in 1 .. n : s[k] = i
      BY <1>5, <1>9
    <2>2. i \in D
      BY <1>1, <1>2, <2>1
    <2> QED
      BY <1>4, <1>7, <1>8, <1>11, <2>2
  <1>12. ASSUME NEW i \in T, ~(Name[i] <= scan.marker)
         PROVE  \E k \in 1 .. Len(s) : s[k] = i /\ (k <= n => has(i))
    <2>1. i \in D
      BY <1>4, <1>7, <1>8, <1>12
    <2>2. PICK k \in 1 .. Len(s) : s[k] = i
      BY <1>1, <2>1 DEF Lists
    <2>3. k <= n => k \in 1 .. n
      BY <1>2
    <2> QED
      BY <1>5, <1>10, <2>2, <2>3
  <1>13. ASSUME n = Len(s)
         PROVE  GoodAnswer(items, p.blobPrefixes, 0, 0)
    <2>1. \A i \in T : Name[i] <= scan.marker \/ has(i)
      BY <1>2, <1>12, <1>13
    <2>2. Continues(items, p.blobPrefixes, 0, 0)
      BY <1>6, <1>11, <2>1 DEF Continues
    <2> QED
      BY <1>5, <2>2 DEF GoodAnswer, Forward
  <1>14. ASSUME n # 0
         PROVE  GoodAnswer(items, p.blobPrefixes, Name[s[n]], 0)
    <2> DEFINE m == Name[s[n]]
    <2>1. n \in 1 .. n /\ n \in 1 .. Len(s)
      BY <1>2, <1>14
    <2>2. s[n] \in D /\ s[n] \in Items /\ s[n] \in page.view
      BY <1>1, <2>1 DEF D
    <2>3. m \in Nat \ {0} /\ m > scan.marker
      BY <1>7, <1>8, <2>2
    <2> HIDE DEF m
    <2>4. \A k \in 1 .. Len(s) : Name[s[k]] \in Nat
      BY <1>1, <1>7
    <2>5. \A k \in 1 .. Len(s) : Name[s[k]] <= m <=> k <= n
      <3> SUFFICES ASSUME NEW k \in 1 .. Len(s)
                   PROVE  Name[s[k]] <= Name[s[n]] <=> k <= n
        BY DEF m
      <3>1. k < n => Name[s[k]] < Name[s[n]]
        BY <1>1, <2>1 DEF AscendingNames
      <3>2. n < k => Name[s[n]] < Name[s[k]]
        BY <1>1, <2>1 DEF AscendingNames
      <3>3. Name[s[k]] \in Nat /\ Name[s[n]] \in Nat /\ k \in Nat
        BY <2>1, <2>4
      <3> QED
        BY <1>2, <3>1, <3>2, <3>3
    <2>6. ASSUME NEW i \in T
          PROVE  /\ Name[i] <= scan.marker => Name[i] <= m
                 /\ Name[i] <= m => Name[i] <= scan.marker \/ has(i)
                 /\ ~(Name[i] <= m) => i \notin items
      <3>1. Name[i] <= scan.marker => Name[i] <= m
        BY <1>4, <1>7, <2>3
      <3>2. Name[i] <= m => Name[i] <= scan.marker \/ has(i)
        <4> SUFFICES ASSUME Name[i] <= m, ~(Name[i] <= scan.marker)
                     PROVE  has(i)
          OBVIOUS
        <4>1. PICK k \in 1 .. Len(s) : s[k] = i /\ (k <= n => has(i))
          BY <1>12
        <4> QED
          BY <2>5, <4>1
      <3>3. ~(Name[i] <= m) => i \notin items
        <4> SUFFICES ASSUME i \in items
                     PROVE  Name[i] <= m
          OBVIOUS
        <4>1. PICK k \in 1 .. n : s[k] = i
          BY <1>5, <1>9
        <4>2. k \in 1 .. Len(s) /\ k <= n
          BY <1>2
        <4> QED
          BY <2>5, <4>1, <4>2
      <3> QED
        BY <3>1, <3>2, <3>3
    <2>7. Continues(items, p.blobPrefixes, m, 0)
      BY <1>6, <1>11, <2>3, <2>6 DEF Continues
    <2> QED
      BY <1>5, <2>3, <2>7 DEF GoodAnswer, Forward, m
  <1> QED
    BY <1>13, <1>14 DEF s

\* All four read the blobs after the marker from the offset on.
LEMMA ReadsFromOffset ==
    ASSUME Orderly, ListingInv, scan.state = "read"
    PROVE  readPage(page.view, page.offset)
              = FromOffset(ToList(page, scan.marker), page.offset)
  <1> DEFINE D == {i \in page.view : Name[i] > scan.marker}
             s == ToList(page, scan.marker)
             d == FromOffset(s, page.offset)
  <1>1. scan.lister \in {"blobs", "sqlBlobs", "filterBlobs", "sqlFilterBlobs"}
    BY DEF ListingInv, ScanType, Delimited, Filtered
  <1>2. s = Sorted(D)
    BY DEF ToList
  <1>3. {i \in page.view : scan.marker # 0 => Name[i] > scan.marker} = D
    <2>1. page.view \in SUBSET Items
      BY DEF ListingInv, PageInv
    <2>2. \A i \in page.view : Name[i] \in Nat \ {0}
      BY <2>1, ItemsAssumption
    <2> QED
      BY <2>2
  <1>4. CASE scan.lister = "blobs"
    BY <1>2, <1>4 DEF readPage, ListBlobs
  <1>5. CASE scan.lister = "sqlBlobs"
    BY <1>2, <1>3, <1>5 DEF readPage, SqlListBlobs
  <1>6. CASE scan.lister = "sqlFilterBlobs"
    BY <1>2, <1>3, <1>6 DEF readPage, SqlFilterBlobs
  <1>7. CASE scan.lister = "filterBlobs"
    <2>1. scan.where = Items
      BY <1>7 DEF ListingInv, ScanType
    <2>2. readPage(page.view, page.offset) = Sorted(scan.where \cap Range(d))
      BY <1>2, <1>7 DEF readPage, FilterBlobs
    <2>3. s \in Seq(Items) /\ AscendingNames(s)
      BY BlobsToList
    <2>4. page.offset \in 0 .. Len(s) /\ scan.max \in Nat \ {0}
      BY DEF ListingInv, PageInv, ScanType
    <2> HIDE DEF s
    <2>5. /\ d \in Seq(Items)
          /\ page.offset + Len(d) <= Len(s)
          /\ \A k \in 1 .. Len(d) : d[k] = s[page.offset + k]
      BY <2>3, <2>4, ReadFrom
    <2> HIDE DEF d
    <2>6. AscendingNames(d)
      <3> SUFFICES ASSUME NEW a \in 1 .. Len(d), NEW b \in 1 .. Len(d), a < b
                   PROVE  Name[d[a]] < Name[d[b]]
        BY DEF AscendingNames
      <3> DEFINE o == page.offset
                 m == Len(d)
                 l == Len(s)
      <3>1. o \in Nat /\ m \in Nat /\ l \in Nat /\ o + m <= l /\ a \in 1 .. m /\ b \in 1 .. m
        BY <2>3, <2>4, <2>5
      <3>2. o + a \in 1 .. l /\ o + b \in 1 .. l /\ o + a < o + b
        <4> HIDE DEF o, m, l
        <4> QED
          BY <3>1
      <3> QED
        BY <2>3, <2>5, <3>2 DEF AscendingNames
    <2>7. Range(d) \subseteq Items
      <3>1. DOMAIN d = 1 .. Len(d)
        BY <2>5
      <3> QED
        BY <2>5, <3>1, ElementOfSeq DEF Range
    <2>8. scan.where \cap Range(d) = Range(d)
      BY <2>1, <2>7
    <2> QED
      BY <2>2, <2>5, <2>6, <2>8, SortedAlready DEF Orderly, d, s
  <1> QED
    BY <1>1, <1>4, <1>5, <1>6, <1>7

\* A round: an answer that goes on where the page ends, or a fuller page.
GoodRound(docs, p, items) ==
    /\ docs = <<>> \/ p.added < scan.max =>
          GoodAnswer(items, p.blobPrefixes,
                     IF docs # <<>> /\ p.added < Len(docs) THEN p.latestMarker ELSE 0, 0)
    /\ ~(docs = <<>> \/ p.added < scan.max) =>
          LET q == [p EXCEPT !.offset = @ + p.added]
          IN  /\ PageType(q) /\ q.view = page.view
              /\ q.offset \in 0 .. Len(ToList(q, scan.marker))
              /\ PageHas(q, ToList(q, scan.marker), q.offset, scan.max, scan.folding)

LEMMA RoundAnswer ==
    ASSUME Orderly, ListingInv, scan.state = "read", NEW docs, NEW p, NEW items,
           docs = readPage(page.view, page.offset),
           p = processList(page, docs),
           items = IF scan.lister = "sqlFilterBlobs"
                   THEN Range(p.blobItems) \cap scan.where ELSE Range(p.blobItems)
    PROVE  GoodRound(docs, p, items)
  <1> DEFINE s == ToList(page, scan.marker)
             off == page.offset
             n == off + p.added
             max == scan.max
  <1>1. ListingInv /\ ScanType(scan) /\ s \in Seq(Items)
    BY BlobsToList DEF ListingInv
  <1>2. /\ off \in 0 .. Len(s) /\ max \in Nat \ {0} /\ PageType(page)
        /\ PageHas(page, s, off, max, scan.folding)
    BY DEF ListingInv, PageInv, ScanType
  <1>3. docs = FromOffset(s, off)
    BY ReadsFromOffset
  <1>4. /\ docs \in Seq(Items)
        /\ Len(docs) = IF max < Len(s) - off THEN max ELSE Len(s) - off
        /\ off + Len(docs) <= Len(s)
        /\ \A k \in 1 .. Len(docs) : docs[k] = s[off + k]
    <2> HIDE DEF s, off
    <2> QED
      BY <1>1, <1>2, <1>3, ReadFrom
  <1>5. FilledPage(page, p, s, Len(docs), max, scan.folding)
    <2>1. scan.lister \notin Delimited => \A i \in Items : scan.folding[i] = 0
      BY <1>1, ScanFacts
    <2>2. PICK F : /\ F[0] = [page EXCEPT !.added = 0]
                   /\ \A k \in 1 .. Len(docs) : F[k] = add(F[k - 1], docs[k])
                   /\ F[Len(docs)] = p
      BY <1>4, <2>1, ProcessListFills
    <2>3. off \in Nat
      BY <1>1, <1>2
    <2>4. PartOf(docs, s, page.offset) /\ Adds(F, page, docs)
      BY <1>4, <2>2, <2>3 DEF PartOf, Adds
    <2> HIDE DEF s
    <2> QED
      BY <1>1, <1>2, <1>4, <2>2, <2>4, FillPage
  <1>6. /\ PageType(p) /\ p.offset = off /\ p.view = page.view
        /\ p.added \in 0 .. Len(docs)
        /\ p.added = Len(docs) \/ p.isExhausted
        /\ PageHas(p, s, n, max, scan.folding)
    BY <1>5 DEF FilledPage
  <1>7. /\ p.latestMarker = IF n = 0 THEN 0 ELSE Name[s[n]]
        /\ n = 0 => ~p.isExhausted
    BY <1>6 DEF PageHas
  <1> DEFINE a == p.added
             L == Len(docs)
             M == Len(s)
  <1>8. /\ off \in Nat /\ a \in Nat /\ L \in Nat /\ M \in Nat /\ max \in Nat \ {0}
        /\ off + L <= M /\ a <= L /\ n = off + a
        /\ L = (IF max < M - off THEN max ELSE M - off)
    BY <1>1, <1>2, <1>4, <1>6
  <1>9. docs = <<>> <=> L = 0
    BY <1>4
  <1>10. n \in 0 .. M
    <2> HIDE DEF off, n, max, a, L, M
    <2> QED
      BY <1>8
  <1>11. /\ n = M => GoodAnswer(items, p.blobPrefixes, 0, 0)
         /\ n # 0 => GoodAnswer(items, p.blobPrefixes, Name[s[n]], 0)
    <2> HIDE DEF n
    <2> QED
      BY <1>6, <1>10, PageAnswer
  <1>12. CASE (docs = <<>> \/ a < max) /\ (docs # <<>> /\ a < L)
    <2>1. p.isExhausted
      <3>1. a # L
        BY <1>8, <1>12
      <3> QED
        BY <1>6, <3>1, Zenon
    <2>2. n # 0
      BY <1>7, <2>1, Zenon
    <2>3. GoodAnswer(items, p.blobPrefixes, p.latestMarker, 0)
      BY <1>7, <1>11, <2>2
    <2> QED
      BY <1>12, <2>3 DEF GoodRound
  <1>13. CASE (docs = <<>> \/ a < max) /\ ~(docs # <<>> /\ a < L)
    <2>1. n = M
      <3>1. L = 0 \/ a < max
        BY <1>9, <1>13
      <3>2. L = 0 \/ ~(a < L)
        BY <1>9, <1>13
      <3> HIDE DEF off, n, max, a, L, M
      <3> QED
        BY <1>8, <3>1, <3>2
    <2> QED
      BY <1>11, <1>13, <2>1 DEF GoodRound
  <1>14. CASE ~(docs = <<>> \/ a < max)
    <2> DEFINE q == [p EXCEPT !.offset = @ + p.added]
    <2>1. q = [blobItems |-> p.blobItems, blobPrefixes |-> p.blobPrefixes,
               latestMarker |-> p.latestMarker, isFull |-> p.isFull,
               isExhausted |-> p.isExhausted, offset |-> n,
               added |-> p.added, view |-> p.view]
      BY <1>6 DEF PageType
    <2> HIDE DEF q
    <2>2. PageType(q) /\ q.view = page.view /\ q.offset = n
      BY <1>6, <2>1 DEF PageType
    <2>3. ToList(q, scan.marker) = s
      BY <2>2 DEF ToList
    <2>4. PageHas(q, s, n, max, scan.folding)
      BY <1>6, <2>1 DEF PageHas
    <2> HIDE DEF n
    <2> QED
      BY <1>10, <1>14, <2>2, <2>3, <2>4 DEF GoodRound, q
  <1> QED
    BY <1>12, <1>13, <1>14

----------------------------------------------------------------------------
(* The steps.                                                              *)

\* MarkersAdvance of one step.
Advance ==
    (scan.state # "none" /\ scan'.state = "ask") =>
        \/ scan'.marker > scan.marker
        \/ scan'.marker = scan.marker /\ scan'.rowMarker > scan.rowMarker

LEMMA AnswerAdvances ==
    ASSUME ListingInv, NEW items, NEW prefixes, NEW m, NEW r,
           GoodAnswer(items, prefixes, m, r),
           Answer(items, prefixes, m, r)
    PROVE  Advance
  <1>1. /\ scan'.marker = m /\ scan'.rowMarker = r
        /\ scan'.state = IF m = 0 THEN "done" ELSE "ask"
    BY DEF Answer, ListingInv, ScanType
  <1>2. Forward(m, r)
    BY DEF GoodAnswer
  <1> QED
    BY <1>1, <1>2 DEF Advance, Forward

\* What a step does to a listing.
Keeps == ListingInv' /\ (Advance \/ UNCHANGED <<scan.state, scan.marker, scan.rowMarker, scan.listed>>)

LEMMA Refused ==
    ASSUME ListingInv, scan.state \in {"ask", "read"},
           scan' = [scan EXCEPT !.state = "refused"], UNCHANGED <<ids, created>>
    PROVE  Keeps
  <1>1. scan \in [state : {"none", "ask", "read", "done", "refused"},
               lister : Listers, asked : {Unlimited} \cup 1 .. (Limit + 1),
               max : Nat \ {0}, folding : Foldings, where : SUBSET Items,
               marker : Nat, rowMarker : Nat, listed : [Items -> 0 .. 2],
               prefixes : SUBSET Nat, throughout : SUBSET Items]
    BY DEF ListingInv, ScanType
  <1>2. /\ scan'.state = "refused" /\ scan'.lister = scan.lister
        /\ scan'.throughout = scan.throughout
    BY <1>1
  <1>3. ScanType(scan')
    BY DEF ListingInv, ScanType
  <1>4. StoreInv'
    BY <1>2 DEF ListingInv, StoreInv, Present
  <1>5. Progress' /\ PageInv' /\ ListedExactlyOnce'
    BY <1>2 DEF Progress, PageInv, ListedExactlyOnce
  <1>6. Advance
    BY <1>2 DEF Advance
  <1> QED
    BY <1>3, <1>4, <1>5, <1>6 DEF ListingInv, Keeps

LEMMA AnswerKeeps ==
    ASSUME ListingInv, scan.state \in {"ask", "read"},
           NEW items, NEW prefixes, NEW m, NEW r,
           GoodAnswer(items, prefixes, m, r),
           Answer(items, prefixes, m, r)
    PROVE  Keeps
  BY AnswerStep, AnswerAdvances DEF Keeps

LEMMA ListContainersSegmentKeeps ==
    ASSUME Orderly, ListingInv, ListContainersSegment
    PROVE  Keeps
  <1> DEFINE n == ContainerResults(scan.asked)
  <1>1. n \in Nat \ {0} /\ scan.state \in {"ask", "read"} /\ ListingInv
    BY PagesHaveRoom DEF ListingInv, ListContainersSegment
  <1> HIDE DEF n
  <1>2. CASE scan.lister = "containers"
    <2> DEFINE r == ListContainers(scan.marker, n)
    <2>1. Answer(Range(r.items), {}, r.marker, 0)
      BY <1>2 DEF ListContainersSegment, n
    <2>2. GoodAnswer(Range(r.items), {}, r.marker, 0)
      BY <1>1, <1>2, ListContainersAnswer
    <2> HIDE DEF r
    <2> QED
      BY <1>1, <2>1, <2>2, AnswerKeeps
  <1>3. CASE scan.lister = "sqlContainers"
    <2> DEFINE r == SqlListContainers(scan.marker, n)
    <2>1. Answer(Range(r.items), {}, r.marker, 0)
      BY <1>3 DEF ListContainersSegment, n
    <2>2. GoodAnswer(Range(r.items), {}, r.marker, 0)
      BY <1>1, <1>3, SqlListContainersAnswer
    <2> HIDE DEF r
    <2> QED
      BY <1>1, <2>1, <2>2, AnswerKeeps
  <1> QED
    BY <1>2, <1>3 DEF ListContainersSegment

LEMMA ListQueuesSegmentKeeps ==
    ASSUME Orderly, ListingInv, ListQueuesSegment
    PROVE  Keeps
  <1> DEFINE n == QueueResults(scan.asked)
             r == ListQueues(scan.marker, n)
  <1>1. n \in Nat \ {0} /\ scan.state \in {"ask", "read"} /\ scan.lister = "queues" /\ ListingInv
    BY PagesHaveRoom DEF ListingInv, ListQueuesSegment
  <1>2. CASE QueueResultsInRange(scan.asked)
    <2>1. Answer(Range(r.items), {}, r.marker, 0)
      BY <1>2 DEF ListQueuesSegment
    <2> HIDE DEF n
    <2>2. GoodAnswer(Range(r.items), {}, r.marker, 0)
      BY <1>1, ListQueuesAnswer
    <2> HIDE DEF r
    <2> QED
      BY <1>1, <2>1, <2>2, AnswerKeeps
  <1>3. CASE ~QueueResultsInRange(scan.asked)
    <2>1. scan' = [scan EXCEPT !.state = "refused"] /\ UNCHANGED <<ids, created>>
      BY <1>3 DEF ListQueuesSegment
    <2> QED
      BY <1>1, <2>1, Refused
  <1> QED
    BY <1>2, <1>3

LEMMA QueryTablesKeeps ==
    ASSUME Orderly, ListingInv, QueryTables
    PROVE  Keeps
  <1> DEFINE n == TableResults(scan.asked)
             r == QueryTable(scan.marker, n)
  <1>1. n \in Nat \ {0} /\ scan.state \in {"ask", "read"} /\ scan.lister = "tables" /\ ListingInv
    BY PagesHaveRoom DEF ListingInv, QueryTables
  <1>2. Answer(Range(r.items), {}, r.marker, 0)
    BY DEF QueryTables
  <1> HIDE DEF n
  <1>3. GoodAnswer(Range(r.items), {}, r.marker, 0)
    BY <1>1, QueryTableAnswer
  <1> HIDE DEF r
  <1> QED
    BY <1>1, <1>2, <1>3, AnswerKeeps

LEMMA QueryEntitiesKeeps ==
    ASSUME Orderly, ListingInv, QueryEntities
    PROVE  Keeps
  <1> DEFINE n == EntityResults(scan.asked)
             r == QueryTableEntities(scan.marker, scan.rowMarker, n)
  <1>1. n \in Nat \ {0} /\ scan.state \in {"ask", "read"} /\ scan.lister = "entities" /\ ListingInv
    BY PagesHaveRoom DEF ListingInv, QueryEntities
  <1>2. Answer(Range(r.items), {}, r.marker, r.rowMarker)
    BY DEF QueryEntities
  <1> HIDE DEF n
  <1>3. GoodAnswer(Range(r.items), {}, r.marker, r.rowMarker)
    BY <1>1, QueryTableEntitiesAnswer
  <1> HIDE DEF r
  <1> QED
    BY <1>1, <1>2, <1>3, AnswerKeeps

LEMMA StartPageKeeps ==
    ASSUME Orderly, ListingInv, scan.state = "ask",
           scan.lister \in Delimited \cup Filtered, StartPage
    PROVE  Keeps
  <1>1. /\ scan \in [state : {"none", "ask", "read", "done", "refused"},
               lister : Listers, asked : {Unlimited} \cup 1 .. (Limit + 1),
               max : Nat \ {0}, folding : Foldings, where : SUBSET Items,
               marker : Nat, rowMarker : Nat, listed : [Items -> 0 .. 2],
               prefixes : SUBSET Nat, throughout : SUBSET Items]
        /\ scan.lister \notin Delimited => scan.folding = Flat
        /\ scan.lister # "sqlFilterBlobs" => scan.where = Items
    BY DEF ListingInv, ScanType
  <1>2. BlobResults(scan.asked) \in Nat \ {0}
    BY PagesHaveRoom DEF ListingInv
  <1>3. /\ scan' = [scan EXCEPT !.state = "read", !.max = BlobResults(scan.asked)]
        /\ page' = EmptyPage(Present)
        /\ ids' = ids /\ created' = created
    BY DEF StartPage
  <1>4. /\ scan'.state = "read" /\ scan'.lister = scan.lister
        /\ scan'.throughout = scan.throughout /\ scan'.where = scan.where
        /\ scan'.marker = scan.marker /\ scan'.rowMarker = scan.rowMarker
        /\ scan'.listed = scan.listed /\ scan'.prefixes = scan.prefixes
        /\ scan'.folding = scan.folding
    BY <1>1, <1>3
  <1>5. ScanType(scan')
    <2>1. scan' \in [state : {"none", "ask", "read", "done", "refused"},
               lister : Listers, asked : {Unlimited} \cup 1 .. (Limit + 1),
               max : Nat \ {0}, folding : Foldings, where : SUBSET Items,
               marker : Nat, rowMarker : Nat, listed : [Items -> 0 .. 2],
               prefixes : SUBSET Nat, throughout : SUBSET Items]
      BY <1>1, <1>2, <1>3
    <2> QED
      BY <1>1, <1>4, <2>1 DEF ScanType
  <1>6. StoreInv'
    BY <1>3, <1>4 DEF ListingInv, StoreInv, Present
  <1>7. Progress'
    BY <1>3, <1>4 DEF ListingInv, Progress, Told
  <1>8. ListedExactlyOnce'
    BY <1>4 DEF ListedExactlyOnce
  <1>9. PageInv'
    <2> DEFINE p == EmptyPage(Present)
               s == ToList(p, scan.marker)
               D == {i \in Present : Name[i] > scan.marker}
    <2>1. p = [blobItems |-> <<>>, blobPrefixes |-> {}, latestMarker |-> 0,
               isFull |-> FALSE, isExhausted |-> FALSE, offset |-> 0, added |-> 0,
               view |-> Present]
      BY DEF EmptyPage
    <2>2. Present \in SUBSET Items /\ scan.throughout \subseteq Present
      BY DEF ListingInv, StoreInv, Present
    <2>3. s = Sorted(D) /\ D \in SUBSET Items
      BY <2>1, <2>2 DEF ToList
    <2> HIDE DEF p, s, D
    <2>4. 0 \in 0 .. Len(s)
      <3>1. s \in Seq(D)
        BY <2>3, SortedByName DEF Orderly, Lists
      <3> QED
        BY <3>1
    <2>5. p.blobItems = <<>> /\ Range(p.blobItems) = {}
      BY <2>1 DEF Range
    <2>6. PageHas(p, s, 0, scan'.max, scan.folding)
      BY <2>1, <2>5 DEF PageHas
    <2>7. PageType(p) /\ p.view = Present /\ p.offset = 0
      BY <2>1 DEF PageType
    <2>8. page' = p /\ ToList(page', scan'.marker) = s
      BY <1>3, <1>4 DEF p, s
    <2> QED
      BY <1>4, <2>2, <2>4, <2>6, <2>7, <2>8 DEF PageInv
  <1>10. Advance
    BY <1>4 DEF Advance
  <1> QED
    BY <1>5, <1>6, <1>7, <1>8, <1>9, <1>10 DEF ListingInv, Keeps

LEMMA FillKeeps ==
    ASSUME Orderly, ListingInv, Fill
    PROVE  Keeps
  <1> DEFINE docs == readPage(page.view, page.offset)
             p == processList(page, docs)
             items == IF scan.lister = "sqlFilterBlobs"
                      THEN Range(p.blobItems) \cap scan.where ELSE Range(p.blobItems)
             m == IF docs # <<>> /\ p.added < Len(docs) THEN p.latestMarker ELSE 0
             q == [p EXCEPT !.offset = @ + p.added]
             view == IF scan.lister \in {"sqlBlobs", "sqlFilterBlobs"} /\ ~Isolated
                     THEN Present ELSE page.view
  <1>1. scan.state = "read" /\ ListingInv
    BY DEF Fill
  <1>2. view = page.view
    <2>1. scan.lister \in Listers
      BY DEF ListingInv, ScanType
    <2> QED
      BY <2>1 DEF Orderly
  <1>3. \/ scan' = [scan EXCEPT !.state = "refused"] /\ UNCHANGED <<ids, created>>
        \/ (docs = <<>> \/ p.added < scan.max) /\ Answer(items, p.blobPrefixes, m, 0)
        \/ ~(docs = <<>> \/ p.added < scan.max) /\ page' = q /\ UNCHANGED <<ids, created, scan>>
    <2> HIDE DEF docs, p
    <2>1. docs = readPage(view, page.offset) /\ p = processList(page, docs)
      BY <1>2 DEF docs, p
    <2> HIDE DEF view
    <2> QED
      BY <2>1 DEF Fill, view
  <1> HIDE DEF docs
  <1>4. docs = readPage(page.view, page.offset)
    BY DEF docs
  <1>5. GoodRound(docs, p, items)
    <2> HIDE DEF p
    <2>1. p = processList(page, docs)
      BY DEF p
    <2> HIDE DEF items
    <2>2. items = IF scan.lister = "sqlFilterBlobs"
                  THEN Range(p.blobItems) \cap scan.where ELSE Range(p.blobItems)
      BY DEF items
    <2> QED
      BY <1>1, <1>4, <2>1, <2>2, RoundAnswer
  <1>6. /\ docs = <<>> \/ p.added < scan.max => GoodAnswer(items, p.blobPrefixes, m, 0)
        /\ ~(docs = <<>> \/ p.added < scan.max) =>
              /\ PageType(q) /\ q.view = page.view
              /\ q.offset \in 0 .. Len(ToList(q, scan.marker))
              /\ PageHas(q, ToList(q, scan.marker), q.offset, scan.max, scan.folding)
    <2> HIDE DEF p, items
    <2> QED
      BY <1>5 DEF GoodRound
  <1> HIDE DEF p, items, m, q
  <1>7. CASE scan' = [scan EXCEPT !.state = "refused"] /\ UNCHANGED <<ids, created>>
    BY <1>1, <1>7, Refused
  <1>8. CASE (docs = <<>> \/ p.added < scan.max) /\ Answer(items, p.blobPrefixes, m, 0)
    <2>1. GoodAnswer(items, p.blobPrefixes, m, 0)
      BY <1>6, <1>8
    <2>2. scan.state \in {"ask", "read"}
      BY <1>1
    <2> QED
      BY <1>8, <2>1, <2>2, AnswerKeeps
  <1>9. CASE ~(docs = <<>> \/ p.added < scan.max) /\ page' = q /\ UNCHANGED <<ids, created, scan>>
    <2>1. /\ PageType(q) /\ q.view = page.view
          /\ q.offset \in 0 .. Len(ToList(q, scan.marker))
          /\ PageHas(q, ToList(q, scan.marker), q.offset, scan.max, scan.folding)
      BY <1>6, <1>9
    <2>2. PageInv'
      BY <1>9, <2>1 DEF ListingInv, PageInv
    <2>3. ScanType(scan') /\ StoreInv' /\ Progress' /\ ListedExactlyOnce'
      BY <1>9 DEF ListingInv, StoreInv, Present, Progress, ListedExactlyOnce
    <2> QED
      BY <1>9, <2>2, <2>3 DEF ListingInv, Keeps
  <1> QED
    BY <1>3, <1>7, <1>8, <1>9

LEMMA StartScanKeeps ==
    ASSUME Orderly, ListingInv, StartScan
    PROVE  Keeps
  <1>1. /\ scan \in [state : {"none", "ask", "read", "done", "refused"},
               lister : Listers, asked : {Unlimited} \cup 1 .. (Limit + 1),
               max : Nat \ {0}, folding : Foldings, where : SUBSET Items,
               marker : Nat, rowMarker : Nat, listed : [Items -> 0 .. 2],
               prefixes : SUBSET Nat, throughout : SUBSET Items]
        /\ scan.lister \notin Delimited => scan.folding = Flat
        /\ scan.lister # "sqlFilterBlobs" => scan.where = Items
        /\ scan.marker = 0 /\ scan.rowMarker = 0 /\ scan.listed = Zero /\ scan.throughout = {}
        /\ scan.state = "none"
    BY DEF ListingInv, ScanType, StartScan
  <1>2. Present \in SUBSET Items
    BY DEF Present
  <1>3. /\ scan' = [scan EXCEPT !.state = "ask", !.throughout = Present]
        /\ ids' = ids /\ created' = created /\ page' = page
    BY DEF StartScan
  <1>4. /\ scan'.state = "ask" /\ scan'.throughout = Present /\ scan'.where = scan.where
        /\ scan'.lister = scan.lister /\ scan'.folding = scan.folding
        /\ scan'.marker = 0 /\ scan'.rowMarker = 0 /\ scan'.listed = Zero
    BY <1>1, <1>3
  <1>5. ScanType(scan')
    <2>1. scan' \in [state : {"none", "ask", "read", "done", "refused"},
               lister : Listers, asked : {Unlimited} \cup 1 .. (Limit + 1),
               max : Nat \ {0}, folding : Foldings, where : SUBSET Items,
               marker : Nat, rowMarker : Nat, listed : [Items -> 0 .. 2],
               prefixes : SUBSET Nat, throughout : SUBSET Items]
      BY <1>1, <1>2, <1>3
    <2> QED
      BY <1>1, <1>4, <2>1 DEF ScanType
  <1>6. StoreInv'
    BY <1>3, <1>4 DEF ListingInv, StoreInv, Present
  <1>7. Progress'
    <2> SUFFICES ASSUME NEW i \in Present \cap scan.where
                 PROVE  ~Passed(scan.lister, 0, 0, ids[i], i) /\ scan'.listed[i] = 0
      BY <1>3, <1>4 DEF Progress
    <2>1. i \in Items /\ ids[i] \in Nat /\ ids[i] > 0
      BY DEF ListingInv, StoreInv, Present
    <2>2. Name[i] \in Nat \ {0} /\ Key[i][1] \in Nat \ {0}
      BY <2>1, ItemsAssumption
    <2>3. ~Passed(scan.lister, 0, 0, ids[i], i)
      BY <2>1, <2>2 DEF Passed
    <2> QED
      BY <1>4, <2>1, <2>3 DEF Zero
  <1>8. ListedExactlyOnce' /\ PageInv' /\ Advance
    BY <1>1, <1>4 DEF ListedExactlyOnce, PageInv, Advance
  <1> QED
    BY <1>5, <1>6, <1>7, <1>8 DEF ListingInv, Keeps

LEMMA CreateItemKeeps ==
    ASSUME Orderly, ListingInv, NEW i \in Items, CreateItem(i)
    PROVE  Keeps
  <1>1. /\ ids[i] = 0 /\ scan' = scan /\ page' = page
        /\ created' = IF scan.lister = "queues" THEN created + 1 ELSE created
        /\ ids' = [ids EXCEPT ![i] = IF scan.lister = "queues" THEN created' ELSE 1]
        /\ scan.lister = "queues" /\ InOrder => \A j \in Present : NameBefore(j, i)
    BY DEF CreateItem
  <1>2. ids \in [Items -> Nat] /\ created \in Nat /\ scan.throughout \subseteq Present
    BY DEF ListingInv, StoreInv
  <1>3. ids' \in [Items -> Nat] /\ created' \in Nat /\ ids'[i] \in Nat \ {0}
    BY <1>1, <1>2
  <1>4. i \notin Present /\ (\A j \in Items \ {i} : ids'[j] = ids[j])
    BY <1>1, <1>2 DEF Present
  <1>5. Present' = Present \cup {i}
    BY <1>1, <1>2, <1>3, <1>4 DEF Present
  <1>6. \A j \in scan.throughout : ids'[j] = ids[j]
    BY <1>2, <1>4 DEF Present
  <1>7. StoreInv'
    <2>1. CASE scan.lister # "queues"
      BY <1>1, <1>2, <1>3, <1>5, <2>1 DEF StoreInv
    <2>2. CASE scan.lister = "queues"
      <3>1. /\ \A j \in Items : ids[j] <= created
            /\ \A j, k \in Present : Name[j] < Name[k] => ids[j] < ids[k]
        BY <2>2 DEF ListingInv, StoreInv
      <3>2. \A j \in Present : NameBefore(j, i)
        <4>1. scan.lister \in Listers
          BY DEF ListingInv, ScanType
        <4> QED
          BY <1>1, <2>2, <4>1 DEF Orderly
      <3>3. \A j \in Items : Name[j] \in Nat /\ j \in Int
        BY ItemsAssumption
      <3>4. \A j \in Present : Name[j] < Name[i]
        BY <1>4, <3>2, <3>3 DEF NameBefore, Orderly, DistinctNames, Present
      <3>5. created' = created + 1 /\ ids'[i] = created + 1
        BY <1>1, <1>2, <2>2
      <3>6. \A j \in Items : ids'[j] <= created'
        BY <1>2, <1>4, <3>1, <3>5
      <3>7. \A j \in Present : j \in Items /\ j # i /\ ids'[j] = ids[j] /\ ids[j] \in Nat /\ ids[j] <= created
        BY <1>2, <1>4, <3>1 DEF Present
      <3>8. \A j, k \in Present' : Name[j] < Name[k] => ids'[j] < ids'[k]
        BY <1>2, <1>5, <3>1, <3>3, <3>4, <3>5, <3>7
      <3> QED
        BY <1>1, <1>2, <1>3, <1>5, <3>6, <3>8 DEF StoreInv
    <2> QED
      BY <2>1, <2>2
  <1>8. Progress'
    <2> SUFFICES ASSUME scan.state \in {"ask", "read"}, NEW j \in scan.throughout \cap scan.where
                 PROVE  IF Passed(scan.lister, scan.marker, scan.rowMarker, ids'[j], j)
                        THEN Told(scan, j) ELSE scan.listed[j] = 0
      BY <1>1 DEF Progress
    <2>1. ids'[j] = ids[j]
      BY <1>6
    <2> QED
      BY <2>1 DEF ListingInv, Progress
  <1>9. ScanType(scan') /\ PageInv' /\ ListedExactlyOnce'
    BY <1>1 DEF ListingInv, PageInv, ListedExactlyOnce
  <1> QED
    BY <1>1, <1>7, <1>8, <1>9 DEF ListingInv, Keeps

LEMMA DeleteItemKeeps ==
    ASSUME Orderly, ListingInv, NEW i \in Items, DeleteItem(i)
    PROVE  Keeps
  <1> DEFINE R == scan.throughout \ {i}
  <1>1. /\ scan \in [state : {"none", "ask", "read", "done", "refused"},
               lister : Listers, asked : {Unlimited} \cup 1 .. (Limit + 1),
               max : Nat \ {0}, folding : Foldings, where : SUBSET Items,
               marker : Nat, rowMarker : Nat, listed : [Items -> 0 .. 2],
               prefixes : SUBSET Nat, throughout : SUBSET Items]
        /\ scan.lister \notin Delimited => scan.folding = Flat
        /\ scan.lister # "sqlFilterBlobs" => scan.where = Items
        /\ scan.state = "read" => scan.lister \in Delimited \cup Filtered
        /\ scan.state = "none" => /\ scan.marker = 0 /\ scan.rowMarker = 0
                                  /\ scan.listed = Zero /\ scan.throughout = {}
    BY DEF ListingInv, ScanType
  <1>2. /\ scan' = [scan EXCEPT !.throughout = R]
        /\ ids' = [ids EXCEPT ![i] = 0] /\ created' = created /\ page' = page
    BY DEF DeleteItem
  <1>3. /\ scan'.throughout = R
        /\ scan'.state = scan.state /\ scan'.lister = scan.lister /\ scan'.where = scan.where
        /\ scan'.folding = scan.folding /\ scan'.marker = scan.marker
        /\ scan'.rowMarker = scan.rowMarker /\ scan'.listed = scan.listed
        /\ scan'.prefixes = scan.prefixes /\ scan'.max = scan.max
    BY <1>1, <1>2
  <1>4. ScanType(scan')
    <2>1. scan' \in [state : {"none", "ask", "read", "done", "refused"},
               lister : Listers, asked : {Unlimited} \cup 1 .. (Limit + 1),
               max : Nat \ {0}, folding : Foldings, where : SUBSET Items,
               marker : Nat, rowMarker : Nat, listed : [Items -> 0 .. 2],
               prefixes : SUBSET Nat, throughout : SUBSET Items]
      BY <1>1, <1>2
    <2> QED
      BY <1>1, <1>3, <2>1 DEF ScanType
  <1>5. /\ ids \in [Items -> Nat] /\ created \in Nat /\ scan.throughout \subseteq Present
        /\ scan.lister = "queues" =>
              /\ \A j \in Items : ids[j] <= created
              /\ \A j, k \in Present : Name[j] < Name[k] => ids[j] < ids[k]
    BY DEF ListingInv, StoreInv
  <1>6. ids' \in [Items -> Nat] /\ ids'[i] = 0 /\ (\A j \in Items \ {i} : ids'[j] = ids[j])
    BY <1>2, <1>5
  <1>7. Present' = Present \ {i}
    BY <1>5, <1>6 DEF Present
  <1>8. \A j \in Present \ {i} : ids'[j] = ids[j]
    BY <1>6 DEF Present
  <1> HIDE DEF R
  <1>9. R \subseteq scan.throughout /\ i \notin R
    BY DEF R
  <1>10. StoreInv'
    <2>1. scan'.throughout \subseteq Present'
      BY <1>3, <1>5, <1>7, <1>9
    <2>2. scan.lister = "queues" => \A j \in Items : ids'[j] <= created'
      BY <1>2, <1>5, <1>6
    <2>3. scan.lister = "queues" => \A j, k \in Present' : Name[j] < Name[k] => ids'[j] < ids'[k]
      BY <1>5, <1>7, <1>8
    <2> QED
      BY <1>2, <1>3, <1>5, <1>6, <2>1, <2>2, <2>3 DEF StoreInv
  <1>11. Progress'
    <2> SUFFICES ASSUME scan.state \in {"ask", "read"}, NEW j \in R \cap scan.where
                 PROVE  IF Passed(scan.lister, scan.marker, scan.rowMarker, ids'[j], j)
                        THEN Told(scan', j) ELSE scan.listed[j] = 0
      BY <1>3 DEF Progress
    <2>1. ids'[j] = ids[j]
      BY <1>5, <1>8, <1>9
    <2>2. IF Passed(scan.lister, scan.marker, scan.rowMarker, ids[j], j)
          THEN Told(scan, j) ELSE scan.listed[j] = 0
      BY <1>9 DEF ListingInv, Progress
    <2>3. Told(scan', j) <=> Told(scan, j)
      BY <1>3 DEF Told
    <2> QED
      BY <2>1, <2>2, <2>3
  <1>12. PageInv'
    BY <1>2, <1>3, <1>9 DEF ListingInv, PageInv
  <1>13. ListedExactlyOnce'
    BY <1>3, <1>9 DEF ListingInv, ListedExactlyOnce
  <1> QED
    BY <1>3, <1>4, <1>10, <1>11, <1>12, <1>13 DEF ListingInv, Keeps

LEMMA ListingInit ==
    ASSUME Orderly, Init
    PROVE  ListingInv
  <1>1. PICK l \in Listers, n \in {Unlimited} \cup 1 .. (Limit + 1) :
           \E f \in Foldings, w \in Wheres :
              /\ f # Flat => l \in {"blobs", "sqlBlobs"}
              /\ w # Items => \/ l = "sqlFilterBlobs"
                              \/ l = "filterBlobs" /\ ~AllMatch
              /\ scan = Scan(l, n, f, w)
    BY DEF Init
  <1>2. PICK f \in Foldings, w \in Wheres :
              /\ f # Flat => l \in {"blobs", "sqlBlobs"}
              /\ w # Items => \/ l = "sqlFilterBlobs"
                              \/ l = "filterBlobs" /\ ~AllMatch
              /\ scan = Scan(l, n, f, w)
    BY <1>1
  <1>3. w \in SUBSET Items /\ Limit \in Nat \ {0}
    BY ItemsAssumption, LimitAssumption
  <1>4. scan = [state |-> "none", lister |-> l, asked |-> n, max |-> Limit,
                folding |-> f, where |-> w, marker |-> 0, rowMarker |-> 0,
                listed |-> [i \in Items |-> 0], prefixes |-> {}, throughout |-> {}]
    BY <1>2 DEF Scan
  <1>5. [i \in Items |-> 0] \in [Items -> 0 .. 2]
    OBVIOUS
  <1>6. scan \in [state : {"none", "ask", "read", "done", "refused"},
               lister : Listers, asked : {Unlimited} \cup 1 .. (Limit + 1),
               max : Nat \ {0}, folding : Foldings, where : SUBSET Items,
               marker : Nat, rowMarker : Nat, listed : [Items -> 0 .. 2],
               prefixes : SUBSET Nat, throughout : SUBSET Items]
    BY <1>3, <1>4, <1>5
  <1>7. ScanType(scan)
    BY <1>2, <1>4, <1>6 DEF ScanType, Orderly, Delimited, Zero
  <1>8. StoreInv
    BY <1>4 DEF Init, StoreInv, Present
  <1>9. Progress /\ PageInv /\ ListedExactlyOnce
    BY <1>4 DEF Progress, PageInv, ListedExactlyOnce
  <1> QED
    BY <1>7, <1>8, <1>9 DEF ListingInv

LEMMA ListingStep ==
    ASSUME Orderly, ListingInv, [Next]_vars
    PROVE  Keeps
  <1>1. CASE StartScan
    BY <1>1, StartScanKeeps
  <1>2. CASE ListContainersSegment
    BY <1>2, ListContainersSegmentKeeps
  <1>3. CASE ListQueuesSegment
    BY <1>3, ListQueuesSegmentKeeps
  <1>4. CASE QueryTables
    BY <1>4, QueryTablesKeeps
  <1>5. CASE QueryEntities
    BY <1>5, QueryEntitiesKeeps
  <1>6. CASE ListBlobFlatSegment \/ ListBlobHierarchySegment \/ FilterBlobsSegment
    <2>1. scan.state = "ask" /\ scan.lister \in Delimited \cup Filtered /\ StartPage
      BY <1>6 DEF ListBlobFlatSegment, ListBlobHierarchySegment, FilterBlobsSegment, Delimited, Filtered
    <2> QED
      BY <2>1, StartPageKeeps
  <1>7. CASE Fill
    BY <1>7, FillKeeps
  <1>8. CASE \E i \in Items : CreateItem(i) \/ DeleteItem(i)
    BY <1>8, CreateItemKeeps, DeleteItemKeeps
  <1>9. CASE UNCHANGED vars
    <2>1. ids' = ids /\ created' = created /\ scan' = scan /\ page' = page
      BY <1>9 DEF vars
    <2> QED
      BY <2>1 DEF ListingInv, StoreInv, Present, Progress, PageInv, ListedExactlyOnce, Keeps
  <1> QED
    BY <1>1, <1>2, <1>3, <1>4, <1>5, <1>6, <1>7, <1>8, <1>9 DEF Next, Serve

----------------------------------------------------------------------------
(* The theorems.                                                           *)

LEMMA ListerStays ==
    ASSUME Orderly, ListingInv, [Next]_vars
    PROVE  Orderly'
  <1>1. scan \in [state : {"none", "ask", "read", "done", "refused"},
               lister : Listers, asked : {Unlimited} \cup 1 .. (Limit + 1),
               max : Nat \ {0}, folding : Foldings, where : SUBSET Items,
               marker : Nat, rowMarker : Nat, listed : [Items -> 0 .. 2],
               prefixes : SUBSET Nat, throughout : SUBSET Items]
    BY DEF ListingInv, ScanType
  <1>2. scan'.lister = scan.lister
    <2>1. ASSUME NEW items, NEW prefixes, NEW m, NEW r, Answer(items, prefixes, m, r)
          PROVE  scan'.lister = scan.lister
      BY <1>1, <2>1 DEF Answer
    <2>2. CASE StartScan
      BY <1>1, <2>2 DEF StartScan
    <2>3. CASE ListContainersSegment
      BY <2>1, <2>3 DEF ListContainersSegment
    <2>4. CASE ListQueuesSegment
      <3>1. \/ \E items, prefixes, m, r : Answer(items, prefixes, m, r)
            \/ scan' = [scan EXCEPT !.state = "refused"]
        BY <2>4 DEF ListQueuesSegment
      <3> QED
        BY <1>1, <2>1, <3>1
    <2>5. CASE QueryTables \/ QueryEntities
      BY <2>1, <2>5 DEF QueryTables, QueryEntities
    <2>6. CASE ListBlobFlatSegment \/ ListBlobHierarchySegment \/ FilterBlobsSegment
      BY <1>1, <2>6 DEF ListBlobFlatSegment, ListBlobHierarchySegment, FilterBlobsSegment, StartPage
    <2>7. CASE Fill
      <3>1. \/ \E items, prefixes, m, r : Answer(items, prefixes, m, r)
            \/ scan' = [scan EXCEPT !.state = "refused"]
            \/ scan' = scan
        BY <2>7 DEF Fill
      <3> QED
        BY <1>1, <2>1, <3>1
    <2>8. CASE \E i \in Items : CreateItem(i) \/ DeleteItem(i)
      BY <1>1, <2>8 DEF CreateItem, DeleteItem
    <2>9. CASE UNCHANGED vars
      BY <2>9 DEF vars
    <2> QED
      BY <2>2, <2>3, <2>4, <2>5, <2>6, <2>7, <2>8, <2>9 DEF Next, Serve
  <1> QED
    BY <1>2 DEF Orderly, DistinctNames, DistinctKeys

\* Where Orderly holds of the listing that is asked for, whoever follows its
\* markers to the end has been told exactly once of every item that was there
\* all the time, or of its prefix: for any items, any sizes of pages and any
\* folders, whatever is created and deleted between the pages.  Of containers,
\* tables, entities and blobs in the Loki store that takes distinct names and
\* keys; of listQueues() also an order of creation that nothing sees to.
THEOREM ListedOnce == Spec /\ Orderly => []ListedExactlyOnce
  <1>1. Init /\ Orderly => Orderly /\ ListingInv
    BY ListingInit
  <1>2. Orderly /\ ListingInv /\ [Next]_vars => (Orderly /\ ListingInv)'
    BY ListingStep, ListerStays DEF Keeps
  <1>3. ListingInv => ListedExactlyOnce
    BY DEF ListingInv
  <1> QED
    BY <1>1, <1>2, <1>3, PTL DEF Spec

\* Where Orderly holds of the listing that is asked for, the marker of an
\* answer lies behind the one that was sent.
THEOREM MarkersGoForward == Spec /\ Orderly => MarkersAdvance
  <1>1. Init /\ Orderly => Orderly /\ ListingInv
    BY ListingInit
  <1>2. Orderly /\ ListingInv /\ [Next]_vars => (Orderly /\ ListingInv)'
    BY ListingStep, ListerStays DEF Keeps
  <1>3. Orderly /\ ListingInv /\ [Next]_vars =>
           [(scan.state # "none" /\ scan'.state = "ask") =>
              \/ scan'.marker > scan.marker
              \/ scan'.marker = scan.marker /\ scan'.rowMarker > scan.rowMarker
           ]_<<scan.state, scan.marker, scan.rowMarker, scan.listed>>
    BY ListingStep DEF Keeps, Advance
  <1> QED
    BY <1>1, <1>2, <1>3, PTL DEF Spec, MarkersAdvance

----------------------------------------------------------------------------
(* Bisection.                                                              *)

\* The first and the last of H from a on and before b, or `none'.
FirstOf(H, a, b, none, x) ==
    \/ x \in H /\ a <= x /\ x < b /\ (\A i \in H : a <= i => x <= i)
    \/ x = none /\ (\A i \in H : ~(a <= i /\ i < b))
LastOf(H, a, b, x) ==
    \/ x \in H /\ a <= x /\ x < b /\ (\A i \in H : i < b => i <= x)
    \/ x = -1 /\ (\A i \in H : ~(a <= i /\ i < b))

FirstRound(g, H, none, a, b) ==
    LET mid == (a + b) \div 2
    IN  IF a >= b THEN none
        ELSE IF a = b - 1 THEN IF a \in H THEN a ELSE none
        ELSE IF g[<<a, mid>>] # none THEN g[<<a, mid>>]
        ELSE IF mid \in H THEN mid
        ELSE g[<<mid + 1, b>>]
LastRound(g, H, a, b) ==
    LET mid == (a + b) \div 2
    IN  IF a >= b THEN -1
        ELSE IF a = b - 1 THEN IF a \in H THEN a ELSE -1
        ELSE IF g[<<mid + 1, b>>] > -1 THEN g[<<mid + 1, b>>]
        ELSE IF mid \in H THEN mid
        ELSE g[<<a, mid>>]

LEMMA Middle ==
    \A a, b \in Nat : a < b /\ a # b - 1 =>
        /\ (a + b) \div 2 \in Nat
        /\ a < (a + b) \div 2 /\ (a + b) \div 2 < b
        /\ (a + b) \div 2 + 1 <= b
  OBVIOUS

\* There is exactly one answer.
LEMMA FirstOfOne ==
    ASSUME NEW H \in SUBSET Nat, NEW none \in Nat, \A i \in H : i < none,
           NEW a \in Nat, NEW b \in Nat, NEW x, NEW y,
           FirstOf(H, a, b, none, x), FirstOf(H, a, b, none, y)
    PROVE  x = y
  <1>1. \A i \in H : i \in Nat
    OBVIOUS
  <1>2. CASE x \in H /\ a <= x /\ x < b /\ (\A i \in H : a <= i => x <= i)
    <2>1. y # none \/ ~(\A i \in H : ~(a <= i /\ i < b))
      BY <1>2
    <2>2. y \in H /\ a <= y /\ y < b /\ (\A i \in H : a <= i => y <= i)
      BY <1>2, <2>1 DEF FirstOf
    <2>3. x <= y /\ y <= x /\ x \in Nat /\ y \in Nat
      BY <1>1, <1>2, <2>2
    <2> QED
      BY <2>3
  <1>3. CASE x = none /\ (\A i \in H : ~(a <= i /\ i < b))
    <2>1. y = none
      BY <1>3 DEF FirstOf
    <2> QED
      BY <1>3, <2>1
  <1> QED
    BY <1>2, <1>3 DEF FirstOf

LEMMA LastOfOne ==
    ASSUME NEW H \in SUBSET Nat, NEW a \in Nat, NEW b \in Nat, NEW x, NEW y,
           LastOf(H, a, b, x), LastOf(H, a, b, y)
    PROVE  x = y
  <1>1. \A i \in H : i \in Nat
    OBVIOUS
  <1>2. CASE x \in H /\ a <= x /\ x < b /\ (\A i \in H : i < b => i <= x)
    <2>1. y \in H /\ a <= y /\ y < b /\ (\A i \in H : i < b => i <= y)
      BY <1>2 DEF LastOf
    <2>2. x <= y /\ y <= x /\ x \in Nat /\ y \in Nat
      BY <1>1, <1>2, <2>1
    <2> QED
      BY <2>2
  <1>3. CASE x = -1 /\ (\A i \in H : ~(a <= i /\ i < b))
    <2>1. y = -1
      BY <1>3 DEF LastOf
    <2> QED
      BY <1>3, <2>1
  <1> QED
    BY <1>2, <1>3 DEF LastOf

LEMMA FirstOfExists ==
    ASSUME NEW H \in SUBSET Nat, NEW none, NEW a \in Nat, NEW b \in Nat
    PROVE  \E x : FirstOf(H, a, b, none, x)
  <1> DEFINE I == {i \in H : a <= i /\ i < b}
  <1>1. CASE I = {}
    BY <1>1 DEF FirstOf
  <1>2. CASE I # {}
    <2>1. \A i \in H : i \in Nat
      OBVIOUS
    <2>2. I \subseteq Nat
      BY <2>1
    <2>3. PICK x \in I : \A y \in I : ~(<<y, x>> \in OpToRel(<, Nat))
      BY <1>2, <2>2, WFMin, NatLessThanWellFounded
    <2>4. \A y \in I : ~(y < x)
      BY <2>2, <2>3 DEF OpToRel
    <2>5. \A i \in H : a <= i => x <= i
      <3> SUFFICES ASSUME NEW i \in H, a <= i
                   PROVE  x <= i
        OBVIOUS
      <3>1. i \in Nat /\ x \in Nat /\ x < b
        BY <2>1, <2>3
      <3>2. i < b => i \in I
        OBVIOUS
      <3> QED
        BY <2>4, <3>1, <3>2
    <2>6. FirstOf(H, a, b, none, x)
      BY <2>3, <2>5 DEF FirstOf
    <2> QED
      BY <2>6
  <1> QED
    BY <1>1, <1>2

LEMMA LastOfExists ==
    ASSUME NEW H \in SUBSET Nat, NEW a \in Nat, NEW b \in Nat
    PROVE  \E x : LastOf(H, a, b, x)
  <1> DEFINE I == {i \in H : a <= i /\ i < b}
             J == {j \in Nat : b - j \in I}
  <1>1. CASE I = {}
    BY <1>1 DEF LastOf
  <1>2. CASE I # {}
    <2>1. \A i \in H : i \in Nat
      OBVIOUS
    <2>2. PICK i0 \in I : TRUE
      BY <1>2
    <2>3. b - i0 \in Nat /\ b - (b - i0) = i0
      BY <2>1, <2>2
    <2>4. J # {} /\ J \subseteq Nat
      BY <2>3
    <2>5. PICK z \in J : \A y \in J : ~(<<y, z>> \in OpToRel(<, Nat))
      BY <2>4, WFMin, NatLessThanWellFounded
    <2>6. \A y \in J : ~(y < z)
      BY <2>4, <2>5 DEF OpToRel
    <2>7. \A i \in H : i < b => i <= b - z
      <3> SUFFICES ASSUME NEW i \in H, i < b
                   PROVE  i <= b - z
        OBVIOUS
      <3>1. i \in Nat /\ z \in Nat /\ b - z \in I /\ b - z \in Nat /\ a <= b - z
        BY <2>1, <2>5
      <3>2. CASE a <= i
        <4>1. b - i \in Nat /\ b - (b - i) = i
          BY <3>1
        <4>2. b - i \in J
          BY <3>2, <4>1
        <4>3. ~(b - i < z)
          BY <2>6, <4>2
        <4> QED
          BY <3>1, <4>3
      <3>3. CASE ~(a <= i)
        BY <3>1, <3>3
      <3> QED
        BY <3>2, <3>3
    <2>8. LastOf(H, a, b, b - z)
      BY <2>5, <2>7 DEF LastOf
    <2> QED
      BY <2>8
  <1> QED
    BY <1>1, <1>2

LEMMA FirstOfRound ==
    ASSUME NEW H \in SUBSET Nat, NEW none \in Nat, \A i \in H : i < none,
           NEW g, NEW a \in Nat, NEW b \in Nat,
           \A c, d \in Nat : c <= b /\ d <= b /\ c <= d /\ d - c < b - a =>
                                 FirstOf(H, c, d, none, g[<<c, d>>])
    PROVE  FirstOf(H, a, b, none, FirstRound(g, H, none, a, b))
  <1>1. \A i \in H : i \in Nat /\ i # none
    OBVIOUS
  <1>2. CASE a >= b
    <2>1. \A i \in H : ~(a <= i /\ i < b)
      BY <1>1, <1>2
    <2> QED
      BY <1>2, <2>1 DEF FirstOf, FirstRound
  <1>3. CASE ~(a >= b) /\ a = b - 1
    <2>1. \A i \in H : a <= i /\ i < b => i = a
      BY <1>1, <1>3
    <2>2. a < b
      BY <1>3
    <2>3. FirstRound(g, H, none, a, b) = IF a \in H THEN a ELSE none
      BY <1>3 DEF FirstRound
    <2>4. CASE a \in H
      BY <2>2, <2>3, <2>4 DEF FirstOf
    <2>5. CASE a \notin H
      BY <2>1, <2>3, <2>5 DEF FirstOf
    <2> QED
      BY <2>4, <2>5
  <1>4. CASE ~(a >= b) /\ a # b - 1
    <2>1. PICK mid : mid = (a + b) \div 2
      OBVIOUS
    <2>2. mid \in Nat /\ a < mid /\ mid < b /\ mid + 1 <= b
      BY <1>4, <2>1, Middle
    <2>3. FirstRound(g, H, none, a, b) = IF g[<<a, mid>>] # none THEN g[<<a, mid>>]
                                         ELSE IF mid \in H THEN mid ELSE g[<<mid + 1, b>>]
      BY <1>4, <2>1 DEF FirstRound
    <2>4. PICK u, v : u = g[<<a, mid>>] /\ v = g[<<mid + 1, b>>]
      OBVIOUS
    <2>5. /\ mid <= b /\ b <= b /\ a <= b /\ a <= mid /\ mid - a < b - a
          /\ mid + 1 \in Nat /\ b - (mid + 1) < b - a
      BY <2>2
    <2>6. FirstOf(H, a, mid, none, u) /\ FirstOf(H, mid + 1, b, none, v)
      BY <2>2, <2>4, <2>5
    <2>7. CASE u # none
      <3>1. u \in H /\ a <= u /\ u < mid /\ (\A i \in H : a <= i => u <= i)
        BY <2>6, <2>7 DEF FirstOf
      <3>2. u < b
        BY <1>1, <2>2, <3>1
      <3> QED
        BY <2>3, <2>4, <2>7, <3>1, <3>2 DEF FirstOf
    <2>8. CASE u = none
      <3>1. \A i \in H : ~(a <= i /\ i < mid)
        BY <1>1, <2>6, <2>8 DEF FirstOf
      <3>2. CASE mid \in H
        <4>1. \A i \in H : a <= i => mid <= i
          BY <1>1, <2>2, <3>1
        <4> QED
          BY <2>2, <2>3, <2>4, <2>8, <3>2, <4>1 DEF FirstOf
      <3>3. CASE mid \notin H
        <4>1. \A i \in H : a <= i => mid + 1 <= i
          <5> SUFFICES ASSUME NEW i \in H, a <= i
                       PROVE  mid + 1 <= i
            OBVIOUS
          <5>1. i \in Nat /\ i # mid /\ ~(i < mid)
            BY <1>1, <3>1, <3>3
          <5> QED
            BY <2>2, <5>1
        <4>2. FirstOf(H, a, b, none, v)
          <5>1. CASE v \in H /\ mid + 1 <= v /\ v < b /\ (\A i \in H : mid + 1 <= i => v <= i)
            <6>1. a <= v
              BY <1>1, <2>2, <5>1
            <6> QED
              BY <4>1, <5>1, <6>1 DEF FirstOf
          <5>2. CASE v = none /\ (\A i \in H : ~(mid + 1 <= i /\ i < b))
            BY <4>1, <5>2 DEF FirstOf
          <5> QED
            BY <2>6, <5>1, <5>2 DEF FirstOf
        <4> QED
          BY <2>3, <2>4, <2>8, <3>3, <4>2
      <3> QED
        BY <3>2, <3>3
    <2> QED
      BY <2>7, <2>8
  <1> QED
    BY <1>2, <1>3, <1>4

LEMMA LastOfRound ==
    ASSUME NEW H \in SUBSET Nat,
           NEW g, NEW a \in Nat, NEW b \in Nat,
           \A c, d \in Nat : c <= b /\ d <= b /\ c <= d /\ d - c < b - a =>
                                 LastOf(H, c, d, g[<<c, d>>])
    PROVE  LastOf(H, a, b, LastRound(g, H, a, b))
  <1>1. \A i \in H : i \in Nat /\ i # -1 /\ i > -1
    OBVIOUS
  <1>2. CASE a >= b
    <2>1. \A i \in H : ~(a <= i /\ i < b)
      BY <1>1, <1>2
    <2> QED
      BY <1>2, <2>1 DEF LastOf, LastRound
  <1>3. CASE ~(a >= b) /\ a = b - 1
    <2>1. (\A i \in H : a <= i /\ i < b => i = a) /\ (\A i \in H : i < b => i <= a)
      BY <1>1, <1>3
    <2>2. a < b
      BY <1>3
    <2>3. LastRound(g, H, a, b) = IF a \in H THEN a ELSE -1
      BY <1>3 DEF LastRound
    <2>4. CASE a \in H
      BY <2>1, <2>2, <2>3, <2>4 DEF LastOf
    <2>5. CASE a \notin H
      BY <2>1, <2>3, <2>5 DEF LastOf
    <2> QED
      BY <2>4, <2>5
  <1>4. CASE ~(a >= b) /\ a # b - 1
    <2>1. PICK mid : mid = (a + b) \div 2
      OBVIOUS
    <2>2. mid \in Nat /\ a < mid /\ mid < b /\ mid + 1 <= b
      BY <1>4, <2>1, Middle
    <2>3. LastRound(g, H, a, b) = IF g[<<mid + 1, b>>] > -1 THEN g[<<mid + 1, b>>]
                                  ELSE IF mid \in H THEN mid ELSE g[<<a, mid>>]
      BY <1>4, <2>1 DEF LastRound
    <2>4. PICK u, v : u = g[<<a, mid>>] /\ v = g[<<mid + 1, b>>]
      OBVIOUS
    <2>5. /\ mid <= b /\ b <= b /\ a <= b /\ a <= mid /\ mid - a < b - a
          /\ mid + 1 \in Nat /\ b - (mid + 1) < b - a
      BY <2>2
    <2>6. LastOf(H, a, mid, u) /\ LastOf(H, mid + 1, b, v)
      BY <2>2, <2>4, <2>5
    <2>7. CASE v # -1
      <3>1. v \in H /\ mid + 1 <= v /\ v < b /\ (\A i \in H : i < b => i <= v)
        BY <2>6, <2>7 DEF LastOf
      <3>2. a <= v /\ v > -1
        BY <1>1, <2>2, <3>1
      <3> QED
        BY <2>3, <2>4, <3>1, <3>2 DEF LastOf
    <2>8. CASE v = -1
      <3>1. \A i \in H : ~(mid + 1 <= i /\ i < b)
        BY <1>1, <2>6, <2>8 DEF LastOf
      <3>2. ~(v > -1)
        BY <2>8
      <3>3. CASE mid \in H
        <4>1. \A i \in H : i < b => i <= mid
          BY <1>1, <2>2, <3>1
        <4> QED
          BY <2>2, <2>3, <2>4, <3>2, <3>3, <4>1 DEF LastOf
      <3>4. CASE mid \notin H
        <4>1. \A i \in H : i < b => i < mid
          <5> SUFFICES ASSUME NEW i \in H, i < b
                       PROVE  i < mid
            OBVIOUS
          <5>1. i \in Nat /\ i # mid /\ ~(mid + 1 <= i)
            BY <1>1, <3>1, <3>4
          <5> QED
            BY <2>2, <5>1
        <4>2. LastOf(H, a, b, u)
          <5>1. CASE u \in H /\ a <= u /\ u < mid /\ (\A i \in H : i < mid => i <= u)
            <6>1. u < b
              BY <1>1, <2>2, <5>1
            <6> QED
              BY <4>1, <5>1, <6>1 DEF LastOf
          <5>2. CASE u = -1 /\ (\A i \in H : ~(a <= i /\ i < mid))
            BY <4>1, <5>2 DEF LastOf
          <5> QED
            BY <2>6, <5>1, <5>2 DEF LastOf
        <4> QED
          BY <2>3, <2>4, <3>2, <3>4, <4>2
      <3> QED
        BY <3>3, <3>4
    <2> QED
      BY <2>7, <2>8
  <1> QED
    BY <1>2, <1>3, <1>4

FirstBisects(g, L, H, none) ==
    g = [part \in (0 .. L) \X (0 .. L) |-> FirstRound(g, H, none, part[1], part[2])]
LastBisects(g, L, H) ==
    g = [part \in (0 .. L) \X (0 .. L) |-> LastRound(g, H, part[1], part[2])]

\* The answers satisfy the equation of the bisection ...
LEMMA FirstBisectionExists ==
    ASSUME NEW L \in Nat, NEW H \in SUBSET (0 .. L - 1), NEW none \in Nat, L <= none
    PROVE  \E g : FirstBisects(g, L, H, none)
  <1> DEFINE D == (0 .. L) \X (0 .. L)
             g == [part \in D |-> CHOOSE x : FirstOf(H, part[1], part[2], none, x)]
  <1>1. H \in SUBSET Nat
    <2>1. \A i \in H : i \in Nat
      OBVIOUS
    <2> QED
      BY <2>1
  <1>2. \A i \in H : i < none
    OBVIOUS
  <1>3. \A c, d \in 0 .. L : FirstOf(H, c, d, none, g[<<c, d>>])
    <2> SUFFICES ASSUME NEW c \in 0 .. L, NEW d \in 0 .. L
                 PROVE  FirstOf(H, c, d, none, g[<<c, d>>])
      OBVIOUS
    <2>1. g[<<c, d>>] = CHOOSE x : FirstOf(H, c, d, none, x)
      OBVIOUS
    <2>2. c \in Nat /\ d \in Nat
      OBVIOUS
    <2>3. \E x : FirstOf(H, c, d, none, x)
      BY <1>1, <2>2, FirstOfExists
    <2> HIDE DEF g
    <2> QED
      BY <2>1, <2>3
  <1>4. \A a, b \in 0 .. L : g[<<a, b>>] = FirstRound(g, H, none, a, b)
    <2> SUFFICES ASSUME NEW a \in 0 .. L, NEW b \in 0 .. L
                 PROVE  g[<<a, b>>] = FirstRound(g, H, none, a, b)
      OBVIOUS
    <2> HIDE DEF g, D
    <2>1. a \in Nat /\ b \in Nat
      OBVIOUS
    <2>2. \A c, d \in Nat : c <= b /\ d <= b /\ c <= d /\ d - c < b - a =>
                                FirstOf(H, c, d, none, g[<<c, d>>])
      BY <1>3
    <2>3. FirstOf(H, a, b, none, FirstRound(g, H, none, a, b))
      BY <1>1, <1>2, <2>1, <2>2, FirstOfRound
    <2>4. FirstOf(H, a, b, none, g[<<a, b>>])
      BY <1>3
    <2> QED
      BY <1>1, <1>2, <2>1, <2>3, <2>4, FirstOfOne
  <1>5. g = [part \in D |-> g[part]]
    OBVIOUS
  <1>6. \A part \in D : g[part] = FirstRound(g, H, none, part[1], part[2])
    <2> HIDE DEF g
    <2> SUFFICES ASSUME NEW part \in D
                 PROVE  g[part] = FirstRound(g, H, none, part[1], part[2])
      OBVIOUS
    <2>1. part = <<part[1], part[2]>> /\ part[1] \in 0 .. L /\ part[2] \in 0 .. L
      OBVIOUS
    <2> QED
      BY <1>4, <2>1
  <1> HIDE DEF g
  <1>7. FirstBisects(g, L, H, none)
    BY <1>5, <1>6 DEF FirstBisects
  <1> QED
    BY <1>7

LEMMA LastBisectionExists ==
    ASSUME NEW L \in Nat, NEW H \in SUBSET (0 .. L - 1)
    PROVE  \E g : LastBisects(g, L, H)
  <1> DEFINE D == (0 .. L) \X (0 .. L)
             g == [part \in D |-> CHOOSE x : LastOf(H, part[1], part[2], x)]
  <1>1. H \in SUBSET Nat
    <2>1. \A i \in H : i \in Nat
      OBVIOUS
    <2> QED
      BY <2>1
  <1>3. \A c, d \in 0 .. L : LastOf(H, c, d, g[<<c, d>>])
    <2> SUFFICES ASSUME NEW c \in 0 .. L, NEW d \in 0 .. L
                 PROVE  LastOf(H, c, d, g[<<c, d>>])
      OBVIOUS
    <2>1. g[<<c, d>>] = CHOOSE x : LastOf(H, c, d, x)
      OBVIOUS
    <2>2. \E x : LastOf(H, c, d, x)
      BY <1>1, LastOfExists
    <2> HIDE DEF g
    <2> QED
      BY <2>1, <2>2
  <1>4. \A a, b \in 0 .. L : g[<<a, b>>] = LastRound(g, H, a, b)
    <2> SUFFICES ASSUME NEW a \in 0 .. L, NEW b \in 0 .. L
                 PROVE  g[<<a, b>>] = LastRound(g, H, a, b)
      OBVIOUS
    <2> HIDE DEF g, D
    <2>1. a \in Nat /\ b \in Nat
      OBVIOUS
    <2>2. \A c, d \in Nat : c <= b /\ d <= b /\ c <= d /\ d - c < b - a =>
                                LastOf(H, c, d, g[<<c, d>>])
      BY <1>3
    <2>3. LastOf(H, a, b, LastRound(g, H, a, b))
      BY <1>1, <2>1, <2>2, LastOfRound
    <2>4. LastOf(H, a, b, g[<<a, b>>])
      BY <1>3
    <2> QED
      BY <1>1, <2>1, <2>3, <2>4, LastOfOne
  <1>5. g = [part \in D |-> g[part]]
    OBVIOUS
  <1>6. \A part \in D : g[part] = LastRound(g, H, part[1], part[2])
    <2> HIDE DEF g
    <2> SUFFICES ASSUME NEW part \in D
                 PROVE  g[part] = LastRound(g, H, part[1], part[2])
      OBVIOUS
    <2>1. part = <<part[1], part[2]>> /\ part[1] \in 0 .. L /\ part[2] \in 0 .. L
      OBVIOUS
    <2> QED
      BY <1>4, <2>1
  <1> HIDE DEF g
  <1>7. LastBisects(g, L, H)
    BY <1>5, <1>6 DEF LastBisects
  <1> QED
    BY <1>7

\* ... and nothing else does.
LEMMA FirstBisection ==
    ASSUME NEW L \in Nat, NEW H \in SUBSET (0 .. L - 1), NEW none \in Nat, L <= none,
           NEW g, FirstBisects(g, L, H, none)
    PROVE  FirstOf(H, 0, L, none, g[<<0, L>>])
  <1> DEFINE T == {k \in Nat : \A a, b \in 0 .. L : b - a <= k => FirstOf(H, a, b, none, g[<<a, b>>])}
  <1>1. H \in SUBSET Nat
    <2>1. \A i \in H : i \in Nat
      OBVIOUS
    <2> QED
      BY <2>1
  <1>2. \A i \in H : i < none
    OBVIOUS
  <1>3. \A a, b \in 0 .. L : g[<<a, b>>] = FirstRound(g, H, none, a, b)
    BY DEF FirstBisects
  <1>4. ASSUME NEW k \in Nat, NEW a \in 0 .. L, NEW b \in 0 .. L, b - a <= k,
               \A c, d \in 0 .. L : d - c < k => FirstOf(H, c, d, none, g[<<c, d>>])
        PROVE  FirstOf(H, a, b, none, g[<<a, b>>])
    <2>1. a \in Nat /\ b \in Nat
      OBVIOUS
    <2>2. \A c, d \in Nat : c <= b /\ d <= b /\ c <= d /\ d - c < b - a =>
                                FirstOf(H, c, d, none, g[<<c, d>>])
      <3> SUFFICES ASSUME NEW c \in Nat, NEW d \in Nat, c <= b, d <= b, d - c < b - a
                   PROVE  FirstOf(H, c, d, none, g[<<c, d>>])
        OBVIOUS
      <3>1. c \in 0 .. L /\ d \in 0 .. L /\ d - c < k
        BY <1>4
      <3> QED
        BY <1>4, <3>1
    <2>3. FirstOf(H, a, b, none, FirstRound(g, H, none, a, b))
      BY <1>1, <1>2, <2>1, <2>2, FirstOfRound
    <2> QED
      BY <1>3, <2>3
  <1>5. 0 \in T
    <2> SUFFICES ASSUME NEW a \in 0 .. L, NEW b \in 0 .. L, b - a <= 0
                 PROVE  FirstOf(H, a, b, none, g[<<a, b>>])
      OBVIOUS
    <2>1. a \in Nat /\ b \in Nat
      OBVIOUS
    <2>2. \A c, d \in Nat : c <= b /\ d <= b /\ c <= d /\ d - c < b - a =>
                                FirstOf(H, c, d, none, g[<<c, d>>])
      OBVIOUS
    <2>3. FirstOf(H, a, b, none, FirstRound(g, H, none, a, b))
      BY <1>1, <1>2, <2>1, <2>2, FirstOfRound
    <2> QED
      BY <1>3, <2>3
  <1>6. ASSUME NEW k \in Nat, k \in T
        PROVE  k + 1 \in T
    <2> SUFFICES ASSUME NEW a \in 0 .. L, NEW b \in 0 .. L, b - a <= k + 1
                 PROVE  FirstOf(H, a, b, none, g[<<a, b>>])
      OBVIOUS
    <2>1. \A c, d \in 0 .. L : d - c < k + 1 => FirstOf(H, c, d, none, g[<<c, d>>])
      BY <1>6
    <2>2. k + 1 \in Nat
      OBVIOUS
    <2> QED
      BY <1>4, <2>1, <2>2
  <1>7. \A k \in Nat : k \in T
    <2> HIDE DEF T
    <2> QED
      BY <1>5, <1>6, NatsFrom
  <1>8. L \in T /\ L - 0 <= L /\ 0 \in 0 .. L /\ L \in 0 .. L
    BY <1>7
  <1> QED
    BY <1>8

LEMMA LastBisection ==
    ASSUME NEW L \in Nat, NEW H \in SUBSET (0 .. L - 1), NEW g, LastBisects(g, L, H)
    PROVE  LastOf(H, 0, L, g[<<0, L>>])
  <1> DEFINE T == {k \in Nat : \A a, b \in 0 .. L : b - a <= k => LastOf(H, a, b, g[<<a, b>>])}
  <1>1. H \in SUBSET Nat
    <2>1. \A i \in H : i \in Nat
      OBVIOUS
    <2> QED
      BY <2>1
  <1>3. \A a, b \in 0 .. L : g[<<a, b>>] = LastRound(g, H, a, b)
    BY DEF LastBisects
  <1>4. ASSUME NEW k \in Nat, NEW a \in 0 .. L, NEW b \in 0 .. L, b - a <= k,
               \A c, d \in 0 .. L : d - c < k => LastOf(H, c, d, g[<<c, d>>])
        PROVE  LastOf(H, a, b, g[<<a, b>>])
    <2>1. a \in Nat /\ b \in Nat
      OBVIOUS
    <2>2. \A c, d \in Nat : c <= b /\ d <= b /\ c <= d /\ d - c < b - a =>
                                LastOf(H, c, d, g[<<c, d>>])
      <3> SUFFICES ASSUME NEW c \in Nat, NEW d \in Nat, c <= b, d <= b, d - c < b - a
                   PROVE  LastOf(H, c, d, g[<<c, d>>])
        OBVIOUS
      <3>1. c \in 0 .. L /\ d \in 0 .. L /\ d - c < k
        BY <1>4
      <3> QED
        BY <1>4, <3>1
    <2>3. LastOf(H, a, b, LastRound(g, H, a, b))
      BY <1>1, <2>1, <2>2, LastOfRound
    <2> QED
      BY <1>3, <2>3
  <1>5. 0 \in T
    <2> SUFFICES ASSUME NEW a \in 0 .. L, NEW b \in 0 .. L, b - a <= 0
                 PROVE  LastOf(H, a, b, g[<<a, b>>])
      OBVIOUS
    <2>1. a \in Nat /\ b \in Nat
      OBVIOUS
    <2>2. \A c, d \in Nat : c <= b /\ d <= b /\ c <= d /\ d - c < b - a =>
                                LastOf(H, c, d, g[<<c, d>>])
      OBVIOUS
    <2>3. LastOf(H, a, b, LastRound(g, H, a, b))
      BY <1>1, <2>1, <2>2, LastOfRound
    <2> QED
      BY <1>3, <2>3
  <1>6. ASSUME NEW k \in Nat, k \in T
        PROVE  k + 1 \in T
    <2> SUFFICES ASSUME NEW a \in 0 .. L, NEW b \in 0 .. L, b - a <= k + 1
                 PROVE  LastOf(H, a, b, g[<<a, b>>])
      OBVIOUS
    <2>1. \A c, d \in 0 .. L : d - c < k + 1 => LastOf(H, c, d, g[<<c, d>>])
      BY <1>6
    <2>2. k + 1 \in Nat
      OBVIOUS
    <2> QED
      BY <1>4, <2>1, <2>2
  <1>7. \A k \in Nat : k \in T
    <2> HIDE DEF T
    <2> QED
      BY <1>5, <1>6, NatsFrom
  <1>8. L \in T /\ L - 0 <= L /\ 0 \in 0 .. L /\ L \in 0 .. L
    BY <1>7
  <1> QED
    BY <1>8

----------------------------------------------------------------------------
(* What the two bisections find.                                           *)

Chunks == [id : Int, offset : Int, count : Int]
Ranges == [start : Int, end : Int, persistency : Chunks]

\* Ranges in order and without overlap, between lo and hi.
Tidy(ranges, lo, hi) ==
    /\ ranges \in Seq(Ranges)
    /\ \A i \in 1 .. Len(ranges) : /\ lo <= ranges[i].start
                                   /\ ranges[i].start <= ranges[i].end
                                   /\ ranges[i].end <= hi
    /\ \A i, j \in 1 .. Len(ranges) : i < j => ranges[i].end < ranges[j].start

InCover(ranges, p) == \E i \in 1 .. Len(ranges) : ranges[i].start <= p /\ p <= ranges[i].end

\* The first `first' ranges, and no other, end before `position' ...
FirstIs(ranges, position, first) ==
    /\ first \in Nat
    /\ \A i \in 1 .. Len(ranges) : ranges[i].end < position <=> i <= first
\* ... and those behind the first `last' + 1 start behind it.
LastIs(ranges, position, last) ==
    /\ last \in Int /\ -1 <= last /\ last < Len(ranges)
    /\ \A i \in 1 .. Len(ranges) : ranges[i].start <= position <=> i <= last + 1

LEMMA TidyRange ==
    ASSUME NEW R, NEW lo \in Int, NEW hi \in Int, Tidy(R, lo, hi)
    PROVE  /\ R \in Seq(Ranges) /\ Len(R) \in Nat
           /\ \A i \in 1 .. Len(R) : /\ R[i] \in Ranges
                                     /\ R[i].start \in Int /\ R[i].end \in Int
                                     /\ lo <= R[i].start /\ R[i].start <= R[i].end /\ R[i].end <= hi
           /\ \A i, j \in 1 .. Len(R) : i < j => R[i].end < R[j].start
           /\ DOMAIN R = 1 .. Len(R)
  <1>1. \A i \in 1 .. Len(R) : R[i] \in Ranges
    BY ElementOfSeq DEF Tidy
  <1> QED
    BY <1>1 DEF Tidy, Ranges

LEMMA FirstFound ==
    ASSUME NEW R, NEW lo \in Int, NEW hi \in Int, Tidy(R, lo, hi), Len(R) <= Infinity, Infinity \in Nat,
           NEW position \in Int
    PROVE  /\ FirstIs(R, position, LocateFirstImpactedRange(R, position))
           /\ LocateFirstImpactedRange(R, position) < Len(R)
                  \/ LocateFirstImpactedRange(R, position) = Infinity
  <1> DEFINE L == Len(R)
             Hit(i) == \/ PositionInRange(R[i + 1], position)
                       \/ position < R[i + 1].start
             H == {i \in 0 .. L - 1 : Hit(i)}
             Round(g, part) ==
                 LET from == part[1]
                     to == part[2]
                     mid == (from + to) \div 2
                 IN  IF from >= to THEN Infinity
                     ELSE IF from = to - 1 THEN IF Hit(from) THEN from ELSE Infinity
                     ELSE IF g[<<from, mid>>] # Infinity THEN g[<<from, mid>>]
                     ELSE IF Hit(mid) THEN mid
                     ELSE g[<<mid + 1, to>>]
             D == (0 .. L) \X (0 .. L)
             G == CHOOSE g : g = [part \in D |-> Round(g, part)]
             x == LocateFirstImpactedRange(R, position)
  <1>1. x = G[<<0, L>>]
    BY DEF LocateFirstImpactedRange
  <1>2. L \in Nat /\ \A i \in 1 .. L : R[i].start \in Int /\ R[i].end \in Int /\ R[i].start <= R[i].end
    BY TidyRange
  <1>3. \A i \in 0 .. L - 1 : i \in H <=> position <= R[i + 1].end
    <2> SUFFICES ASSUME NEW i \in 0 .. L - 1
                 PROVE  Hit(i) <=> position <= R[i + 1].end
      OBVIOUS
    <2>1. i + 1 \in 1 .. L
      BY <1>2
    <2>2. R[i + 1].start \in Int /\ R[i + 1].end \in Int /\ R[i + 1].start <= R[i + 1].end
      BY <1>2, <2>1
    <2> QED
      BY <2>2 DEF PositionInRange
  <1>4. H \in SUBSET (0 .. L - 1)
    OBVIOUS
  <1>5. \A g, part : part \in D => Round(g, part) = FirstRound(g, H, Infinity, part[1], part[2])
    <2> SUFFICES ASSUME NEW g, NEW a \in 0 .. L, NEW b \in 0 .. L
                 PROVE  Round(g, <<a, b>>) = FirstRound(g, H, Infinity, a, b)
      <3>1. \A part \in D : part = <<part[1], part[2]>> /\ part[1] \in 0 .. L /\ part[2] \in 0 .. L
        OBVIOUS
      <3> HIDE DEF Round, H, D
      <3> QED
        BY <3>1
    <2>1. CASE a >= b
      BY <2>1 DEF FirstRound
    <2>2. CASE ~(a >= b) /\ a = b - 1
      <3>1. a \in H <=> Hit(a)
        BY <2>2
      <3> HIDE DEF Hit, H
      <3> QED
        BY <2>2, <3>1 DEF FirstRound
    <2>3. CASE ~(a >= b) /\ a # b - 1
      <3>1. PICK mid : mid = (a + b) \div 2
        OBVIOUS
      <3>2. mid \in 0 .. L - 1
        BY <1>2, <2>3, <3>1, Middle
      <3>3. mid \in H <=> Hit(mid)
        BY <3>2
      <3> HIDE DEF Hit, H
      <3> QED
        BY <2>3, <3>1, <3>3 DEF FirstRound
    <2> QED
      BY <2>1, <2>2, <2>3
  <1> HIDE DEF Round, H
  <1>6. \A g : g = [part \in D |-> Round(g, part)] <=> FirstBisects(g, L, H, Infinity)
    BY <1>5 DEF FirstBisects
  <1>7. \E g : FirstBisects(g, L, H, Infinity)
    BY <1>2, <1>4, FirstBisectionExists
  <1>8. FirstBisects(G, L, H, Infinity)
    BY <1>6, <1>7
  <1> HIDE DEF G
  <1>9. FirstOf(H, 0, L, Infinity, x)
    BY <1>1, <1>2, <1>4, <1>8, FirstBisection
  <1> HIDE DEF x
  <1>10. \A i, j \in 1 .. L : i < j => R[i].end < R[j].end
    BY <1>2, TidyRange, SMTT(30)
  <1>11. CASE x = Infinity /\ (\A i \in H : ~(0 <= i /\ i < L))
    <2>1. \A i \in 1 .. L : R[i].end < position
      <3> SUFFICES ASSUME NEW i \in 1 .. L
                   PROVE  R[i].end < position
        OBVIOUS
      <3>1. i - 1 \in 0 .. L - 1 /\ 0 <= i - 1 /\ i - 1 < L /\ (i - 1) + 1 = i
        BY <1>2
      <3>2. i - 1 \notin H
        BY <1>11, <3>1
      <3>3. ~(position <= R[i].end)
        BY <1>3, <3>1, <3>2
      <3> QED
        BY <1>2, <3>3
    <2>2. \A i \in 1 .. L : i <= Infinity
      BY <1>2
    <2> QED
      BY <1>11, <2>1, <2>2 DEF FirstIs, x
  <1>12. CASE x \in H /\ 0 <= x /\ x < L /\ (\A i \in H : 0 <= i => x <= i)
    <2>1. x \in 0 .. L - 1 /\ x \in Nat /\ x + 1 \in 1 .. L
      BY <1>2, <1>4, <1>12
    <2>2. position <= R[x + 1].end
      BY <1>3, <1>12, <2>1
    <2>3. \A i \in 1 .. L : R[i].end < position <=> i <= x
      <3> SUFFICES ASSUME NEW i \in 1 .. L
                   PROVE  R[i].end < position <=> i <= x
        OBVIOUS
      <3>1. i - 1 \in 0 .. L - 1 /\ 0 <= i - 1 /\ (i - 1) + 1 = i
        BY <1>2
      <3>2. i - 1 \in H <=> position <= R[i].end
        BY <1>3, <3>1
      <3>3. CASE i <= x
        <4>1. ~(x <= i - 1)
          BY <2>1, <3>3
        <4>2. i - 1 \notin H
          BY <1>12, <3>1, <4>1
        <4> QED
          BY <1>2, <3>2, <3>3, <4>2
      <3>4. CASE ~(i <= x)
        <4>1. i = x + 1 \/ x + 1 < i
          BY <2>1, <3>4
        <4>2. R[x + 1].end <= R[i].end
          BY <1>2, <1>10, <2>1, <4>1
        <4> QED
          BY <1>2, <2>1, <2>2, <3>4, <4>2
      <3> QED
        BY <3>3, <3>4
    <2> QED
      BY <1>12, <2>1, <2>3 DEF FirstIs, x
  <1> QED
    BY <1>9, <1>11, <1>12 DEF FirstOf

LEMMA LastFound ==
    ASSUME NEW R, NEW lo \in Int, NEW hi \in Int, Tidy(R, lo, hi), NEW position \in Int
    PROVE  LastIs(R, position, LocateLastImpactedRange(R, position))
  <1> DEFINE L == Len(R)
             Hit(i) == \/ PositionInRange(R[i + 1], position)
                       \/ position > R[i + 1].end
             H == {i \in 0 .. L - 1 : Hit(i)}
             Round(g, part) ==
                 LET from == part[1]
                     to == part[2]
                     mid == (from + to) \div 2
                 IN  IF from >= to THEN -1
                     ELSE IF from = to - 1 THEN IF Hit(from) THEN from ELSE -1
                     ELSE IF g[<<mid + 1, to>>] > -1 THEN g[<<mid + 1, to>>]
                     ELSE IF Hit(mid) THEN mid
                     ELSE g[<<from, mid>>]
             D == (0 .. L) \X (0 .. L)
             G == CHOOSE g : g = [part \in D |-> Round(g, part)]
             x == LocateLastImpactedRange(R, position)
  <1>1. x = G[<<0, L>>]
    BY DEF LocateLastImpactedRange
  <1>2. L \in Nat /\ \A i \in 1 .. L : R[i].start \in Int /\ R[i].end \in Int /\ R[i].start <= R[i].end
    BY TidyRange
  <1>3. \A i \in 0 .. L - 1 : i \in H <=> R[i + 1].start <= position
    <2> SUFFICES ASSUME NEW i \in 0 .. L - 1
                 PROVE  Hit(i) <=> R[i + 1].start <= position
      OBVIOUS
    <2>1. i + 1 \in 1 .. L
      BY <1>2
    <2>2. R[i + 1].start \in Int /\ R[i + 1].end \in Int /\ R[i + 1].start <= R[i + 1].end
      BY <1>2, <2>1
    <2> QED
      BY <2>2 DEF PositionInRange
  <1>4. H \in SUBSET (0 .. L - 1)
    OBVIOUS
  <1>5. \A g, part : part \in D => Round(g, part) = LastRound(g, H, part[1], part[2])
    <2> SUFFICES ASSUME NEW g, NEW a \in 0 .. L, NEW b \in 0 .. L
                 PROVE  Round(g, <<a, b>>) = LastRound(g, H, a, b)
      <3>1. \A part \in D : part = <<part[1], part[2]>> /\ part[1] \in 0 .. L /\ part[2] \in 0 .. L
        OBVIOUS
      <3> HIDE DEF Round, H, D
      <3> QED
        BY <3>1
    <2>1. CASE a >= b
      BY <2>1 DEF LastRound
    <2>2. CASE ~(a >= b) /\ a = b - 1
      <3>1. a \in H <=> Hit(a)
        BY <2>2
      <3> HIDE DEF Hit, H
      <3> QED
        BY <2>2, <3>1 DEF LastRound
    <2>3. CASE ~(a >= b) /\ a # b - 1
      <3>1. PICK mid : mid = (a + b) \div 2
        OBVIOUS
      <3>2. mid \in 0 .. L - 1
        BY <1>2, <2>3, <3>1, Middle
      <3>3. mid \in H <=> Hit(mid)
        BY <3>2
      <3> HIDE DEF Hit, H
      <3> QED
        BY <2>3, <3>1, <3>3 DEF LastRound
    <2> QED
      BY <2>1, <2>2, <2>3
  <1> HIDE DEF Round, H
  <1>6. \A g : g = [part \in D |-> Round(g, part)] <=> LastBisects(g, L, H)
    BY <1>5 DEF LastBisects
  <1>7. \E g : LastBisects(g, L, H)
    BY <1>2, <1>4, LastBisectionExists
  <1>8. LastBisects(G, L, H)
    BY <1>6, <1>7
  <1> HIDE DEF G
  <1>9. LastOf(H, 0, L, x)
    BY <1>1, <1>2, <1>4, <1>8, LastBisection
  <1> HIDE DEF x
  <1>10. \A i, j \in 1 .. L : i < j => R[i].start < R[j].start
    BY <1>2, TidyRange
  <1>11. CASE x = -1 /\ (\A i \in H : ~(0 <= i /\ i < L))
    <2>1. \A i \in 1 .. L : ~(R[i].start <= position)
      <3> SUFFICES ASSUME NEW i \in 1 .. L
                   PROVE  ~(R[i].start <= position)
        OBVIOUS
      <3>1. i - 1 \in 0 .. L - 1 /\ 0 <= i - 1 /\ i - 1 < L /\ (i - 1) + 1 = i
        BY <1>2
      <3>2. i - 1 \notin H
        BY <1>11, <3>1
      <3> QED
        BY <1>3, <3>1, <3>2
    <2>2. \A i \in 1 .. L : ~(i <= x + 1)
      BY <1>2, <1>11
    <2>3. x \in Int /\ -1 <= x /\ x < L
      BY <1>2, <1>11
    <2> QED
      BY <2>1, <2>2, <2>3 DEF LastIs, x
  <1>12. CASE x \in H /\ 0 <= x /\ x < L /\ (\A i \in H : i < L => i <= x)
    <2>1. x \in 0 .. L - 1 /\ x \in Nat /\ x + 1 \in 1 .. L
      BY <1>2, <1>4, <1>12
    <2>2. R[x + 1].start <= position
      BY <1>3, <1>12, <2>1
    <2>3. \A i \in 1 .. L : R[i].start <= position <=> i <= x + 1
      <3> SUFFICES ASSUME NEW i \in 1 .. L
                   PROVE  R[i].start <= position <=> i <= x + 1
        OBVIOUS
      <3>1. i - 1 \in 0 .. L - 1 /\ i - 1 < L /\ (i - 1) + 1 = i
        BY <1>2
      <3>2. i - 1 \in H <=> R[i].start <= position
        BY <1>3, <3>1
      <3>3. CASE ~(i <= x + 1)
        <4>1. ~(i - 1 <= x)
          BY <2>1, <3>3
        <4>2. i - 1 \notin H
          BY <1>12, <3>1, <4>1
        <4> QED
          BY <1>2, <3>2, <3>3, <4>2
      <3>4. CASE i <= x + 1
        <4>1. i = x + 1 \/ i < x + 1
          BY <2>1, <3>4
        <4>2. R[i].start <= R[x + 1].start
          BY <1>2, <1>10, <2>1, <4>1
        <4> QED
          BY <1>2, <2>1, <2>2, <3>4, <4>2
      <3> QED
        BY <3>3, <3>4
    <2>4. x \in Int /\ -1 <= x /\ x < L
      BY <1>2, <2>1
    <2> QED
      BY <2>3, <2>4 DEF LastIs, x
  <1> QED
    BY <1>9, <1>11, <1>12 DEF LastOf

----------------------------------------------------------------------------
(* Cutting and gluing.                                                     *)

LEMMA TidyEmpty ==
    \A lo, hi : Tidy(<<>>, lo, hi) /\ \A p : ~InCover(<<>>, p)
  BY DEF Tidy, InCover

LEMMA TidyOne ==
    ASSUME NEW s \in Int, NEW e \in Int, s <= e, NEW c \in Chunks
    PROVE  /\ Tidy(<<PageRange(s, e, c)>>, s, e)
           /\ \A p \in Int : InCover(<<PageRange(s, e, c)>>, p) <=> s <= p /\ p <= e
  <1> DEFINE one == <<PageRange(s, e, c)>>
  <1>1. PageRange(s, e, c) \in Ranges
    BY DEF PageRange, Ranges
  <1>2. one \in Seq(Ranges) /\ Len(one) = 1 /\ one[1].start = s /\ one[1].end = e
    BY <1>1 DEF PageRange
  <1>3. 1 .. 1 = {1}
    OBVIOUS
  <1> HIDE DEF one
  <1>4. Tidy(one, s, e)
    BY <1>2, <1>3 DEF Tidy
  <1>5. \A p \in Int : InCover(one, p) <=> s <= p /\ p <= e
    BY <1>2, <1>3 DEF InCover
  <1> QED
    BY <1>4, <1>5 DEF one

LEMMA TidyWider ==
    ASSUME NEW R, NEW lo \in Int, NEW hi \in Int, Tidy(R, lo, hi),
           NEW l \in Int, NEW h \in Int, l <= lo, hi <= h
    PROVE  Tidy(R, l, h)
  <1>1. \A i \in 1 .. Len(R) : R[i].start \in Int /\ R[i].end \in Int
    BY TidyRange
  <1>2. \A i \in 1 .. Len(R) : l <= R[i].start /\ R[i].start <= R[i].end /\ R[i].end <= h
    BY <1>1 DEF Tidy
  <1> QED
    BY <1>2 DEF Tidy

LEMMA TidyGlue ==
    ASSUME NEW P, NEW Q, NEW lo \in Int, NEW a \in Int, NEW b \in Int, NEW hi \in Int,
           Tidy(P, lo, a), Tidy(Q, b, hi), lo <= b, a < b, a <= hi
    PROVE  /\ Tidy(P \o Q, lo, hi)
           /\ \A p : InCover(P \o Q, p) <=> InCover(P, p) \/ InCover(Q, p)
  <1> DEFINE m == Len(P)
             n == Len(Q)
             W == P \o Q
  <1>1. /\ P \in Seq(Ranges) /\ m \in Nat
        /\ \A i \in 1 .. m : /\ P[i].start \in Int /\ P[i].end \in Int
                             /\ lo <= P[i].start /\ P[i].start <= P[i].end /\ P[i].end <= a
        /\ \A i, j \in 1 .. m : i < j => P[i].end < P[j].start
    BY TidyRange
  <1>2. /\ Q \in Seq(Ranges) /\ n \in Nat
        /\ \A i \in 1 .. n : /\ Q[i].start \in Int /\ Q[i].end \in Int
                             /\ b <= Q[i].start /\ Q[i].start <= Q[i].end /\ Q[i].end <= hi
        /\ \A i, j \in 1 .. n : i < j => Q[i].end < Q[j].start
    BY TidyRange
  <1>3. /\ W \in Seq(Ranges) /\ Len(W) = m + n
        /\ \A i \in 1 .. m + n : W[i] = IF i <= m THEN P[i] ELSE Q[i - m]
    BY <1>1, <1>2, ConcatProperties
  <1> HIDE DEF m, n, W
  <1>4. \A i \in 1 .. m + n : \/ i \in 1 .. m /\ W[i] = P[i]
                              \/ i - m \in 1 .. n /\ i > m /\ W[i] = Q[i - m]
    BY <1>1, <1>2, <1>3
  <1>5. \A i \in 1 .. m + n : lo <= W[i].start /\ W[i].start <= W[i].end /\ W[i].end <= hi
    <2> SUFFICES ASSUME NEW i \in 1 .. m + n
                 PROVE  lo <= W[i].start /\ W[i].start <= W[i].end /\ W[i].end <= hi
      OBVIOUS
    <2>1. CASE i \in 1 .. m /\ W[i] = P[i]
      BY <1>1, <2>1
    <2>2. CASE i - m \in 1 .. n /\ W[i] = Q[i - m]
      BY <1>2, <2>2
    <2> QED
      BY <1>4, <2>1, <2>2
  <1>6. \A i, j \in 1 .. m + n : i < j => W[i].end < W[j].start
    <2> SUFFICES ASSUME NEW i \in 1 .. m + n, NEW j \in 1 .. m + n, i < j
                 PROVE  W[i].end < W[j].start
      OBVIOUS
    <2>1. CASE j \in 1 .. m /\ W[j] = P[j]
      <3>1. i \in 1 .. m /\ W[i] = P[i]
        BY <1>1, <1>4, <2>1
      <3> QED
        BY <1>1, <2>1, <3>1
    <2>2. CASE j - m \in 1 .. n /\ j > m /\ W[j] = Q[j - m]
      <3>1. CASE i \in 1 .. m /\ W[i] = P[i]
        <4>1. W[i].end \in Int /\ W[i].end <= a
          BY <1>1, <3>1
        <4>2. W[j].start \in Int /\ b <= W[j].start
          BY <1>2, <2>2
        <4> QED
          BY <4>1, <4>2
      <3>2. CASE i - m \in 1 .. n /\ i > m /\ W[i] = Q[i - m]
        <4>1. i - m < j - m
          BY <1>1
        <4> QED
          BY <1>2, <2>2, <3>2, <4>1
      <3> QED
        BY <1>4, <3>1, <3>2
    <2> QED
      BY <1>4, <2>1, <2>2
  <1>7. Tidy(W, lo, hi)
    BY <1>3, <1>5, <1>6 DEF Tidy
  <1>8. \A p : InCover(W, p) <=> InCover(P, p) \/ InCover(Q, p)
    <2> SUFFICES ASSUME NEW p
                 PROVE  InCover(W, p) <=> InCover(P, p) \/ InCover(Q, p)
      OBVIOUS
    <2>1. ASSUME InCover(W, p)
          PROVE  InCover(P, p) \/ InCover(Q, p)
      <3>1. PICK i \in 1 .. m + n : W[i].start <= p /\ p <= W[i].end
        BY <1>3, <2>1 DEF InCover
      <3> QED
        BY <1>4, <3>1 DEF InCover, m, n
    <2>2. ASSUME InCover(P, p)
          PROVE  InCover(W, p)
      <3>1. PICK i \in 1 .. m : P[i].start <= p /\ p <= P[i].end
        BY <2>2 DEF InCover, m
      <3>2. i \in 1 .. m + n /\ W[i] = P[i]
        BY <1>1, <1>2, <1>3
      <3> QED
        BY <1>3, <3>1, <3>2 DEF InCover
    <2>3. ASSUME InCover(Q, p)
          PROVE  InCover(W, p)
      <3>1. PICK i \in 1 .. n : Q[i].start <= p /\ p <= Q[i].end
        BY <2>3 DEF InCover, n
      <3>2. i + m \in 1 .. m + n /\ ~(i + m <= m) /\ (i + m) - m = i
        BY <1>1, <1>2
      <3>3. W[i + m] = Q[i]
        BY <1>3, <3>2
      <3> QED
        BY <1>3, <3>1, <3>2, <3>3 DEF InCover
    <2> QED
      BY <2>1, <2>2, <2>3
  <1> QED
    BY <1>7, <1>8 DEF W

LEMMA TidyPart ==
    ASSUME NEW R, NEW lo \in Int, NEW hi \in Int, Tidy(R, lo, hi),
           NEW m \in Int, NEW n \in Int, 1 <= m, n <= Len(R), NEW l \in Int, NEW h \in Int,
           \A i \in 1 .. Len(R) : m <= i /\ i <= n => l <= R[i].start /\ R[i].end <= h
    PROVE  /\ Tidy(SubSeq(R, m, n), l, h)
           /\ \A p : InCover(SubSeq(R, m, n), p)
                         <=> \E i \in 1 .. Len(R) : m <= i /\ i <= n /\ R[i].start <= p /\ p <= R[i].end
  <1> DEFINE W == SubSeq(R, m, n)
             k == Len(W)
             L == Len(R)
  <1>1. /\ L \in Nat
        /\ \A i \in 1 .. L : /\ R[i] \in Ranges /\ R[i].start \in Int /\ R[i].end \in Int
                             /\ R[i].start <= R[i].end
        /\ \A i, j \in 1 .. L : i < j => R[i].end < R[j].start
    BY TidyRange
  <1>2. \A i \in m .. n : R[i] \in Ranges
    BY <1>1
  <1>3. /\ W \in Seq(Ranges) /\ k = IF m <= n THEN n - m + 1 ELSE 0
        /\ \A i \in 1 .. n - m + 1 : W[i] = R[m + i - 1]
    BY <1>2, SubSeqProperties
  <1> HIDE DEF W, k, L
  <1>4. \A i \in 1 .. k : m + i - 1 \in 1 .. L /\ m <= m + i - 1 /\ m + i - 1 <= n /\ W[i] = R[m + i - 1]
    BY <1>1, <1>3 DEF L
  <1>5. \A i \in 1 .. k : l <= W[i].start /\ W[i].start <= W[i].end /\ W[i].end <= h
    BY <1>1, <1>4 DEF L
  <1>6. \A i, j \in 1 .. k : i < j => W[i].end < W[j].start
    <2> SUFFICES ASSUME NEW i \in 1 .. k, NEW j \in 1 .. k, i < j
                 PROVE  W[i].end < W[j].start
      OBVIOUS
    <2>1. m + i - 1 < m + j - 1
      BY <1>3
    <2> QED
      BY <1>1, <1>4, <2>1
  <1>7. Tidy(W, l, h)
    BY <1>3, <1>5, <1>6 DEF Tidy, k
  <1>8. \A p : InCover(W, p)
                   <=> \E i \in 1 .. L : m <= i /\ i <= n /\ R[i].start <= p /\ p <= R[i].end
    <2> SUFFICES ASSUME NEW p
                 PROVE  InCover(W, p)
                            <=> \E i \in 1 .. L : m <= i /\ i <= n /\ R[i].start <= p /\ p <= R[i].end
      OBVIOUS
    <2>1. ASSUME InCover(W, p)
          PROVE  \E i \in 1 .. L : m <= i /\ i <= n /\ R[i].start <= p /\ p <= R[i].end
      <3>1. PICK i \in 1 .. k : W[i].start <= p /\ p <= W[i].end
        BY <2>1 DEF InCover, k
      <3> QED
        BY <1>4, <3>1
    <2>2. ASSUME NEW i \in 1 .. L, m <= i, i <= n, R[i].start <= p, p <= R[i].end
          PROVE  InCover(W, p)
      <3>1. i - m + 1 \in 1 .. k /\ m + (i - m + 1) - 1 = i
        BY <1>1, <1>3, <2>2
      <3>2. W[i - m + 1] = R[i]
        BY <1>4, <3>1
      <3> QED
        BY <2>2, <3>1, <3>2 DEF InCover, k
    <2> QED
      BY <2>1, <2>2
  <1> QED
    BY <1>7, <1>8 DEF W, L

\* What is left of the ranges before a position.
Leading(R, first) == SubSeq(R, 1, Smaller(first, Len(R)))

LEMMA LeadingTidy ==
    ASSUME NEW R, NEW lo \in Int, NEW hi \in Int, Tidy(R, lo, hi),
           NEW first \in Nat, NEW h \in Int, \A i \in 1 .. Len(R) : i <= first => R[i].end <= h
    PROVE  /\ Tidy(Leading(R, first), lo, h)
           /\ \A p : InCover(Leading(R, first), p)
                         <=> \E i \in 1 .. Len(R) : i <= first /\ R[i].start <= p /\ p <= R[i].end
  <1>1. Len(R) \in Nat /\ \A i \in 1 .. Len(R) : lo <= R[i].start
    BY TidyRange
  <1>2. PICK n : n = Smaller(first, Len(R))
    OBVIOUS
  <1>3. n \in Int /\ n <= Len(R) /\ \A i \in 1 .. Len(R) : 1 <= i /\ (i <= n <=> i <= first)
    BY <1>1, <1>2 DEF Smaller
  <1>4. /\ Tidy(SubSeq(R, 1, n), lo, h)
        /\ \A p : InCover(SubSeq(R, 1, n), p)
                      <=> \E i \in 1 .. Len(R) : 1 <= i /\ i <= n /\ R[i].start <= p /\ p <= R[i].end
    <2>1. \A i \in 1 .. Len(R) : 1 <= i /\ i <= n => lo <= R[i].start /\ R[i].end <= h
      BY <1>1, <1>3
    <2>2. 1 \in Int /\ 1 <= 1 /\ n \in Int /\ n <= Len(R)
      BY <1>3
    <2> QED
      BY <2>1, <2>2, TidyPart
  <1> QED
    BY <1>2, <1>3, <1>4 DEF Leading

\* No range reaches over the position ...
LEMMA Before ==
    ASSUME NEW R, NEW lo \in Int, NEW hi \in Int, Tidy(R, lo, hi),
           NEW a \in Int, NEW first, FirstIs(R, a, first),
           \A i \in 1 .. Len(R) : first < i => a <= R[i].start
    PROVE  /\ Tidy(Leading(R, first), lo, a - 1)
           /\ \A p \in Int : InCover(Leading(R, first), p) <=> InCover(R, p) /\ p < a
  <1>1. Len(R) \in Nat /\ \A i \in 1 .. Len(R) : R[i].start \in Int /\ R[i].end \in Int
    BY TidyRange
  <1>2. first \in Nat /\ \A i \in 1 .. Len(R) : R[i].end < a <=> i <= first
    BY DEF FirstIs
  <1>3. \A i \in 1 .. Len(R) : i <= first => R[i].end <= a - 1
    BY <1>1, <1>2
  <1>4. /\ Tidy(Leading(R, first), lo, a - 1)
        /\ \A p : InCover(Leading(R, first), p)
                      <=> \E i \in 1 .. Len(R) : i <= first /\ R[i].start <= p /\ p <= R[i].end
    <2>1. PICK h : h = a - 1
      OBVIOUS
    <2>2. h \in Int /\ \A i \in 1 .. Len(R) : i <= first => R[i].end <= h
      BY <1>3, <2>1
    <2> QED
      BY <1>2, <2>1, <2>2, LeadingTidy
  <1>5. ASSUME NEW p \in Int
        PROVE  (\E i \in 1 .. Len(R) : i <= first /\ R[i].start <= p /\ p <= R[i].end)
                   <=> InCover(R, p) /\ p < a
    <2>1. ASSUME NEW i \in 1 .. Len(R), i <= first, R[i].start <= p, p <= R[i].end
          PROVE  InCover(R, p) /\ p < a
      BY <1>1, <1>2, <2>1 DEF InCover
    <2>2. ASSUME InCover(R, p), p < a
          PROVE  \E i \in 1 .. Len(R) : i <= first /\ R[i].start <= p /\ p <= R[i].end
      <3>1. PICK i \in 1 .. Len(R) : R[i].start <= p /\ p <= R[i].end
        BY <2>2 DEF InCover
      <3>2. ~(first < i)
        BY <1>1, <2>2, <3>1
      <3>3. i <= first
        BY <1>2, <3>2
      <3> QED
        BY <3>1, <3>3
    <2> QED
      BY <2>1, <2>2
  <1> QED
    BY <1>4, <1>5

\* ... or the first that does not end before it is split.
LEMMA BeforeSplit ==
    ASSUME NEW R, NEW lo \in Int, NEW hi \in Int, Tidy(R, lo, hi),
           NEW a \in Int, NEW first, FirstIs(R, a, first), first < Len(R)
    PROVE  /\ SplitFirst(R[first + 1], a) \in Seq(Ranges) /\ Leading(R, first) \in Seq(Ranges)
           /\ Tidy(Leading(R, first) \o SplitFirst(R[first + 1], a), lo, a - 1)
           /\ \A p \in Int : InCover(Leading(R, first) \o SplitFirst(R[first + 1], a), p)
                                 <=> InCover(R, p) /\ p < a
  <1> DEFINE f == R[first + 1]
             P == Leading(R, first)
             Q == SplitFirst(f, a)
  <1>1. /\ Len(R) \in Nat
        /\ \A i \in 1 .. Len(R) : R[i].start \in Int /\ R[i].end \in Int /\ R[i].start <= R[i].end
        /\ \A i, j \in 1 .. Len(R) : i < j => R[i].end < R[j].start
    BY TidyRange
  <1>2. first \in Nat /\ \A i \in 1 .. Len(R) : R[i].end < a <=> i <= first
    BY DEF FirstIs
  <1>3. first + 1 \in 1 .. Len(R) /\ ~(first + 1 <= first)
    BY <1>1, <1>2
  <1>4. f \in Ranges /\ f.start \in Int /\ f.end \in Int /\ f.start <= f.end /\ lo <= f.start /\ ~(f.end < a)
    BY <1>2, <1>3, TidyRange
  <1>5. \A i \in 1 .. Len(R) : i <= first => R[i].end < f.start
    <2> SUFFICES ASSUME NEW i \in 1 .. Len(R), i <= first
                 PROVE  R[i].end < R[first + 1].start
      OBVIOUS
    <2>1. i < first + 1
      BY <1>2
    <2> QED
      BY <1>1, <1>3, <2>1
  <1>6. \A i \in 1 .. Len(R) : first < i => f.start <= R[i].start
    <2> SUFFICES ASSUME NEW i \in 1 .. Len(R), first < i
                 PROVE  R[first + 1].start <= R[i].start
      OBVIOUS
    <2>1. i = first + 1 \/ first + 1 < i
      BY <1>2
    <2> QED
      BY <1>1, <1>3, <2>1
  <1> HIDE DEF f, P, Q
  <1>7. P \in Seq(Ranges)
    <2>1. \A i \in 1 .. Len(R) : i <= first => R[i].end <= f.start - 1
      BY <1>1, <1>4, <1>5
    <2>2. f.start - 1 \in Int
      BY <1>4
    <2>3. Tidy(Leading(R, first), lo, f.start - 1)
      BY <1>2, <2>1, <2>2, LeadingTidy
    <2> QED
      BY <2>3 DEF Tidy, P
  <1>8. CASE f.start < a
    <2> DEFINE c == Chunk(f.persistency.id, f.persistency.offset, a - f.start)
    <2>1. c \in Chunks
      BY <1>4 DEF Chunk, Chunks, Ranges
    <2>2. Q = <<PageRange(f.start, a - 1, c)>>
      BY <1>4, <1>8 DEF Q, SplitFirst, PositionInRange
    <2> HIDE DEF c
    <2>3. a - 1 \in Int /\ f.start <= a - 1 /\ f.start - 1 \in Int
      BY <1>4, <1>8
    <2>4. Tidy(Q, f.start, a - 1) /\ \A p \in Int : InCover(Q, p) <=> f.start <= p /\ p <= a - 1
      BY <1>4, <2>1, <2>2, <2>3, TidyOne
    <2>5. \A i \in 1 .. Len(R) : i <= first => R[i].end <= f.start - 1
      BY <1>1, <1>4, <1>5
    <2>6. /\ Tidy(P, lo, f.start - 1)
          /\ \A p : InCover(P, p)
                        <=> \E i \in 1 .. Len(R) : i <= first /\ R[i].start <= p /\ p <= R[i].end
      BY <1>2, <2>3, <2>5, LeadingTidy DEF P
    <2>7. lo <= f.start /\ f.start - 1 < f.start /\ f.start - 1 <= a - 1
      BY <1>4, <2>3
    <2>8. Tidy(P \o Q, lo, a - 1) /\ \A p : InCover(P \o Q, p) <=> InCover(P, p) \/ InCover(Q, p)
      BY <1>4, <2>3, <2>4, <2>6, <2>7, TidyGlue
    <2>9. ASSUME NEW p \in Int
          PROVE  InCover(P, p) \/ InCover(Q, p) <=> InCover(R, p) /\ p < a
      <3>1. ASSUME InCover(P, p)
            PROVE  InCover(R, p) /\ p < a
        <4>1. PICK i \in 1 .. Len(R) : i <= first /\ R[i].start <= p /\ p <= R[i].end
          BY <2>6, <3>1
        <4>2. R[i].end < a
          BY <1>2, <4>1
        <4> QED
          BY <1>1, <4>1, <4>2 DEF InCover
      <3>2. ASSUME InCover(Q, p)
            PROVE  InCover(R, p) /\ p < a
        <4>1. f.start <= p /\ p <= a - 1
          BY <2>4, <3>2
        <4>2. p < a /\ p <= f.end
          BY <1>4, <4>1
        <4> QED
          BY <1>3, <4>1, <4>2 DEF InCover, f
      <3>3. ASSUME InCover(R, p), p < a
            PROVE  InCover(P, p) \/ InCover(Q, p)
        <4>1. PICK i \in 1 .. Len(R) : R[i].start <= p /\ p <= R[i].end
          BY <3>3 DEF InCover
        <4>2. CASE i <= first
          BY <2>6, <4>1, <4>2
        <4>3. CASE first < i
          <5>1. f.start <= p /\ p <= a - 1
            BY <1>1, <1>4, <1>6, <3>3, <4>1, <4>3
          <5> QED
            BY <2>4, <5>1
        <4> QED
          BY <1>2, <4>2, <4>3
      <3> QED
        BY <3>1, <3>2, <3>3
    <2>10. Q \in Seq(Ranges)
      BY <2>4 DEF Tidy
    <2> QED
      BY <1>7, <2>8, <2>9, <2>10 DEF P, Q, f
  <1>9. CASE ~(f.start < a)
    <2>1. Q = <<>>
      BY <1>9 DEF Q, SplitFirst
    <2>2. P \o Q = P /\ Q \in Seq(Ranges)
      BY <1>7, <2>1, ConcatEmptySeq
    <2>3. \A i \in 1 .. Len(R) : first < i => a <= R[i].start
      BY <1>1, <1>4, <1>6, <1>9
    <2>4. Tidy(P, lo, a - 1) /\ \A p \in Int : InCover(P, p) <=> InCover(R, p) /\ p < a
      BY <2>3, Before DEF P
    <2> QED
      BY <1>7, <2>2, <2>4 DEF P, Q, f
  <1> QED
    BY <1>8, <1>9

\* What is left of the ranges behind a position, likewise.
LEMMA After ==
    ASSUME NEW R, NEW lo \in Int, NEW hi \in Int, Tidy(R, lo, hi),
           NEW b \in Int, NEW first \in Nat, \A i \in 1 .. Len(R) : first < i <=> b < R[i].start,
           \A i \in 1 .. Len(R) : i <= first => R[i].end <= b
    PROVE  /\ Tidy(SubSeq(R, first + 1, Len(R)), b + 1, hi)
           /\ \A p \in Int : InCover(SubSeq(R, first + 1, Len(R)), p) <=> InCover(R, p) /\ b < p
  <1> DEFINE W == SubSeq(R, first + 1, Len(R))
  <1>1. /\ Len(R) \in Nat
        /\ \A i \in 1 .. Len(R) : R[i].start \in Int /\ R[i].end \in Int /\ R[i].end <= hi
    BY TidyRange
  <1>2. \A i \in 1 .. Len(R) : first + 1 <= i /\ i <= Len(R) <=> first < i
    BY <1>1
  <1>3. \A i \in 1 .. Len(R) : first + 1 <= i /\ i <= Len(R) => b + 1 <= R[i].start /\ R[i].end <= hi
    BY <1>1, <1>2
  <1>4. first + 1 \in Int /\ 1 <= first + 1 /\ Len(R) \in Int /\ Len(R) <= Len(R) /\ b + 1 \in Int
    BY <1>1
  <1>5. /\ Tidy(W, b + 1, hi)
        /\ \A p : InCover(W, p) <=> \E i \in 1 .. Len(R) : first + 1 <= i /\ i <= Len(R)
                                                               /\ R[i].start <= p /\ p <= R[i].end
    BY <1>3, <1>4, TidyPart
  <1>6. \A p \in Int : InCover(W, p) <=> InCover(R, p) /\ b < p
    <2> SUFFICES ASSUME NEW p \in Int
                 PROVE  InCover(W, p) <=> InCover(R, p) /\ b < p
      OBVIOUS
    <2>1. ASSUME InCover(W, p)
          PROVE  InCover(R, p) /\ b < p
      <3>1. PICK i \in 1 .. Len(R) : first < i /\ R[i].start <= p /\ p <= R[i].end
        BY <1>2, <1>5, <2>1
      <3>2. b < R[i].start
        BY <3>1
      <3> QED
        BY <1>1, <3>1, <3>2 DEF InCover
    <2>2. ASSUME InCover(R, p), b < p
          PROVE  InCover(W, p)
      <3>1. PICK i \in 1 .. Len(R) : R[i].start <= p /\ p <= R[i].end
        BY <2>2 DEF InCover
      <3>2. ~(i <= first)
        BY <1>1, <2>2, <3>1
      <3>3. first + 1 <= i /\ i <= Len(R)
        BY <1>1, <3>2
      <3> QED
        BY <1>5, <3>1, <3>3
    <2> QED
      BY <2>1, <2>2
  <1> QED
    BY <1>5, <1>6

LEMMA AfterSplit ==
    ASSUME NEW R, NEW lo \in Int, NEW hi \in Int, Tidy(R, lo, hi),
           NEW b \in Int, NEW last, LastIs(R, b, last), 0 <= last
    PROVE  /\ SplitLast(R[last + 1], b) \in Seq(Ranges)
           /\ SubSeq(R, last + 2, Len(R)) \in Seq(Ranges)
           /\ Tidy(SplitLast(R[last + 1], b) \o SubSeq(R, last + 2, Len(R)), b + 1, hi)
           /\ \A p \in Int : InCover(SplitLast(R[last + 1], b) \o SubSeq(R, last + 2, Len(R)), p)
                                 <=> InCover(R, p) /\ b < p
  <1> DEFINE f == R[last + 1]
             P == SplitLast(f, b)
             Q == SubSeq(R, last + 2, Len(R))
             n == last + 1
  <1>1. /\ Len(R) \in Nat
        /\ \A i \in 1 .. Len(R) : /\ R[i].start \in Int /\ R[i].end \in Int
                                  /\ R[i].start <= R[i].end /\ R[i].end <= hi
        /\ \A i, j \in 1 .. Len(R) : i < j => R[i].end < R[j].start
    BY TidyRange
  <1>2. /\ last \in Int /\ last < Len(R)
        /\ \A i \in 1 .. Len(R) : R[i].start <= b <=> i <= n
    BY DEF LastIs
  <1>3. n \in 1 .. Len(R) /\ n \in Nat /\ n + 1 = last + 2 /\ n <= n
    BY <1>1, <1>2
  <1>4. f \in Ranges /\ f.start \in Int /\ f.end \in Int /\ f.start <= f.end /\ f.end <= hi /\ f.start <= b
    BY <1>2, <1>3, TidyRange
  <1>5. \A i \in 1 .. Len(R) : n < i => f.end < R[i].start
    BY <1>1, <1>3
  <1>6. \A i \in 1 .. Len(R) : i <= n => R[i].end <= f.end
    <2> SUFFICES ASSUME NEW i \in 1 .. Len(R), i <= n
                 PROVE  R[i].end <= R[n].end
      OBVIOUS
    <2>1. i = n \/ i < n
      BY <1>3
    <2>2. i < n => R[i].end < R[n].start
      BY <1>1, <1>3
    <2> QED
      BY <1>1, <1>3, <2>1, <2>2
  <1>7. \A i \in 1 .. Len(R) : n < i <=> ~(i <= n)
    BY <1>3
  <1> HIDE DEF f, P, Q, n
  <1>8. CASE b < f.end
    <2> DEFINE c == Chunk(f.persistency.id, f.persistency.offset + (b + 1 - f.start), f.end - b)
    <2>1. c \in Chunks
      BY <1>4 DEF Chunk, Chunks, Ranges
    <2>2. P = <<PageRange(b + 1, f.end, c)>>
      BY <1>4, <1>8 DEF P, SplitLast, PositionInRange
    <2> HIDE DEF c
    <2>3. b + 1 \in Int /\ b + 1 <= f.end /\ f.end + 1 \in Int
      BY <1>4, <1>8
    <2>4. Tidy(P, b + 1, f.end) /\ \A p \in Int : InCover(P, p) <=> b + 1 <= p /\ p <= f.end
      BY <1>4, <2>1, <2>2, <2>3, TidyOne
    <2>5. \A i \in 1 .. Len(R) : n < i <=> f.end < R[i].start
      <3> SUFFICES ASSUME NEW i \in 1 .. Len(R), ~(n < i)
                   PROVE  ~(f.end < R[i].start)
        BY <1>5
      <3>1. R[i].end <= f.end
        BY <1>6, <1>7
      <3> QED
        BY <1>1, <1>4, <3>1
    <2>6. /\ Tidy(Q, f.end + 1, hi)
          /\ \A p \in Int : InCover(Q, p) <=> InCover(R, p) /\ f.end < p
      <3>1. /\ Tidy(SubSeq(R, n + 1, Len(R)), f.end + 1, hi)
            /\ \A p \in Int : InCover(SubSeq(R, n + 1, Len(R)), p) <=> InCover(R, p) /\ f.end < p
        BY <1>3, <1>4, <1>6, <2>5, After
      <3> QED
        BY <1>3, <3>1 DEF Q
    <2>7. /\ b + 1 \in Int /\ f.end \in Int /\ f.end + 1 \in Int
          /\ b + 1 <= f.end + 1 /\ f.end < f.end + 1 /\ f.end <= hi
      BY <1>4, <2>3
    <2>8. Tidy(P \o Q, b + 1, hi) /\ \A p : InCover(P \o Q, p) <=> InCover(P, p) \/ InCover(Q, p)
      <3>1. PICK s, e, t : s = b + 1 /\ e = f.end /\ t = f.end + 1
        OBVIOUS
      <3>2. /\ s \in Int /\ e \in Int /\ t \in Int /\ s <= t /\ e < t /\ e <= hi
            /\ Tidy(P, s, e) /\ Tidy(Q, t, hi)
        BY <2>4, <2>6, <2>7, <3>1
      <3>3. Tidy(P \o Q, s, hi) /\ \A p : InCover(P \o Q, p) <=> InCover(P, p) \/ InCover(Q, p)
        BY <3>2, TidyGlue
      <3> QED
        BY <3>1, <3>3
    <2>9. ASSUME NEW p \in Int
          PROVE  InCover(P, p) \/ InCover(Q, p) <=> InCover(R, p) /\ b < p
      <3>1. ASSUME b + 1 <= p, p <= f.end
            PROVE  InCover(R, p) /\ b < p
        <4>1. f.start <= p /\ b < p
          BY <1>4, <3>1
        <4> QED
          BY <1>3, <3>1, <4>1 DEF InCover, f, n
      <3>2. ASSUME InCover(R, p), f.end < p
            PROVE  b < p
        BY <1>4, <1>8, <3>2
      <3>3. ASSUME InCover(R, p), b < p, ~(f.end < p)
            PROVE  b + 1 <= p /\ p <= f.end
        BY <1>4, <3>3
      <3> QED
        BY <2>4, <2>6, <3>1, <3>2, <3>3
    <2>10. P \in Seq(Ranges) /\ Q \in Seq(Ranges)
      BY <2>4, <2>6 DEF Tidy
    <2> QED
      BY <2>8, <2>9, <2>10 DEF P, Q, f
  <1>9. CASE ~(b < f.end)
    <2>1. P = <<>>
      BY <1>9 DEF P, SplitLast
    <2>2. \A i \in 1 .. Len(R) : n < i <=> b < R[i].start
      BY <1>1, <1>2, <1>7
    <2>3. \A i \in 1 .. Len(R) : i <= n => R[i].end <= b
      BY <1>1, <1>4, <1>6, <1>9
    <2>4. /\ Tidy(SubSeq(R, n + 1, Len(R)), b + 1, hi)
          /\ \A p \in Int : InCover(SubSeq(R, n + 1, Len(R)), p) <=> InCover(R, p) /\ b < p
      BY <1>3, <2>2, <2>3, After
    <2>5. Tidy(Q, b + 1, hi) /\ \A p \in Int : InCover(Q, p) <=> InCover(R, p) /\ b < p
      BY <1>3, <2>4 DEF Q
    <2>6. Q \in Seq(Ranges)
      BY <2>5 DEF Tidy
    <2>7. P \o Q = Q /\ P \in Seq(Ranges)
      BY <2>1, <2>6, ConcatEmptySeq
    <2> QED
      BY <2>5, <2>6, <2>7 DEF P, Q, f
  <1> QED
    BY <1>8, <1>9

\* r is (a piece of) the range q, with the chunk that belongs to it.
Wide(q) == q.persistency.count = q.end - q.start + 1
PieceOf(r, q) ==
    /\ q.start <= r.start /\ r.end <= q.end
    /\ r.persistency.id = q.persistency.id
    /\ r.persistency.offset = q.persistency.offset + (r.start - q.start)
    /\ Wide(q) => Wide(r)
PiecesOf(P, R) == \A i \in 1 .. Len(P) : \E k \in 1 .. Len(R) : PieceOf(P[i], R[k])

LEMMA WholeIsPiece ==
    ASSUME NEW q \in Ranges
    PROVE  PieceOf(q, q)
  <1>1. q.start \in Int /\ q.end \in Int /\ q.persistency.offset \in Int
    BY DEF Ranges, Chunks
  <1> QED
    BY <1>1 DEF PieceOf

LEMMA PiecesGlue ==
    ASSUME NEW R, NEW P \in Seq(Ranges), NEW Q \in Seq(Ranges), PiecesOf(P, R), PiecesOf(Q, R)
    PROVE  PiecesOf(P \o Q, R)
  <1> DEFINE m == Len(P)
             n == Len(Q)
             W == P \o Q
  <1>1. /\ m \in Nat /\ n \in Nat /\ Len(W) = m + n
        /\ \A i \in 1 .. m + n : W[i] = IF i <= m THEN P[i] ELSE Q[i - m]
    BY ConcatProperties
  <1>2. /\ \A i \in 1 .. m : \E k \in 1 .. Len(R) : PieceOf(P[i], R[k])
        /\ \A i \in 1 .. n : \E k \in 1 .. Len(R) : PieceOf(Q[i], R[k])
    BY DEF PiecesOf
  <1> HIDE DEF m, n, W
  <1>3. ASSUME NEW i \in 1 .. m + n
        PROVE  \E k \in 1 .. Len(R) : PieceOf(W[i], R[k])
    <2>1. CASE i <= m
      <3>1. i \in 1 .. m /\ W[i] = P[i]
        BY <1>1, <2>1
      <3> QED
        BY <1>2, <3>1
    <2>2. CASE ~(i <= m)
      <3>1. i - m \in 1 .. n /\ W[i] = Q[i - m]
        BY <1>1, <2>2
      <3> QED
        BY <1>2, <3>1
    <2> QED
      BY <2>1, <2>2
  <1> QED
    BY <1>1, <1>3 DEF PiecesOf, W

LEMMA RangesSub ==
    ASSUME NEW R \in Seq(Ranges), NEW m \in Int, NEW n \in Int, 1 <= m, m <= n, n <= Len(R), NEW W, W = SubSeq(R, m, n)
    PROVE  /\ W \in Seq(Ranges) /\ Len(W) = n - m + 1
           /\ \A i \in 1 .. n - m + 1 : W[i] = R[m + i - 1]
  <1>1. Len(R) \in Nat /\ \A i \in 1 .. Len(R) : R[i] \in Ranges
    BY ElementOfSeq
  <1>2. \A i \in m .. n : R[i] \in Ranges
    BY <1>1
  <1> QED
    BY <1>2, SubSeqProperties

LEMMA PiecesOfSub ==
    ASSUME NEW R \in Seq(Ranges), NEW m \in Int, NEW n \in Int, 1 <= m, n <= Len(R)
    PROVE  PiecesOf(SubSeq(R, m, n), R) /\ SubSeq(R, m, n) \in Seq(Ranges)
  <1> DEFINE W == SubSeq(R, m, n)
  <1>1. Len(R) \in Nat /\ \A i \in 1 .. Len(R) : R[i] \in Ranges
    BY ElementOfSeq
  <1>2. \A i \in m .. n : R[i] \in Ranges
    BY <1>1
  <1>3. /\ W \in Seq(Ranges) /\ Len(W) = IF m <= n THEN n - m + 1 ELSE 0
        /\ \A i \in 1 .. n - m + 1 : W[i] = R[m + i - 1]
    BY <1>2, SubSeqProperties
  <1> HIDE DEF W
  <1>4. ASSUME NEW i \in 1 .. Len(W)
        PROVE  \E k \in 1 .. Len(R) : PieceOf(W[i], R[k])
    <2>1. PICK k : k = m + i - 1
      OBVIOUS
    <2>2. k \in 1 .. Len(R) /\ W[i] = R[k]
      BY <1>1, <1>3, <2>1, SMTT(30)
    <2>3. PieceOf(R[k], R[k])
      BY <1>1, <2>2, WholeIsPiece
    <2> QED
      BY <2>2, <2>3
  <1> QED
    BY <1>3, <1>4 DEF PiecesOf, W

LEMMA PiecesOfSplits ==
    ASSUME NEW R \in Seq(Ranges), NEW k \in 1 .. Len(R), NEW p \in Int
    PROVE  PiecesOf(SplitFirst(R[k], p), R) /\ PiecesOf(SplitLast(R[k], p), R)
  <1> DEFINE f == R[k]
  <1>1. f \in Ranges
    BY ElementOfSeq
  <1>2. /\ f.start \in Int /\ f.end \in Int /\ f.persistency.offset \in Int
    BY <1>1 DEF Ranges, Chunks
  <1> HIDE DEF f
  <1>3. PiecesOf(<<>>, R)
    BY DEF PiecesOf
  <1>4. \A r : PieceOf(r, f) => PiecesOf(<<r>>, R)
    BY DEF PiecesOf, f
  <1>5. PiecesOf(SplitFirst(f, p), R)
    <2> DEFINE r == PageRange(f.start, p - 1, Chunk(f.persistency.id, f.persistency.offset, p - f.start))
    <2>1. f.start < p /\ p <= f.end => PieceOf(r, f)
      BY <1>2, SMTT(30) DEF PieceOf, Wide, PageRange, Chunk
    <2>2. SplitFirst(f, p) = IF PositionInRange(f, p) /\ f.start < p THEN <<r>> ELSE <<>>
      BY DEF SplitFirst
    <2> HIDE DEF r
    <2> QED
      BY <1>3, <1>4, <2>1, <2>2 DEF PositionInRange
  <1>6. PiecesOf(SplitLast(f, p), R)
    <2> DEFINE r == PageRange(p + 1, f.end, Chunk(f.persistency.id,
                        f.persistency.offset + (p + 1 - f.start), f.end - p))
    <2>1. f.start <= p /\ p < f.end => PieceOf(r, f)
      BY <1>2, SMTT(30) DEF PieceOf, Wide, PageRange, Chunk
    <2>2. SplitLast(f, p) = IF PositionInRange(f, p) /\ p < f.end THEN <<r>> ELSE <<>>
      BY DEF SplitLast
    <2> HIDE DEF r
    <2> QED
      BY <1>3, <1>4, <2>1, <2>2 DEF PositionInRange
  <1> QED
    BY <1>5, <1>6 DEF f

LEMMA PiecesOfLeading ==
    ASSUME NEW R \in Seq(Ranges), NEW first \in Nat
    PROVE  PiecesOf(Leading(R, first), R) /\ Leading(R, first) \in Seq(Ranges)
  <1>1. PICK n : n = Smaller(first, Len(R))
    OBVIOUS
  <1>2. n \in Int /\ n <= Len(R) /\ 1 \in Int /\ 1 <= 1
    BY <1>1 DEF Smaller
  <1>3. PiecesOf(SubSeq(R, 1, n), R) /\ SubSeq(R, 1, n) \in Seq(Ranges)
    BY <1>2, PiecesOfSub
  <1> QED
    BY <1>1, <1>3 DEF Leading

LEMMA PiecesOfScope ==
    ASSUME NEW R \in Seq(Ranges), NEW first \in Nat, NEW last \in Int, NEW a \in Int, NEW b \in Int,
           first < Len(R), 0 <= last, last < Len(R),
           SplitFirst(R[first + 1], a) \in Seq(Ranges), SplitLast(R[last + 1], b) \in Seq(Ranges)
    PROVE  /\ PiecesOf(Leading(R, first) \o SplitFirst(R[first + 1], a), R)
           /\ PiecesOf(SplitLast(R[last + 1], b) \o SubSeq(R, last + 2, Len(R)), R)
  <1>1. Len(R) \in Nat /\ first + 1 \in 1 .. Len(R) /\ last + 1 \in 1 .. Len(R)
    OBVIOUS
  <1>2. PiecesOf(SplitFirst(R[first + 1], a), R) /\ PiecesOf(SplitLast(R[last + 1], b), R)
    BY <1>1, PiecesOfSplits
  <1>3. PiecesOf(Leading(R, first), R) /\ Leading(R, first) \in Seq(Ranges)
    BY PiecesOfLeading
  <1>4. PiecesOf(SubSeq(R, last + 2, Len(R)), R) /\ SubSeq(R, last + 2, Len(R)) \in Seq(Ranges)
    <2>1. last + 2 \in Int /\ 1 <= last + 2 /\ Len(R) \in Int /\ Len(R) <= Len(R)
      BY <1>1
    <2> QED
      BY <2>1, PiecesOfSub
  <1> QED
    BY <1>2, <1>3, <1>4, PiecesGlue

\* What the scope of start .. end says about the ranges.
LEMMA ScopeFound ==
    ASSUME NEW R, NEW lo \in Int, NEW hi \in Int, Tidy(R, lo, hi), Len(R) <= Infinity, Infinity \in Nat,
           NEW a \in Int, NEW b \in Int, a <= b,
           NEW first, NEW last, first = LocateFirstImpactedRange(R, a),
           last = LocateLastImpactedRange(R, b)
    PROVE  /\ SelectImpactedRanges(R, a, b) = [first |-> first, last |-> last]
           /\ FirstIs(R, a, first) /\ LastIs(R, b, last)
           /\ first \in Nat /\ last \in Int /\ last < Len(R)
           /\ first > last =>
                  /\ Count(SelectImpactedRanges(R, a, b)) = 0
                  /\ \A i \in 1 .. Len(R) : first < i <=> b < R[i].start
                  /\ \A i \in 1 .. Len(R) : first < i => a <= R[i].start
                  /\ \A i \in 1 .. Len(R) : i <= first => R[i].end <= b
                  /\ \A p \in Int : InCover(R, p) => ~(a <= p /\ p <= b)
           /\ ~(first > last) =>
                  /\ Count(SelectImpactedRanges(R, a, b)) = last - first + 1
                  /\ Count(SelectImpactedRanges(R, a, b)) # 0
                  /\ first < Len(R) /\ 0 <= last
  <1> DEFINE S == SelectImpactedRanges(R, a, b)
  <1>1. S = [first |-> first, last |-> last]
    BY DEF SelectImpactedRanges
  <1>2. FirstIs(R, a, first) /\ LastIs(R, b, last)
    BY FirstFound, LastFound
  <1>3. first \in Nat /\ last \in Int /\ last < Len(R) /\ S.first = first /\ S.last = last
    BY <1>1, <1>2 DEF FirstIs, LastIs
  <1>4. /\ \A i \in 1 .. Len(R) : R[i].end < a <=> i <= first
        /\ \A i \in 1 .. Len(R) : R[i].start <= b <=> i <= last + 1
    BY <1>2 DEF FirstIs, LastIs
  <1>5. Len(R) \in Nat /\ \A i \in 1 .. Len(R) : R[i].start \in Int /\ R[i].end \in Int
    BY TidyRange
  <1>6. ASSUME first > last
        PROVE  /\ Count(S) = 0
               /\ \A i \in 1 .. Len(R) : first < i <=> b < R[i].start
               /\ \A i \in 1 .. Len(R) : first < i => a <= R[i].start
               /\ \A i \in 1 .. Len(R) : i <= first => R[i].end <= b
               /\ \A p \in Int : InCover(R, p) => ~(a <= p /\ p <= b)
    <2>1. Count(S) = 0
      BY <1>3, <1>6 DEF Count
    <2>2. \A i \in 1 .. Len(R) : i <= first => R[i].end <= b
      BY <1>4, <1>5
    <2>3. \A i \in 1 .. Len(R) : first < i => b < R[i].start /\ a <= R[i].start
      <3> SUFFICES ASSUME NEW i \in 1 .. Len(R), first < i
                   PROVE  b < R[i].start /\ a <= R[i].start
        OBVIOUS
      <3>1. ~(i <= last + 1)
        BY <1>3, <1>6
      <3>2. ~(R[i].start <= b)
        BY <1>4, <3>1
      <3> QED
        BY <1>5, <3>2
    <2>4. ASSUME NEW i \in 1 .. Len(R), b < R[i].start
          PROVE  first < i
      <3>1. ~(R[i].end < a)
        <4>1. R[i].start <= R[i].end
          BY TidyRange
        <4> QED
          BY <1>5, <2>4, <4>1
      <3> QED
        BY <1>3, <1>4, <3>1
    <2>5. ASSUME NEW p \in Int, InCover(R, p)
          PROVE  ~(a <= p /\ p <= b)
      <3>1. PICK i \in 1 .. Len(R) : R[i].start <= p /\ p <= R[i].end
        BY <2>5 DEF InCover
      <3>2. CASE i <= first
        BY <1>4, <1>5, <3>1, <3>2
      <3>3. CASE first < i
        BY <1>5, <2>3, <3>1, <3>3
      <3> QED
        BY <1>3, <3>2, <3>3
    <2> QED
      BY <2>1, <2>2, <2>3, <2>4, <2>5
  <1>7. ASSUME ~(first > last)
        PROVE  Count(S) = last - first + 1 /\ Count(S) # 0 /\ first < Len(R) /\ 0 <= last
    BY <1>3, <1>5, <1>7 DEF Count
  <1> QED
    BY <1>1, <1>2, <1>3, <1>6, <1>7

LEMMA Regroup ==
    \A P, Q, W \in Seq(Ranges) : /\ (P \o Q) \o W = P \o (Q \o W)
                               /\ P \o Q \in Seq(Ranges)
  <1> SUFFICES ASSUME NEW P \in Seq(Ranges), NEW Q \in Seq(Ranges), NEW W \in Seq(Ranges)
               PROVE  (P \o Q) \o W = P \o (Q \o W) /\ P \o Q \in Seq(Ranges)
    OBVIOUS
  <1>1. (P \o Q) \o W = P \o (Q \o W)
    BY ConcatAssociative, SMT
  <1>2. P \o Q \in Seq(Ranges)
    BY ConcatProperties
  <1> QED
    BY <1>1, <1>2

\* M is R with a new range between pieces of the old ones.
Merged(M, R, lo, hi, a, b, c) ==
    \E P, Q : /\ M = P \o <<PageRange(a, b, c)>> \o Q
             /\ Tidy(P, lo, a - 1) /\ Tidy(Q, b + 1, hi)
             /\ PiecesOf(P, R) /\ PiecesOf(Q, R)

LEMMA MergeRangeCovers ==
    ASSUME NEW R, NEW lo \in Int, NEW hi \in Int, Tidy(R, lo, hi), Len(R) <= Infinity, Infinity \in Nat,
           NEW a \in Int, NEW b \in Int, lo <= a, a <= b, b <= hi, NEW c \in Chunks
    PROVE  /\ Tidy(MergeRange(R, a, b, c), lo, hi)
           /\ \A p \in Int : InCover(MergeRange(R, a, b, c), p)
                                 <=> InCover(R, p) \/ (a <= p /\ p <= b)
           /\ Merged(MergeRange(R, a, b, c), R, lo, hi, a, b, c)
  <1> DEFINE M == MergeRange(R, a, b, c)
             new == <<PageRange(a, b, c)>>
             scope == SelectImpactedRanges(R, a, b)
             Good(X, Y) == Tidy(X, lo, a - 1) /\ Tidy(Y, b + 1, hi) /\ PiecesOf(X, R) /\ PiecesOf(Y, R)
  <1>0. R \in Seq(Ranges) /\ Len(R) \in Nat
    BY TidyRange
  <1>1. PICK first, last : /\ first = LocateFirstImpactedRange(R, a)
                           /\ last = LocateLastImpactedRange(R, b)
    OBVIOUS
  <1>2. /\ scope = [first |-> first, last |-> last]
        /\ FirstIs(R, a, first) /\ LastIs(R, b, last)
        /\ first \in Nat /\ last \in Int /\ last < Len(R)
    BY <1>1, ScopeFound
  <1>3. scope.first = first /\ scope.last = last
    BY <1>2
  <1>4. M = IF Count(scope) = 0 THEN Splice(R, first, 0, new)
            ELSE Splice(R, first, Count(scope),
                        SplitFirst(R[first + 1], a) \o new \o SplitLast(R[last + 1], b))
    BY <1>3 DEF MergeRange
  <1> HIDE DEF scope, M
  <1>5. Tidy(new, a, b) /\ (\A p \in Int : InCover(new, p) <=> a <= p /\ p <= b) /\ new \in Seq(Ranges)
    BY TidyOne DEF Tidy
  <1> HIDE DEF new
  <1>6. ASSUME NEW P, NEW Q, Tidy(P, lo, a - 1), Tidy(Q, b + 1, hi),
               \A p \in Int : InCover(P, p) <=> InCover(R, p) /\ p < a,
               \A p \in Int : InCover(Q, p) <=> InCover(R, p) /\ b < p
        PROVE  /\ Tidy(P \o new \o Q, lo, hi)
               /\ \A p \in Int : InCover(P \o new \o Q, p) <=> InCover(R, p) \/ (a <= p /\ p <= b)
    <2>1. PICK x, y : x = a - 1 /\ y = b + 1
      OBVIOUS
    <2>2. /\ x \in Int /\ y \in Int /\ x < a /\ x <= b /\ b < y /\ lo <= y
          /\ Tidy(P, lo, x) /\ Tidy(Q, y, hi)
      BY <1>6, <2>1
    <2>3. Tidy(P \o new, lo, b) /\ \A p : InCover(P \o new, p) <=> InCover(P, p) \/ InCover(new, p)
      BY <1>5, <2>2, TidyGlue
    <2> DEFINE W == P \o new
    <2>4. Tidy(W, lo, b)
      BY <2>3
    <2> HIDE DEF W
    <2>5. Tidy(W \o Q, lo, hi) /\ \A p : InCover(W \o Q, p) <=> InCover(W, p) \/ InCover(Q, p)
      BY <2>2, <2>4, TidyGlue
    <2>6. \A p \in Int : InCover(W \o Q, p) <=> InCover(R, p) \/ (a <= p /\ p <= b)
      <3> SUFFICES ASSUME NEW p \in Int
                   PROVE  InCover(W \o Q, p) <=> InCover(R, p) \/ (a <= p /\ p <= b)
        OBVIOUS
      <3>1. /\ InCover(W \o Q, p) <=> InCover(P, p) \/ InCover(new, p) \/ InCover(Q, p)
            /\ InCover(P, p) <=> InCover(R, p) /\ p < a
            /\ InCover(new, p) <=> a <= p /\ p <= b
            /\ InCover(Q, p) <=> InCover(R, p) /\ b < p
        BY <1>5, <1>6, <2>3, <2>5 DEF W
      <3>2. p < a \/ (a <= p /\ p <= b) \/ b < p
        OBVIOUS
      <3> QED
        BY <3>1, <3>2
    <2> QED
      BY <2>5, <2>6 DEF W
  <1> DEFINE Goal == /\ Tidy(M, lo, hi)
                     /\ \A p \in Int : InCover(M, p) <=> InCover(R, p) \/ (a <= p /\ p <= b)
                     /\ \E X, Y : M = X \o new \o Y /\ Good(X, Y)
  <1>7. ASSUME first > last
        PROVE  Goal
    <2>1. /\ Count(scope) = 0
          /\ \A i \in 1 .. Len(R) : first < i <=> b < R[i].start
          /\ \A i \in 1 .. Len(R) : first < i => a <= R[i].start
          /\ \A i \in 1 .. Len(R) : i <= first => R[i].end <= b
      BY <1>1, <1>7, ScopeFound DEF scope
    <2> DEFINE P == Leading(R, first)
               Q == SubSeq(R, first + 1, Len(R))
    <2>2. M = P \o new \o Q
      <3>1. first + 0 + 1 = first + 1
        BY <1>2
      <3> QED
        BY <1>4, <2>1, <3>1 DEF Splice, Leading
    <2>3. Tidy(P, lo, a - 1) /\ \A p \in Int : InCover(P, p) <=> InCover(R, p) /\ p < a
      BY <1>2, <2>1, Before
    <2>4. Tidy(Q, b + 1, hi) /\ \A p \in Int : InCover(Q, p) <=> InCover(R, p) /\ b < p
      BY <1>2, <2>1, After
    <2>5. PiecesOf(P, R) /\ PiecesOf(Q, R)
      <3>1. first + 1 \in Int /\ 1 <= first + 1 /\ Len(R) \in Int /\ Len(R) <= Len(R)
        BY <1>2, <1>0
      <3> QED
        BY <1>0, <1>2, <3>1, PiecesOfLeading, PiecesOfSub
    <2> HIDE DEF P, Q
    <2>6. \E X, Y : M = X \o new \o Y /\ Good(X, Y)
      BY <2>2, <2>3, <2>4, <2>5
    <2> HIDE DEF Good
    <2> QED
      BY <1>6, <2>2, <2>3, <2>4, <2>6 DEF M
  <1>8. ASSUME ~(first > last)
        PROVE  Goal
    <2>1. /\ Count(scope) = last - first + 1 /\ Count(scope) # 0
          /\ first < Len(R) /\ 0 <= last
      BY <1>1, <1>8, ScopeFound DEF scope
    <2> DEFINE F == Leading(R, first)
               SF == SplitFirst(R[first + 1], a)
               SL == SplitLast(R[last + 1], b)
               B == SubSeq(R, last + 2, Len(R))
    <2>2. M = F \o (SF \o new \o SL) \o B
      <3>1. first + Count(scope) + 1 = last + 2
        BY <1>2, <2>1
      <3> QED
        BY <1>4, <2>1, <3>1 DEF Splice, Leading
    <2>3. /\ SF \in Seq(Ranges) /\ F \in Seq(Ranges) /\ Tidy(F \o SF, lo, a - 1)
          /\ \A p \in Int : InCover(F \o SF, p) <=> InCover(R, p) /\ p < a
      BY <1>2, <2>1, BeforeSplit
    <2>4. /\ SL \in Seq(Ranges) /\ B \in Seq(Ranges) /\ Tidy(SL \o B, b + 1, hi)
          /\ \A p \in Int : InCover(SL \o B, p) <=> InCover(R, p) /\ b < p
      BY <1>2, <2>1, AfterSplit
    <2> HIDE DEF F, SF, SL, B
    <2>5. M = (F \o SF) \o new \o (SL \o B)
      <3>1. /\ SF \o new \in Seq(Ranges) /\ F \o SF \in Seq(Ranges)
            /\ (F \o SF) \o new \in Seq(Ranges) /\ (SF \o new) \o SL \in Seq(Ranges)
        BY <1>5, <2>3, <2>4, Regroup, Zenon
      <3>2. F \o ((SF \o new) \o SL) = (F \o (SF \o new)) \o SL
        BY <2>3, <2>4, <3>1, Regroup, ZenonT(30)
      <3>3. F \o (SF \o new) = (F \o SF) \o new
        BY <1>5, <2>3, Regroup, Zenon
      <3>4. \A X \in Seq(Ranges) : (X \o SL) \o B = X \o (SL \o B)
        BY <2>4, Regroup, ZenonT(30)
      <3> QED
        BY <2>2, <3>1, <3>2, <3>3, <3>4
    <2>6. PiecesOf(F \o SF, R) /\ PiecesOf(SL \o B, R)
      BY <1>0, <1>2, <2>1, <2>3, <2>4, PiecesOfScope DEF F, SF, SL, B
    <2>7. \E X, Y : M = X \o new \o Y /\ Good(X, Y)
      BY <2>3, <2>4, <2>5, <2>6
    <2> HIDE DEF Good
    <2> QED
      BY <1>6, <2>3, <2>4, <2>5, <2>7 DEF M
  <1> QED
    BY <1>2, <1>7, <1>8 DEF M, new, Merged

LEMMA ClearRangeCovers ==
    ASSUME NEW R, NEW lo \in Int, NEW hi \in Int, Tidy(R, lo, hi), Len(R) <= Infinity, Infinity \in Nat,
           NEW a \in Int, NEW b \in Int, lo <= a, a <= b, a <= hi
    PROVE  /\ Tidy(ClearRange(R, a, b), lo, hi)
           /\ \A p \in Int : InCover(ClearRange(R, a, b), p)
                                 <=> InCover(R, p) /\ ~(a <= p /\ p <= b)
           /\ PiecesOf(ClearRange(R, a, b), R)
  <1>0. R \in Seq(Ranges) /\ Len(R) \in Nat
    BY TidyRange
  <1> DEFINE M == ClearRange(R, a, b)
             scope == SelectImpactedRanges(R, a, b)
  <1>1. PICK first, last : /\ first = LocateFirstImpactedRange(R, a)
                           /\ last = LocateLastImpactedRange(R, b)
    OBVIOUS
  <1>2. /\ scope = [first |-> first, last |-> last]
        /\ FirstIs(R, a, first) /\ LastIs(R, b, last)
        /\ first \in Nat /\ last \in Int /\ last < Len(R)
    BY <1>1, ScopeFound
  <1>3. scope.first = first /\ scope.last = last
    BY <1>2
  <1>4. M = IF Count(scope) = 0 THEN R
            ELSE Splice(R, first, Count(scope),
                        SplitFirst(R[first + 1], a) \o SplitLast(R[last + 1], b))
    BY <1>3 DEF ClearRange
  <1> HIDE DEF scope, M
  <1>7. CASE first > last
    <2>1. /\ Count(scope) = 0
          /\ \A p \in Int : InCover(R, p) => ~(a <= p /\ p <= b)
      BY <1>1, <1>7, ScopeFound DEF scope
    <2>2. M = R
      BY <1>4, <2>1
    <2>3. PiecesOf(R, R)
      <3>1. \A i \in 1 .. Len(R) : PieceOf(R[i], R[i])
        BY <1>0, ElementOfSeq, WholeIsPiece
      <3> QED
        BY <3>1 DEF PiecesOf
    <2> QED
      BY <2>1, <2>2, <2>3 DEF M
  <1>8. CASE ~(first > last)
    <2>1. /\ Count(scope) = last - first + 1 /\ Count(scope) # 0
          /\ first < Len(R) /\ 0 <= last
      BY <1>1, <1>8, ScopeFound DEF scope
    <2> DEFINE F == Leading(R, first)
               SF == SplitFirst(R[first + 1], a)
               SL == SplitLast(R[last + 1], b)
               B == SubSeq(R, last + 2, Len(R))
    <2>2. M = F \o (SF \o SL) \o B
      <3>1. first + Count(scope) + 1 = last + 2
        BY <1>2, <2>1
      <3> QED
        BY <1>4, <2>1, <3>1 DEF Splice, Leading
    <2>3. /\ SF \in Seq(Ranges) /\ F \in Seq(Ranges) /\ Tidy(F \o SF, lo, a - 1)
          /\ \A p \in Int : InCover(F \o SF, p) <=> InCover(R, p) /\ p < a
      BY <1>2, <2>1, BeforeSplit
    <2>4. /\ SL \in Seq(Ranges) /\ B \in Seq(Ranges) /\ Tidy(SL \o B, b + 1, hi)
          /\ \A p \in Int : InCover(SL \o B, p) <=> InCover(R, p) /\ b < p
      BY <1>2, <2>1, AfterSplit
    <2> HIDE DEF F, SF, SL, B
    <2>5. M = (F \o SF) \o (SL \o B)
      <3>1. F \o SF \in Seq(Ranges)
        BY <2>3, Regroup, Zenon
      <3>2. F \o (SF \o SL) = (F \o SF) \o SL
        BY <2>3, <2>4, Regroup, Zenon
      <3>3. ((F \o SF) \o SL) \o B = (F \o SF) \o (SL \o B)
        BY <2>4, <3>1, Regroup, Zenon
      <3> QED
        BY <2>2, <3>2, <3>3
    <2> DEFINE P == F \o SF
               Q == SL \o B
    <2>11. PiecesOf(P \o Q, R)
      <3>1. P \in Seq(Ranges) /\ Q \in Seq(Ranges)
        BY <2>3, <2>4, Regroup
      <3>2. PiecesOf(P, R) /\ PiecesOf(Q, R)
        BY <1>0, <1>2, <2>1, <2>3, <2>4, PiecesOfScope DEF F, SF, SL, B
      <3> QED
        BY <3>1, <3>2, PiecesGlue
    <2>6. PICK x, y : x = a - 1 /\ y = b + 1
      OBVIOUS
    <2>7. x \in Int /\ y \in Int /\ x < y /\ x <= hi /\ lo <= y /\ Tidy(P, lo, x) /\ Tidy(Q, y, hi)
      BY <2>3, <2>4, <2>6
    <2>8. /\ \A p \in Int : InCover(P, p) <=> InCover(R, p) /\ p < a
          /\ \A p \in Int : InCover(Q, p) <=> InCover(R, p) /\ b < p
          /\ M = P \o Q
      BY <2>3, <2>4, <2>5
    <2> HIDE DEF P, Q
    <2>9. Tidy(P \o Q, lo, hi) /\ \A p : InCover(P \o Q, p) <=> InCover(P, p) \/ InCover(Q, p)
      BY <2>7, TidyGlue
    <2>10. \A p \in Int : InCover(P \o Q, p) <=> InCover(R, p) /\ ~(a <= p /\ p <= b)
      <3> SUFFICES ASSUME NEW p \in Int
                   PROVE  InCover(P \o Q, p) <=> InCover(R, p) /\ ~(a <= p /\ p <= b)
        OBVIOUS
      <3>1. /\ InCover(P \o Q, p) <=> InCover(P, p) \/ InCover(Q, p)
            /\ InCover(P, p) <=> InCover(R, p) /\ p < a
            /\ InCover(Q, p) <=> InCover(R, p) /\ b < p
        BY <2>8, <2>9
      <3>2. p < a \/ b < p <=> ~(a <= p /\ p <= b)
        OBVIOUS
      <3> QED
        BY <3>1, <3>2
    <2> QED
      BY <2>8, <2>9, <2>10, <2>11 DEF M
  <1> QED
    BY <1>2, <1>7, <1>8 DEF M

\* The listing of start .. end: in order, and the covered positions between.
LEMMA CutRangesCover ==
    ASSUME NEW R, NEW lo \in Int, NEW hi \in Int, Tidy(R, lo, hi), Len(R) <= Infinity, Infinity \in Nat,
           NEW a \in Int, NEW b \in Int, a <= b, NEW Q, Q = CutRanges(R, a, b)
    PROVE  /\ DOMAIN Q = 1 .. Len(Q) /\ Len(Q) \in Nat
           /\ \A i \in 1 .. Len(Q) : Q[i].start \in Int /\ Q[i].end \in Int
           /\ \A i \in 1 .. Len(Q) - 1 : Q[i].end < Q[i + 1].start
           /\ \A p \in Int : (\E i \in 1 .. Len(Q) : Q[i].start <= p /\ p <= Q[i].end)
                                 <=> InCover(R, p) /\ a <= p /\ p <= b
           /\ Tidy(Q, a, b) /\ PiecesOf(Q, R)
  <1> DEFINE scope == SelectImpactedRanges(R, a, b)
  <1>1. PICK first, last : /\ first = LocateFirstImpactedRange(R, a)
                           /\ last = LocateLastImpactedRange(R, b)
    OBVIOUS
  <1>2. /\ scope = [first |-> first, last |-> last]
        /\ FirstIs(R, a, first) /\ LastIs(R, b, last)
        /\ first \in Nat /\ last \in Int /\ last < Len(R)
    BY <1>1, ScopeFound
  <1>3. scope.first = first /\ scope.last = last
    BY <1>2
  <1>4. CASE first > last
    <2>1. /\ Count(scope) = 0
          /\ \A p \in Int : InCover(R, p) => ~(a <= p /\ p <= b)
      BY <1>1, <1>4, ScopeFound
    <2> HIDE DEF scope
    <2>2. Q = <<>>
      BY <2>1 DEF CutRanges, scope
    <2>3. Len(Q) = 0 /\ DOMAIN Q = 1 .. 0 /\ ~(\E i \in 1 .. 0 : TRUE)
      BY <2>2
    <2>4. Tidy(Q, a, b) /\ PiecesOf(Q, R)
      BY <2>2, <2>3, TidyEmpty DEF PiecesOf
    <2> QED
      BY <2>1, <2>3, <2>4
  <1>5. CASE ~(first > last)
    <2>1. /\ Count(scope) # 0 /\ first < Len(R) /\ 0 <= last
      BY <1>1, <1>5, ScopeFound
    <2> DEFINE W == SubSeq(R, first + 1, last + 1)
               n == last - first + 1
               CutStart(r) == IF PositionInRange(r, a) /\ r.start < a
                              THEN PageRange(a, r.end,
                                         Chunk(r.persistency.id, a - r.start + r.persistency.offset,
                                               r.persistency.count - (a - r.start)))
                              ELSE r
               CutEnd(r) == IF PositionInRange(r, b) /\ b < r.end
                            THEN PageRange(r.start, b,
                                       Chunk(r.persistency.id, r.persistency.offset,
                                             r.persistency.count - (r.end - b)))
                            ELSE r
    <2>2. Q = [[W EXCEPT ![1] = CutStart(@)] EXCEPT ![Len(W)] = CutEnd(@)]
      <3> HIDE DEF scope
      <3> QED
        BY <1>3, <2>1, ZenonT(30) DEF CutRanges, scope
    <2>3. /\ Len(R) \in Nat
          /\ \A i \in 1 .. Len(R) : /\ R[i] \in Ranges /\ R[i].start \in Int /\ R[i].end \in Int
                                    /\ R[i].start <= R[i].end
          /\ \A i, j \in 1 .. Len(R) : i < j => R[i].end < R[j].start
      BY TidyRange
    <2>4. /\ \A i \in 1 .. Len(R) : R[i].end < a <=> i <= first
          /\ \A i \in 1 .. Len(R) : R[i].start <= b <=> i <= last + 1
      BY <1>2 DEF FirstIs, LastIs
    <2>5. n \in Nat /\ 1 <= n /\ first + n = last + 1
      BY <1>2, <1>5
    <2>6. /\ Len(W) = n /\ DOMAIN W = 1 .. n
          /\ \A i \in 1 .. n : first + i \in 1 .. Len(R) /\ W[i] = R[first + i]
      <3>2. PICK x, y : x = first + 1 /\ y = last + 1
        OBVIOUS
      <3>3. x \in Int /\ y \in Int /\ x <= y /\ y - x + 1 = n
        BY <1>2, <1>5, <3>2
      <3>9. \A i \in Int : x + i - 1 = first + i
        BY <1>2, <3>2
      <3>4. \A i \in 1 .. n : first + i \in 1 .. Len(R) /\ i \in Int
        BY <1>2, <2>3, <2>5
      <3>5. R \in Seq(Ranges) /\ 1 <= x /\ y <= Len(R) /\ W = SubSeq(R, x, y)
        BY <1>2, <2>3, <3>2, TidyRange
      <3> HIDE DEF W, n
      <3>6. /\ W \in Seq(Ranges) /\ Len(W) = y - x + 1
            /\ \A i \in 1 .. y - x + 1 : W[i] = R[x + i - 1]
        <4> HIDE DEF CutStart, CutEnd
        <4>1. x \in Int /\ y \in Int /\ 1 <= x /\ x <= y /\ y <= Len(R) /\ W = SubSeq(R, x, y)
          BY <3>3, <3>5
        <4> QED
          BY <3>5, <4>1, RangesSub
      <3>7. Len(W) = n /\ DOMAIN W = 1 .. n
        BY <3>3, <3>6
      <3>8. \A i \in 1 .. n : W[i] = R[x + i - 1]
        BY <3>3, <3>6
      <3> QED
        BY <3>4, <3>7, <3>8, <3>9
    <2> HIDE DEF W, n
    \* What the two cuts make of the i-th impacted range.
    <2> DEFINE from(i) == IF i = 1 /\ R[first + i].start < a THEN a ELSE R[first + i].start
               to(i) == IF i = n /\ b < R[first + i].end THEN b ELSE R[first + i].end
    <2>7. /\ DOMAIN Q = 1 .. n
          /\ \A i \in 1 .. n : Q[i].start = from(i) /\ Q[i].end = to(i)
          /\ \A i \in 1 .. n : Q[i] \in Ranges /\ PieceOf(Q[i], R[first + i])
      <3> DEFINE V == [W EXCEPT ![1] = CutStart(@)]
      <3>1. DOMAIN V = 1 .. n /\ \A i \in 1 .. n : V[i] = IF i = 1 THEN CutStart(W[i]) ELSE W[i]
        <4> HIDE DEF CutStart
        <4> QED
          BY <2>6
      <3>2. Q = [V EXCEPT ![n] = CutEnd(@)]
        BY <2>2, <2>6
      <3> HIDE DEF V
      <3>3. DOMAIN Q = 1 .. n /\ \A i \in 1 .. n : Q[i] = IF i = n THEN CutEnd(V[i]) ELSE V[i]
        <4> HIDE DEF CutEnd
        <4> QED
          BY <3>1, <3>2
      <3>4. ASSUME NEW i \in 1 .. n
            PROVE  /\ V[i].start = from(i) /\ V[i].end = R[first + i].end
                 /\ V[i] \in Ranges /\ PieceOf(V[i], R[first + i])
        <4>1. W[i] = R[first + i] /\ first + i \in 1 .. Len(R)
          BY <2>6
        <4>2. PICK r : r = R[first + i]
          OBVIOUS
        <4>3. r.start \in Int /\ r.end \in Int
          BY <2>3, <4>1, <4>2
        <4>4. i = 1 => a <= r.end
          <5>1. ~(first + 1 <= first)
            BY <1>2
          <5> QED
            BY <2>4, <4>1, <4>2, <4>3, <5>1
        <4>5. i = 1 => CutStart(r).start = (IF r.start < a THEN a ELSE r.start) /\ CutStart(r).end = r.end
          BY <4>3, <4>4 DEF PositionInRange, PageRange
        <4>6. r \in Ranges
          BY <2>3, <4>1, <4>2
        <4>7. (i = 1 => CutStart(r) \in Ranges /\ PieceOf(CutStart(r), r)) /\ PieceOf(r, r)
          <5>1. r.persistency \in Chunks /\ r.persistency.offset \in Int /\ r.persistency.count \in Int
            BY <4>6 DEF Ranges, Chunks
          <5>2. CASE PositionInRange(r, a) /\ r.start < a
            <6>1. CutStart(r) = PageRange(a, r.end,
                         Chunk(r.persistency.id, a - r.start + r.persistency.offset,
                               r.persistency.count - (a - r.start)))
              BY <5>2
            <6> HIDE DEF CutStart
            <6>2. PieceOf(CutStart(r), r)
              <7>1. PICK v : v = CutStart(r)
                OBVIOUS
              <7>2. /\ v.start = a /\ v.end = r.end /\ v.persistency.id = r.persistency.id
                    /\ v.persistency.offset = a - r.start + r.persistency.offset
                    /\ v.persistency.count = r.persistency.count - (a - r.start)
                BY <6>1, <7>1 DEF PageRange, Chunk
              <7>3. PieceOf(v, r)
                <8>1. r.start <= a /\ r.end <= r.end
                  BY <4>3, <5>2
                <8>2. a - r.start + r.persistency.offset = r.persistency.offset + (a - r.start)
                  BY <4>3, <5>1
                <8>3. r.persistency.count = r.end - r.start + 1
                          => r.persistency.count - (a - r.start) = r.end - a + 1
                  BY <4>3, <5>1, SMTT(30)
                <8> QED
                  BY <7>2, <8>1, <8>2, <8>3 DEF PieceOf, Wide
              <7> QED
                BY <7>1, <7>3
            <6>3. CutStart(r) \in Ranges
              BY <4>3, <5>1, <6>1, SMTT(30) DEF Ranges, Chunks, PageRange, Chunk
            <6> QED
              BY <4>6, <6>2, <6>3, WholeIsPiece
          <5>3. CASE ~(PositionInRange(r, a) /\ r.start < a)
            <6>1. CutStart(r) = r
              BY <5>3
            <6> HIDE DEF CutStart
            <6> QED
              BY <4>6, <6>1, WholeIsPiece
          <5> QED
            BY <5>2, <5>3
        <4> HIDE DEF CutStart
        <4> QED
          BY <3>1, <4>1, <4>2, <4>5, <4>6, <4>7
      <3>5. ASSUME NEW i \in 1 .. n
            PROVE  /\ Q[i].start = from(i) /\ Q[i].end = to(i)
                 /\ Q[i] \in Ranges /\ PieceOf(Q[i], R[first + i])
        <4>1. PICK r : r = V[i]
          OBVIOUS
        <4>2. r.start = from(i) /\ r.end = R[first + i].end
          BY <3>4, <4>1
        <4>3. first + i \in 1 .. Len(R) /\ R[first + i].start \in Int /\ R[first + i].end \in Int
          BY <2>3, <2>6
        <4>4. i = n => from(i) <= b
          <5>1. first + n <= last + 1
            BY <1>2, <2>5
          <5>2. i = n => R[first + i].start <= b
            BY <2>4, <4>3, <5>1
          <5> QED
            BY <4>3, <5>2
        <4>5. r.start \in Int /\ r.end \in Int
          BY <4>2, <4>3
        <4>6. i = n => CutEnd(r).start = r.start /\ CutEnd(r).end = IF b < r.end THEN b ELSE r.end
          <5> HIDE DEF from
          <5>1. i = n => r.start <= b
            BY <4>2, <4>4
          <5> QED
            BY <4>5, <5>1 DEF PositionInRange, PageRange
        <4>7. r \in Ranges /\ PieceOf(r, R[first + i])
          BY <3>4, <4>1
        <4>8. i = n => CutEnd(r) \in Ranges /\ PieceOf(CutEnd(r), R[first + i])
          <5> HIDE DEF from
          <5>1. r.persistency \in Chunks /\ r.persistency.offset \in Int /\ r.persistency.count \in Int
            BY <4>7 DEF Ranges, Chunks
          <5>2. CASE PositionInRange(r, b) /\ b < r.end
            <6>1. CutEnd(r) = PageRange(r.start, b,
                         Chunk(r.persistency.id, r.persistency.offset,
                               r.persistency.count - (r.end - b)))
              BY <5>2
            <6> HIDE DEF CutEnd
            <6>2. PieceOf(CutEnd(r), R[first + i])
              <7>1. PICK v, q : v = CutEnd(r) /\ q = R[first + i]
                OBVIOUS
              <7>2. /\ v.start = r.start /\ v.end = b /\ v.persistency.id = r.persistency.id
                    /\ v.persistency.offset = r.persistency.offset
                    /\ v.persistency.count = r.persistency.count - (r.end - b)
                BY <6>1, <7>1 DEF PageRange, Chunk
              <7>3. PieceOf(r, q) /\ q.start \in Int /\ q.end \in Int
                BY <4>3, <4>7, <7>1
              <7>4. PieceOf(v, q)
                <8>1. q.start <= r.start /\ b <= q.end
                  BY <4>5, <5>2, <7>3 DEF PieceOf
                <8>2. r.persistency.count = r.end - r.start + 1
                          => r.persistency.count - (r.end - b) = b - r.start + 1
                  BY <4>5, <5>1, SMTT(30)
                <8> QED
                  BY <7>2, <7>3, <8>1, <8>2 DEF PieceOf, Wide
              <7> QED
                BY <7>1, <7>4
            <6>3. CutEnd(r) \in Ranges
              BY <4>5, <5>1, <6>1 DEF Ranges, Chunks, PageRange, Chunk
            <6> QED
              BY <6>2, <6>3
          <5>3. CASE ~(PositionInRange(r, b) /\ b < r.end)
            <6>1. CutEnd(r) = r
              BY <5>3
            <6> HIDE DEF CutEnd
            <6> QED
              BY <4>7, <6>1
          <5> QED
            BY <5>2, <5>3
        <4> HIDE DEF CutEnd, from
        <4> QED
          BY <3>3, <4>1, <4>2, <4>6, <4>7, <4>8
      <3> QED
        BY <3>3, <3>5
    <2>8. \A i \in 1 .. n : /\ from(i) \in Int /\ to(i) \in Int
                            /\ R[first + i].start <= from(i) /\ to(i) <= R[first + i].end
      BY <2>3, <2>6
    <2>9. \A i \in 1 .. n : a <= from(i) /\ to(i) <= b
      <3> SUFFICES ASSUME NEW i \in 1 .. n
                   PROVE  a <= from(i) /\ to(i) <= b
        OBVIOUS
      <3>1. first + 1 \in 1 .. Len(R) /\ first + i \in 1 .. Len(R) /\ first + n \in 1 .. Len(R)
        <4>1. 1 \in 1 .. n /\ n \in 1 .. n
          BY <2>5
        <4> QED
          BY <2>6, <4>1
      <3>2. a <= from(i)
        <4>1. CASE i = 1
          BY <2>3, <3>1, <4>1
        <4>2. CASE i # 1
          <5>1. first + 1 < first + i
            BY <1>2, <2>5, <4>2
          <5>2. ~(R[first + 1].end < a)
            BY <1>2, <2>4, <3>1
          <5> QED
            BY <2>3, <3>1, <4>2, <5>1, <5>2
        <4> QED
          BY <4>1, <4>2
      <3>3. to(i) <= b
        <4>1. CASE i = n
          BY <2>3, <3>1, <4>1
        <4>2. CASE i # n
          <5>1. first + i < first + n /\ first + n <= last + 1
            BY <1>2, <2>5, <4>2
          <5>2. R[first + n].start <= b
            BY <2>4, <3>1, <5>1
          <5> QED
            BY <2>3, <3>1, <4>2, <5>1, <5>2
        <4> QED
          BY <4>1, <4>2
      <3> QED
        BY <3>2, <3>3
    <2>10. \A i \in 1 .. n - 1 : to(i) < from(i + 1)
      <3> SUFFICES ASSUME NEW i \in 1 .. n - 1
                   PROVE  to(i) < from(i + 1)
        OBVIOUS
      <3>1. i \in 1 .. n /\ i + 1 \in 1 .. n /\ first + i < first + (i + 1)
        BY <1>2, <2>5
      <3>2. first + i \in 1 .. Len(R) /\ first + (i + 1) \in 1 .. Len(R)
        BY <2>6, <3>1
      <3>3. R[first + i].end < R[first + (i + 1)].start
        BY <2>3, <3>1, <3>2
      <3>4. /\ from(i + 1) \in Int /\ to(i) \in Int
            /\ R[first + (i + 1)].start <= from(i + 1) /\ to(i) <= R[first + i].end
        BY <2>8, <3>1
      <3> HIDE DEF from, to
      <3> QED
        BY <2>3, <3>2, <3>3, <3>4, SMTT(30)
    <2>11. ASSUME NEW p \in Int, NEW i \in 1 .. n, from(i) <= p, p <= to(i)
           PROVE  InCover(R, p) /\ a <= p /\ p <= b
      <3>1. first + i \in 1 .. Len(R) /\ R[first + i].start \in Int /\ R[first + i].end \in Int
        BY <2>3, <2>6
      <3> HIDE DEF from, to
      <3>2. R[first + i].start <= p /\ p <= R[first + i].end
        BY <2>8, <2>11, <3>1
      <3>3. a <= p /\ p <= b
        BY <2>8, <2>9, <2>11
      <3> QED
        BY <3>1, <3>2, <3>3 DEF InCover
    <2>12. ASSUME NEW p \in Int, InCover(R, p), a <= p, p <= b
           PROVE  \E i \in 1 .. n : from(i) <= p /\ p <= to(i)
      <3>1. PICK j \in 1 .. Len(R) : R[j].start <= p /\ p <= R[j].end
        BY <2>12 DEF InCover
      <3>2. ~(R[j].end < a) /\ R[j].start <= b
        BY <2>3, <2>12, <3>1
      <3>3. ~(j <= first) /\ j <= last + 1
        BY <2>4, <3>2
      <3>4. j - first \in 1 .. n /\ first + (j - first) = j
        BY <1>2, <2>5, <3>3
      <3>5. from(j - first) <= p /\ p <= to(j - first)
        BY <2>12, <3>1, <3>4
      <3> HIDE DEF from, to
      <3> QED
        BY <3>4, <3>5
    <2>20. \A i \in 1 .. n : from(i) <= to(i)
      <3> SUFFICES ASSUME NEW i \in 1 .. n
                   PROVE  from(i) <= to(i)
        OBVIOUS
      <3>1. first + i \in 1 .. Len(R) /\ ~(first + i <= first) /\ first + i <= last + 1
        BY <1>2, <2>5, <2>6
      <3>2. /\ R[first + i].start \in Int /\ R[first + i].end \in Int
            /\ R[first + i].start <= R[first + i].end
            /\ ~(R[first + i].end < a) /\ R[first + i].start <= b
        BY <2>3, <2>4, <3>1
      <3> QED
        BY <3>2
    <2> HIDE DEF from, to
    <2>13. Len(Q) = n
      <3>1. Q = [i \in 1 .. n |-> Q[i]]
        BY <2>2, <2>7
      <3> QED
        BY <2>5, <3>1
    <2>14. \A i \in 1 .. n : i \in 1 .. Len(Q) /\ Q[i].start = from(i) /\ Q[i].end = to(i)
      BY <2>7, <2>13
    <2>15. \A i \in 1 .. n - 1 : i \in 1 .. n /\ i + 1 \in 1 .. n
      BY <2>5
    <2>16. \A i \in 1 .. n - 1 : Q[i].end < Q[i + 1].start
      BY <2>10, <2>14, <2>15
    <2>17. \A p \in Int : (\E i \in 1 .. n : Q[i].start <= p /\ p <= Q[i].end)
                               <=> InCover(R, p) /\ a <= p /\ p <= b
      BY <2>11, <2>12, <2>14
    <2>18. Q \in Seq(Ranges)
      <3>1. Q = [i \in 1 .. n |-> Q[i]]
        BY <2>2, <2>7
      <3> QED
        BY <2>5, <2>7, <3>1
    <2>19. \A i, j \in 1 .. n : i < j => to(i) < from(j)
      <3> SUFFICES ASSUME NEW i \in 1 .. n, NEW j \in 1 .. n, i < j
                   PROVE  to(i) < from(j)
        OBVIOUS
      <3>1. first + i \in 1 .. Len(R) /\ first + j \in 1 .. Len(R) /\ first + i < first + j
        BY <1>2, <2>5, <2>6
      <3>2. R[first + i].end < R[first + j].start
        BY <2>3, <3>1
      <3>3. R[first + j].start <= from(j) /\ to(i) <= R[first + i].end /\ from(j) \in Int /\ to(i) \in Int
        BY <2>8
      <3> QED
        BY <2>3, <3>1, <3>2, <3>3, SMTT(30)
    <2>21. Tidy(Q, a, b)
      BY <2>9, <2>13, <2>14, <2>18, <2>19, <2>20 DEF Tidy
    <2>22. PiecesOf(Q, R)
      BY <2>6, <2>7, <2>13 DEF PiecesOf
    <2> QED
      BY <2>5, <2>7, <2>8, <2>13, <2>14, <2>16, <2>17, <2>21, <2>22
  <1> QED
    BY <1>2, <1>4, <1>5

\* As many ranges as there are positions, at most.
LEMMA TidyLength ==
    ASSUME NEW R, NEW n \in Nat, Tidy(R, 0, n - 1)
    PROVE  Len(R) <= n
  <1>1. /\ Len(R) \in Nat
        /\ \A i \in 1 .. Len(R) : /\ R[i].start \in Int /\ R[i].end \in Int
                                  /\ 0 <= R[i].start /\ R[i].start <= R[i].end /\ R[i].end <= n - 1
        /\ \A i, j \in 1 .. Len(R) : i < j => R[i].end < R[j].start
    BY TidyRange
  <1> DEFINE T == {k \in Nat : k + 1 \in 1 .. Len(R) => k <= R[k + 1].start}
  <1>2. 0 \in T
    BY <1>1
  <1>3. ASSUME NEW k \in Nat, k \in T
        PROVE  k + 1 \in T
    <2> SUFFICES ASSUME (k + 1) + 1 \in 1 .. Len(R)
                 PROVE  k + 1 <= R[(k + 1) + 1].start
      OBVIOUS
    <2>1. k + 1 \in 1 .. Len(R) /\ k + 1 < (k + 1) + 1
      BY <1>1
    <2>2. k <= R[k + 1].start
      BY <1>3, <2>1
    <2>3. R[k + 1].start <= R[k + 1].end /\ R[k + 1].end < R[(k + 1) + 1].start
      BY <1>1, <2>1
    <2> QED
      BY <1>1, <2>1, <2>2, <2>3
  <1>4. \A k \in Nat : k \in T
    <2> HIDE DEF T
    <2> QED
      BY <1>2, <1>3, NatsFrom
  <1>5. CASE Len(R) = 0
    BY <1>5
  <1>6. CASE Len(R) # 0
    <2>1. Len(R) - 1 \in Nat /\ (Len(R) - 1) + 1 = Len(R) /\ Len(R) \in 1 .. Len(R)
      BY <1>1, <1>6
    <2>2. Len(R) - 1 \in T
      BY <1>4, <2>1
    <2>3. Len(R) - 1 <= R[Len(R)].start
      BY <2>1, <2>2
    <2> QED
      BY <1>1, <2>1, <2>3
  <1> QED
    BY <1>5, <1>6

----------------------------------------------------------------------------
(* FlattenSeq.                                                             *)

FlattensTo(f, seqs, n) == f = [i \in 1 .. n |-> IF i = 1 THEN seqs[i] ELSE f[i - 1] \o seqs[i]]

LEMMA FlattenExists ==
    ASSUME NEW seqs
    PROVE  \A n \in Nat : \E f : FlattensTo(f, seqs, n)
  <1> DEFINE T == {n \in Nat : \E f : FlattensTo(f, seqs, n)}
  <1>1. 0 \in T
    <2> DEFINE f == [i \in 1 .. 0 |-> {}]
    <2>1. \A i \in 1 .. 0 : FALSE
      OBVIOUS
    <2>2. f = [i \in 1 .. 0 |-> IF i = 1 THEN seqs[i] ELSE f[i - 1] \o seqs[i]]
      BY <2>1
    <2> HIDE DEF f
    <2>3. FlattensTo(f, seqs, 0)
      BY <2>2 DEF FlattensTo
    <2> QED
      BY <2>3
  <1>2. ASSUME NEW n \in Nat, n \in T
        PROVE  n + 1 \in T
    <2>1. PICK f : FlattensTo(f, seqs, n)
      BY <1>2
    <2> DEFINE last == IF n = 0 THEN seqs[n + 1] ELSE f[n] \o seqs[n + 1]
               g == [i \in 1 .. n + 1 |-> IF i = n + 1 THEN last ELSE f[i]]
               Next1(i) == IF i = 1 THEN seqs[i] ELSE g[i - 1] \o seqs[i]
    <2>2. \A i \in 1 .. n : f[i] = IF i = 1 THEN seqs[i] ELSE f[i - 1] \o seqs[i]
      BY <2>1 DEF FlattensTo
    <2>3. \A i \in 1 .. n + 1 : g[i] = IF i = n + 1 THEN last ELSE f[i]
      OBVIOUS
    <2>4. DOMAIN g = 1 .. n + 1 /\ g = [i \in 1 .. n + 1 |-> g[i]]
      OBVIOUS
    <2> HIDE DEF g
    <2>5. ASSUME NEW i \in 1 .. n + 1
          PROVE  g[i] = Next1(i)
      <3>1. CASE i = n + 1
        <4>1. CASE n = 0
          BY <2>3, <3>1, <4>1
        <4>2. CASE n # 0
          <5>1. n \in 1 .. n + 1 /\ n # n + 1 /\ i - 1 = n /\ i # 1
            BY <3>1, <4>2
          <5>2. g[n] = f[n]
            BY <2>3, <5>1
          <5> QED
            BY <2>3, <3>1, <4>2, <5>1, <5>2
        <4> QED
          BY <4>1, <4>2
      <3>2. CASE i # n + 1 /\ i = 1
        <4>1. i \in 1 .. n
          BY <3>2
        <4> QED
          BY <2>2, <2>3, <3>2, <4>1
      <3>3. CASE i # n + 1 /\ i # 1
        <4>1. i \in 1 .. n /\ i - 1 \in 1 .. n + 1 /\ i - 1 # n + 1
          BY <3>3
        <4>2. g[i] = f[i] /\ g[i - 1] = f[i - 1]
          BY <2>3, <3>3, <4>1
        <4> QED
          BY <2>2, <3>3, <4>1, <4>2
      <3> QED
        BY <3>1, <3>2, <3>3
    <2>6. g = [i \in 1 .. n + 1 |-> Next1(i)]
      <3> HIDE DEF Next1
      <3> QED
        BY <2>4, <2>5
    <2>7. FlattensTo(g, seqs, n + 1)
      BY <2>6 DEF FlattensTo
    <2> QED
      BY <2>7
  <1>3. \A n \in Nat : n \in T
    <2> HIDE DEF T
    <2> QED
      BY <1>1, <1>2, NatsFrom
  <1> QED
    BY <1>3

\* A sequence of sequences flattens to a sequence.
LEMMA FlattenType ==
    ASSUME NEW S, NEW seqs \in Seq(Seq(S))
    PROVE  FlattenSeq(seqs) \in Seq(S)
  <1> DEFINE n == Len(seqs)
             F == CHOOSE f : f = [i \in 1 .. n |-> IF i = 1 THEN seqs[i] ELSE f[i - 1] \o seqs[i]]
  <1>1. n \in Nat /\ \A i \in 1 .. n : seqs[i] \in Seq(S)
    OBVIOUS
  <1>2. FlattenSeq(seqs) = IF n = 0 THEN seqs ELSE F[n]
    BY DEF FlattenSeq
  <1>3. FlattensTo(F, seqs, n)
    <2>1. \E f : FlattensTo(f, seqs, n)
      BY <1>1, FlattenExists
    <2> QED
      BY <2>1 DEF FlattensTo
  <1> HIDE DEF F
  <1>4. \A i \in 1 .. n : F[i] = IF i = 1 THEN seqs[i] ELSE F[i - 1] \o seqs[i]
    BY <1>3 DEF FlattensTo
  <1> HIDE DEF n
  <1> DEFINE T == {k \in Nat : k + 1 \in 1 .. n => F[k + 1] \in Seq(S)}
  <1>5. 0 \in T
    <2>1. 0 + 1 \in 1 .. n => F[0 + 1] = seqs[0 + 1]
      BY <1>4
    <2> QED
      BY <1>1, <2>1
  <1>6. ASSUME NEW k \in Nat, k \in T
        PROVE  k + 1 \in T
    <2> SUFFICES ASSUME (k + 1) + 1 \in 1 .. n
                 PROVE  F[(k + 1) + 1] \in Seq(S)
      OBVIOUS
    <2>1. k + 1 \in 1 .. n /\ (k + 1) + 1 # 1 /\ ((k + 1) + 1) - 1 = k + 1
      BY <1>1
    <2>2. F[(k + 1) + 1] = F[k + 1] \o seqs[(k + 1) + 1]
      BY <1>4, <2>1
    <2>3. F[k + 1] \in Seq(S) /\ seqs[(k + 1) + 1] \in Seq(S)
      BY <1>1, <1>6, <2>1
    <2> QED
      BY <2>2, <2>3, ConcatProperties
  <1>7. \A k \in Nat : k \in T
    <2> HIDE DEF T
    <2> QED
      BY <1>5, <1>6, NatsFrom
  <1>8. CASE n = 0
    BY <1>2, <1>8, EmptySeq DEF n
  <1>9. CASE n # 0
    <2>1. n - 1 \in Nat /\ (n - 1) + 1 = n /\ n \in 1 .. n
      BY <1>1, <1>9
    <2>2. n - 1 \in T
      BY <1>7, <2>1
    <2>3. F[n] \in Seq(S)
      BY <2>1, <2>2
    <2> QED
      BY <1>2, <1>9, <2>3
  <1> QED
    BY <1>8, <1>9

LEMMA SentIsNat ==
    ASSUME extents \in Seq(Seq(Seq(Nat)))
    PROVE  Sent \in Nat
  <1>1. FlattenSeq(extents) \in Seq(Seq(Nat))
    BY FlattenType
  <1>2. FlattenSeq(FlattenSeq(extents)) \in Seq(Nat)
    BY <1>1, FlattenType
  <1> QED
    BY <1>2 DEF Sent

----------------------------------------------------------------------------
(* The inductive invariant.                                                *)

DocShape == doc = [type |-> doc.type, len |-> doc.len, md5 |-> doc.md5,
                   persistency |-> doc.persistency, blocks |-> doc.blocks, ranges |-> doc.ranges]

\* The ranges of a page blob cover exactly the positions that were written.
PagesTidy(ranges, content) ==
    /\ Tidy(ranges, 0, MaxLen - 1)
    /\ \A p \in Positions : InCover(ranges, p) <=> content[p] # 0

UploadShape ==
    /\ upload.start \in Positions /\ upload.end \in Positions /\ upload.start <= upload.end
    /\ upload.chunk \in Chunks
    /\ Len(upload.units) = upload.end - upload.start + 1
    /\ \A i \in 1 .. upload.end - upload.start + 1 : upload.units[i] # 0

PagesInv ==
    /\ extents \in Seq(Seq(Seq(Nat)))
    /\ DocShape
    /\ doc.type = "page" => doc.len \in 0 .. MaxLen /\ PagesTidy(doc.ranges, bytes)
    /\ upload # Idle => UploadShape

LEMMA PayloadFacts ==
    ASSUME NEW n \in Nat, extents \in Seq(Seq(Seq(Nat)))
    PROVE  /\ Payload(n) \in Seq(Nat) /\ Len(Payload(n)) = n
           /\ \A i \in 1 .. n : Payload(n)[i] # 0
  <1>1. Sent \in Nat
    BY SentIsNat
  <1>2. \A i \in 1 .. n : Sent + i \in Nat /\ Sent + i # 0
    BY <1>1
  <1> DEFINE P == [i \in 1 .. n |-> Sent + i]
  <1>3. P \in Seq(Nat) /\ Len(P) = n
    BY <1>2
  <1>4. \A i \in 1 .. n : P[i] # 0
    BY <1>2
  <1> QED
    BY <1>3, <1>4 DEF Payload

LEMMA NewChunkType ==
    ASSUME NEW n \in Nat, extents \in Seq(Seq(Seq(Nat)))
    PROVE  NewChunk(n) \in Chunks
  <1>1. Sent \in Nat /\ Len(extents) \in Nat
    BY SentIsNat
  <1> QED
    BY <1>1 DEF NewChunk, Chunk, Chunks

LEMMA AppendKeepsExtents ==
    ASSUME NEW n \in Nat, extents \in Seq(Seq(Seq(Nat))), AppendExtent(n)
    PROVE  extents' \in Seq(Seq(Seq(Nat)))
  <1> DEFINE units == Payload(n)
  <1>1. units \in Seq(Nat) /\ Len(units) \in Nat
    BY PayloadFacts
  <1> HIDE DEF units
  <1>2. CASE extents' = <<Append(IF extents = <<>> THEN <<>> ELSE extents[1], units)>>
    <2> DEFINE buffers == IF extents = <<>> THEN <<>> ELSE extents[1]
    <2>1. buffers \in Seq(Seq(Nat))
      <3>1. CASE extents = <<>>
        BY <3>1
      <3>2. CASE extents # <<>>
        <4>1. 1 \in 1 .. Len(extents)
          BY <3>2
        <4>2. extents[1] \in Seq(Seq(Nat))
          BY <4>1, ElementOfSeq
        <4> QED
          BY <3>2, <4>2
      <3> QED
        BY <3>1, <3>2
    <2> HIDE DEF buffers
    <2>2. Append(buffers, units) \in Seq(Seq(Nat))
      BY <1>1, <2>1
    <2> QED
      BY <1>2, <2>2 DEF buffers
  <1>3. ASSUME NEW b \in Deliveries(units), extents' = Append(extents, b)
        PROVE  extents' \in Seq(Seq(Seq(Nat)))
    <2>1. CASE b = <<units>>
      <3>1. b \in Seq(Seq(Nat))
        BY <1>1, <2>1
      <3> QED
        BY <1>3, <3>1
    <2>2. ASSUME NEW k \in 1 .. Len(units) - 1,
                 b = <<SubSeq(units, 1, k), SubSeq(units, k + 1, Len(units))>>
          PROVE  extents' \in Seq(Seq(Seq(Nat)))
      <3>1. /\ \A i \in 1 .. k : units[i] \in Nat
            /\ \A i \in k + 1 .. Len(units) : units[i] \in Nat
            /\ 1 \in Int /\ k \in Int /\ k + 1 \in Int /\ Len(units) \in Int
        BY <1>1
      <3>2. SubSeq(units, 1, k) \in Seq(Nat)
        BY <3>1, SubSeqProperties
      <3>3. SubSeq(units, k + 1, Len(units)) \in Seq(Nat)
        BY <3>1, SubSeqProperties
      <3>4. b \in Seq(Seq(Nat))
        BY <2>2, <3>2, <3>3
      <3> QED
        BY <1>3, <3>4
    <2> QED
      BY <2>1, <2>2 DEF Deliveries
  <1> QED
    BY <1>2, <1>3 DEF AppendExtent, units

LEMMA Bounds ==
    /\ MaxLen \in Nat /\ MaxLen # 0 /\ MaxBlocks \in Nat
    /\ Infinity \in Nat /\ MaxLen <= Infinity
    /\ \A p \in Positions : p \in Nat /\ 0 <= p /\ p <= MaxLen - 1
  BY BlobContentAssumption DEF Infinity, Positions

\* Merging and clearing keep the ranges in step with the content.
LEMMA MergeKeepsTidy ==
    ASSUME NEW R, NEW content, PagesTidy(R, content), NEW a \in Positions, NEW b \in Positions, a <= b,
           NEW c \in Chunks, NEW after, NEW units,
           Len(units) = b - a + 1, \A i \in 1 .. b - a + 1 : units[i] # 0,
           \A p \in Positions : after[p] = IF a <= p /\ p < a + Len(units) THEN units[p - a + 1]
                                           ELSE content[p]
    PROVE  PagesTidy(MergeRange(R, a, b, c), after)
  <1>1. Tidy(R, 0, MaxLen - 1) /\ \A p \in Positions : InCover(R, p) <=> content[p] # 0
    BY DEF PagesTidy
  <1>2. a \in Int /\ b \in Int /\ 0 <= a /\ b <= MaxLen - 1 /\ 0 \in Int /\ MaxLen - 1 \in Int
    BY Bounds
  <1>3. Len(R) \in Nat /\ Len(R) <= MaxLen
    BY <1>1, <1>2, Bounds, TidyLength, TidyRange
  <1>4. Len(R) <= Infinity /\ Infinity \in Nat
    BY <1>3, Bounds
  <1>5. /\ Tidy(MergeRange(R, a, b, c), 0, MaxLen - 1)
        /\ \A p \in Int : InCover(MergeRange(R, a, b, c), p) <=> InCover(R, p) \/ (a <= p /\ p <= b)
    <2>1. PICK l, h : l = 0 /\ h = MaxLen - 1
      OBVIOUS
    <2>2. Tidy(R, l, h) /\ l \in Int /\ h \in Int /\ l <= a /\ b <= h
      BY <1>1, <1>2, <2>1
    <2>3. /\ Tidy(MergeRange(R, a, b, c), l, h)
          /\ \A p \in Int : InCover(MergeRange(R, a, b, c), p) <=> InCover(R, p) \/ (a <= p /\ p <= b)
      BY <1>2, <1>4, <2>2, MergeRangeCovers
    <2> QED
      BY <2>1, <2>3
  <1>6. ASSUME NEW p \in Positions
        PROVE  InCover(MergeRange(R, a, b, c), p) <=> after[p] # 0
    <2>1. p \in Int
      BY Bounds
    <2>2. InCover(MergeRange(R, a, b, c), p) <=> content[p] # 0 \/ (a <= p /\ p <= b)
      BY <1>1, <1>5, <2>1
    <2>3. CASE a <= p /\ p <= b
      <3>1. p < a + Len(units) /\ p - a + 1 \in 1 .. b - a + 1
        BY <1>2, <2>1, <2>3
      <3>2. after[p] = units[p - a + 1]
        BY <2>3, <3>1
      <3> QED
        BY <2>2, <2>3, <3>1, <3>2
    <2>4. CASE ~(a <= p /\ p <= b)
      <3>1. ~(a <= p /\ p < a + Len(units))
        BY <1>2, <2>1, <2>4
      <3>2. after[p] = content[p]
        BY <3>1
      <3> QED
        BY <2>2, <2>4, <3>2
    <2> QED
      BY <2>3, <2>4
  <1> QED
    BY <1>5, <1>6 DEF PagesTidy

LEMMA ClearKeepsTidy ==
    ASSUME NEW R, NEW content, PagesTidy(R, content), NEW a \in Positions, NEW b \in Int, a <= b,
           NEW after,
           \A p \in Positions : after[p] = IF a <= p /\ p <= b THEN 0 ELSE content[p]
    PROVE  PagesTidy(ClearRange(R, a, b), after)
  <1>1. Tidy(R, 0, MaxLen - 1) /\ \A p \in Positions : InCover(R, p) <=> content[p] # 0
    BY DEF PagesTidy
  <1>2. a \in Int /\ 0 <= a /\ a <= MaxLen - 1 /\ 0 \in Int /\ MaxLen - 1 \in Int
    BY Bounds
  <1>3. Len(R) \in Nat /\ Len(R) <= MaxLen
    BY <1>1, <1>2, Bounds, TidyLength, TidyRange
  <1>4. Len(R) <= Infinity /\ Infinity \in Nat
    BY <1>3, Bounds
  <1>5. /\ Tidy(ClearRange(R, a, b), 0, MaxLen - 1)
        /\ \A p \in Int : InCover(ClearRange(R, a, b), p) <=> InCover(R, p) /\ ~(a <= p /\ p <= b)
    BY <1>1, <1>2, <1>4, ClearRangeCovers
  <1>6. ASSUME NEW p \in Positions
        PROVE  InCover(ClearRange(R, a, b), p) <=> after[p] # 0
    <2>1. p \in Int
      BY Bounds
    <2>2. InCover(ClearRange(R, a, b), p) <=> content[p] # 0 /\ ~(a <= p /\ p <= b)
      BY <1>1, <1>5, <2>1
    <2> QED
      BY <2>2
  <1> QED
    BY <1>5, <1>6 DEF PagesTidy

\* Steps that leave the pages and the request alone.
LEMMA OthersKeep ==
    ASSUME PagesInv, extents' \in Seq(Seq(Seq(Nat))), UNCHANGED <<doc, upload, bytes>>
    PROVE  PagesInv'
  BY DEF PagesInv, DocShape, PagesTidy, UploadShape

LEMMA NotPagesKeep ==
    ASSUME PagesInv, extents' \in Seq(Seq(Seq(Nat))), UNCHANGED upload,
           DocShape', doc'.type # "page"
    PROVE  PagesInv'
  BY DEF PagesInv, UploadShape

LEMMA ContentInitInv ==
    ContentInit => PagesInv
  <1> SUFFICES ASSUME ContentInit
               PROVE  PagesInv
    OBVIOUS
  <1>1. extents \in Seq(Seq(Seq(Nat))) /\ upload = Idle
    BY DEF ContentInit
  <1>2. DocShape /\ doc.type # "page"
    BY DEF ContentInit, NoBlob, DocShape
  <1> QED
    BY <1>1, <1>2 DEF PagesInv

LEMMA PutBlobKeeps ==
    ASSUME PagesInv, NEW n \in 1 .. MaxLen, PutBlob(n)
    PROVE  PagesInv'
  <1>1. n \in Nat /\ extents \in Seq(Seq(Seq(Nat))) /\ AppendExtent(n) /\ UNCHANGED upload
    BY DEF PagesInv, PutBlob
  <1>2. extents' \in Seq(Seq(Seq(Nat)))
    BY <1>1, AppendKeepsExtents
  <1>3. DocShape' /\ doc'.type # "page"
    BY DEF PutBlob, NoBlob, DocShape
  <1> QED
    BY <1>1, <1>2, <1>3, NotPagesKeep

LEMMA PutEmptyBlobKeeps ==
    ASSUME PagesInv, PutEmptyBlob
    PROVE  PagesInv'
  <1>1. extents' \in Seq(Seq(Seq(Nat))) /\ UNCHANGED upload
    BY DEF PagesInv, PutEmptyBlob
  <1>2. DocShape' /\ doc'.type # "page"
    BY DEF PutEmptyBlob, NoBlob, DocShape
  <1> QED
    BY <1>1, <1>2, NotPagesKeep

LEMMA StageBlockKeeps ==
    ASSUME PagesInv, NEW n \in 1 .. MaxLen, StageBlock(n)
    PROVE  PagesInv'
  <1>1. n \in Nat /\ extents \in Seq(Seq(Seq(Nat))) /\ AppendExtent(n) /\ UNCHANGED <<doc, upload, bytes>>
    BY DEF PagesInv, StageBlock
  <1>2. extents' \in Seq(Seq(Seq(Nat)))
    BY <1>1, AppendKeepsExtents
  <1> QED
    BY <1>1, <1>2, OthersKeep

LEMMA AppendBlockKeeps ==
    ASSUME PagesInv, NEW n \in 1 .. MaxLen, AppendBlock(n)
    PROVE  PagesInv'
  <1>1. n \in Nat /\ extents \in Seq(Seq(Seq(Nat))) /\ AppendExtent(n) /\ UNCHANGED upload /\ DocShape
    BY DEF PagesInv, AppendBlock
  <1>2. extents' \in Seq(Seq(Seq(Nat)))
    BY <1>1, AppendKeepsExtents
  <1>3. DocShape' /\ doc'.type # "page"
    <2>1. /\ doc.type = "append"
          /\ doc' = [doc EXCEPT !.blocks = Append(@, NewChunk(n)), !.len = @ + n]
      BY DEF AppendBlock
    <2> QED
      BY <1>1, <2>1 DEF DocShape
  <1> QED
    BY <1>1, <1>2, <1>3, NotPagesKeep

LEMMA CommitBlockListKeeps ==
    ASSUME PagesInv, NEW list, CommitBlockList(list)
    PROVE  PagesInv'
  <1>1. extents' \in Seq(Seq(Seq(Nat))) /\ UNCHANGED upload /\ DocShape
    BY DEF PagesInv, CommitBlockList
  <1>2. PICK len : doc' = [doc EXCEPT !.type = "block", !.len = len, !.md5 = FALSE, !.blocks = list]
    BY DEF CommitBlockList
  <1>3. DocShape' /\ doc'.type # "page"
    BY <1>1, <1>2 DEF DocShape
  <1> QED
    BY <1>1, <1>3, NotPagesKeep

LEMMA CreateEmptyKeeps ==
    ASSUME PagesInv, NEW type, NEW len \in 0 .. MaxLen, CreateEmpty(type, len)
    PROVE  PagesInv'
  <1>1. extents' \in Seq(Seq(Seq(Nat))) /\ UNCHANGED upload
    BY DEF PagesInv, CreateEmpty
  <1>2. doc' = [NoBlob EXCEPT !.type = type, !.len = len] /\ bytes' = Zeros
    BY DEF CreateEmpty
  <1>3. DocShape' /\ doc'.len = len /\ doc'.ranges = <<>>
    BY <1>2 DEF NoBlob, DocShape
  <1>4. \A p \in Positions : bytes'[p] = 0
    BY <1>2 DEF Zeros
  <1>5. PagesTidy(<<>>, bytes')
    BY <1>4, TidyEmpty DEF PagesTidy
  <1>6. PagesTidy(doc'.ranges, bytes')
    BY <1>3, <1>5
  <1> QED
    BY <1>1, <1>3, <1>6 DEF PagesInv, UploadShape

LEMMA UploadPagesKeeps ==
    ASSUME PagesInv, NEW start \in Positions, NEW end \in start .. MaxLen - 1, UploadPages(start, end)
    PROVE  PagesInv'
  <1> DEFINE n == end - start + 1
  <1>1. start \in Nat /\ end \in Positions /\ start <= end /\ n \in Nat
    BY Bounds DEF Positions
  <1>2. extents \in Seq(Seq(Seq(Nat))) /\ AppendExtent(n) /\ UNCHANGED <<doc, bytes>>
    BY DEF PagesInv, UploadPages
  <1>3. extents' \in Seq(Seq(Seq(Nat)))
    BY <1>1, <1>2, AppendKeepsExtents
  <1>4. upload' = [phase |-> "stored", start |-> start, end |-> end, chunk |-> NewChunk(n), units |-> Payload(n)]
    BY DEF UploadPages
  <1>5. NewChunk(n) \in Chunks /\ Len(Payload(n)) = n /\ \A i \in 1 .. n : Payload(n)[i] # 0
    BY <1>1, <1>2, NewChunkType, PayloadFacts
  <1>6. UploadShape'
    BY <1>1, <1>4, <1>5 DEF UploadShape
  <1> QED
    BY <1>2, <1>3, <1>6 DEF PagesInv, DocShape, PagesTidy

LEMMA MergePagesKeeps ==
    ASSUME PagesInv, MergePages
    PROVE  PagesInv'
  <1>1. extents' \in Seq(Seq(Seq(Nat))) /\ upload # Idle /\ upload' = Idle
    BY DEF PagesInv, MergePages
  <1>2. CASE doc.type # "page"
    BY <1>1, <1>2 DEF PagesInv, MergePages, DocShape
  <1>3. CASE doc.type = "page"
    <2>1. /\ doc' = [doc EXCEPT !.ranges = MergeRange(@, upload.start, upload.end, upload.chunk)]
          /\ bytes' = Written(upload.start, upload.units)
      BY <1>3 DEF MergePages
    <2>2. UploadShape /\ DocShape /\ doc.len \in 0 .. MaxLen /\ PagesTidy(doc.ranges, bytes)
      BY <1>1, <1>3 DEF PagesInv
    <2>3. /\ DocShape' /\ doc'.len = doc.len
          /\ doc'.ranges = MergeRange(doc.ranges, upload.start, upload.end, upload.chunk)
      BY <2>1, <2>2 DEF DocShape
    <2>4. PICK a, b, c, units : /\ a = upload.start /\ b = upload.end
                                /\ c = upload.chunk /\ units = upload.units
      OBVIOUS
    <2>5. /\ a \in Positions /\ b \in Positions /\ a <= b /\ c \in Chunks
          /\ Len(units) = b - a + 1 /\ \A i \in 1 .. b - a + 1 : units[i] # 0
      BY <2>2, <2>4 DEF UploadShape
    <2>6. \A p \in Positions : bytes'[p] = IF a <= p /\ p < a + Len(units) THEN units[p - a + 1]
                                            ELSE bytes[p]
      BY <2>1, <2>4 DEF Written
    <2>7. PagesTidy(MergeRange(doc.ranges, a, b, c), bytes')
      BY <2>2, <2>5, <2>6, MergeKeepsTidy
    <2>8. PagesTidy(doc'.ranges, bytes')
      BY <2>3, <2>4, <2>7
    <2> QED
      BY <1>1, <2>2, <2>3, <2>8 DEF PagesInv
  <1> QED
    BY <1>2, <1>3

LEMMA ClearPagesKeeps ==
    ASSUME PagesInv, NEW start \in Positions, NEW end \in Ends(start), ClearPages(start, end)
    PROVE  PagesInv'
  <1>1. start \in Nat /\ end \in Int /\ start <= end
    BY Bounds DEF Ends, Infinity
  <1>2. /\ doc.type = "page" /\ UNCHANGED <<extents, upload>>
        /\ doc' = [doc EXCEPT !.ranges = ClearRange(@, start, end)]
        /\ bytes' = [p \in Positions |-> IF start <= p /\ p <= end THEN 0 ELSE bytes[p]]
    BY DEF ClearPages
  <1>3. DocShape /\ doc.len \in 0 .. MaxLen /\ PagesTidy(doc.ranges, bytes)
    BY <1>2 DEF PagesInv
  <1>4. DocShape' /\ doc'.len = doc.len /\ doc'.ranges = ClearRange(doc.ranges, start, end)
    BY <1>2, <1>3 DEF DocShape
  <1>5. \A p \in Positions : bytes'[p] = IF start <= p /\ p <= end THEN 0 ELSE bytes[p]
    BY <1>2
  <1>6. PagesTidy(ClearRange(doc.ranges, start, end), bytes')
    BY <1>1, <1>3, <1>5, ClearKeepsTidy
  <1>7. PagesTidy(doc'.ranges, bytes')
    BY <1>4, <1>6
  <1> QED
    BY <1>2, <1>3, <1>4, <1>7 DEF PagesInv, UploadShape

LEMMA ResizeKeeps ==
    ASSUME PagesInv, NEW len \in 0 .. MaxLen, Resize(len)
    PROVE  PagesInv'
  <1>1. /\ doc.type = "page" /\ UNCHANGED <<extents, upload>>
        /\ doc' = [doc EXCEPT !.len = len,
                              !.ranges = IF doc.len > len THEN ClearRange(@, len, doc.len - 1) ELSE @]
        /\ bytes' = [p \in Positions |-> IF len <= p /\ p < doc.len THEN 0 ELSE bytes[p]]
    BY DEF Resize
  <1>2. DocShape /\ doc.len \in 0 .. MaxLen /\ PagesTidy(doc.ranges, bytes)
    BY <1>1 DEF PagesInv
  <1>3. /\ DocShape' /\ doc'.len = len
        /\ doc'.ranges = IF doc.len > len THEN ClearRange(doc.ranges, len, doc.len - 1) ELSE doc.ranges
    BY <1>1, <1>2 DEF DocShape
  <1>4. PagesTidy(doc'.ranges, bytes')
    <2>1. PICK d : d = doc.len
      OBVIOUS
    <2>2. d \in 0 .. MaxLen /\ MaxLen \in Nat
      BY <1>2, <2>1, Bounds
    <2>3. CASE d > len
      <3>1. len \in Positions /\ d - 1 \in Int /\ len <= d - 1
        BY <2>2, <2>3 DEF Positions
      <3>2. \A p \in Positions : bytes'[p] = IF len <= p /\ p <= d - 1 THEN 0 ELSE bytes[p]
        <4>1. \A p \in Positions : p < d <=> p <= d - 1
          BY <2>2, Bounds
        <4> QED
          BY <1>1, <2>1, <4>1
      <3>3. PagesTidy(ClearRange(doc.ranges, len, d - 1), bytes')
        BY <1>2, <3>1, <3>2, ClearKeepsTidy
      <3> QED
        BY <1>3, <2>1, <2>3, <3>3
    <2>4. CASE ~(d > len)
      <3>1. \A p \in Positions : ~(len <= p /\ p < d)
        BY <2>2, <2>4, Bounds
      <3>2. \A p \in Positions : bytes'[p] = bytes[p]
        BY <1>1, <2>1, <3>1
      <3>3. doc'.ranges = doc.ranges
        BY <1>3, <2>1, <2>4
      <3> QED
        BY <1>2, <3>2, <3>3 DEF PagesTidy
    <2> QED
      BY <2>3, <2>4
  <1> QED
    BY <1>1, <1>2, <1>3, <1>4 DEF PagesInv, UploadShape

LEMMA ContentStep ==
    PagesInv /\ [ContentNext]_contentVars => PagesInv'
  <1> SUFFICES ASSUME PagesInv, [ContentNext]_contentVars
               PROVE  PagesInv'
    OBVIOUS
  <1>1. CASE UNCHANGED contentVars
    BY <1>1, OthersKeep DEF contentVars, PagesInv
  <1>2. ASSUME NEW n \in 1 .. MaxLen, PutBlob(n) \/ StageBlock(n) \/ AppendBlock(n)
        PROVE  PagesInv'
    BY <1>2, PutBlobKeeps, StageBlockKeeps, AppendBlockKeeps
  <1>3. ASSUME NEW list, CommitBlockList(list)
        PROVE  PagesInv'
    BY <1>3, CommitBlockListKeeps
  <1>4. CASE CreateEmpty("append", 0)
    BY <1>4, Bounds, CreateEmptyKeeps
  <1>11. CASE PutEmptyBlob
    BY <1>11, PutEmptyBlobKeeps
  <1>5. ASSUME NEW len \in 0 .. MaxLen, CreateEmpty("page", len) \/ Resize(len)
        PROVE  PagesInv'
    BY <1>5, CreateEmptyKeeps, ResizeKeeps
  <1>6. ASSUME NEW start \in Positions, NEW end \in start .. MaxLen - 1, UploadPages(start, end)
        PROVE  PagesInv'
    BY <1>6, UploadPagesKeeps
  <1>7. CASE MergePages
    BY <1>7, MergePagesKeeps
  <1>8. ASSUME NEW start \in Positions, NEW end \in Ends(start), ClearPages(start, end)
        PROVE  PagesInv'
    BY <1>8, ClearPagesKeeps
  <1>9. ASSUME NEW range \in Asked, Download(range[1], range[2])
        PROVE  PagesInv'
    <2>1. UNCHANGED <<extents, doc, upload, bytes>>
      BY <1>9 DEF Download, DownloadPageBlob, DownloadBlockBlobOrAppendBlob, StartDownload
    <2> QED
      BY <2>1, OthersKeep DEF PagesInv
  <1>10. CASE ReadHash \/ ReadBody \/ AnswerDownload
    <2>1. UNCHANGED <<extents, doc, upload, bytes>>
      BY <1>10 DEF ReadHash, ReadBody, AnswerDownload
    <2> QED
      BY <2>1, OthersKeep DEF PagesInv
  <1> QED
    BY <1>1, <1>2, <1>3, <1>4, <1>5, <1>6, <1>7, <1>8, <1>9, <1>10, <1>11 DEF ContentNext

LEMMA PagesInvListed ==
    PagesInv => PageRangesAreWritten
  <1> SUFFICES ASSUME PagesInv, doc.type = "page", NEW start \in Positions, PageRangesAllowed(start),
                      NEW end \in Ends(start), NEW listed, listed = GetPageRanges(start, end)
               PROVE  /\ \A i \in 1 .. Len(listed) - 1 : listed[i].end < listed[i + 1].start
                      /\ UNION {listed[i].start .. listed[i].end : i \in DOMAIN listed}
                             = {p \in Positions : start <= p /\ p <= end /\ bytes[p] # 0}
    BY DEF PageRangesAreWritten
  <1> DEFINE R == doc.ranges
  <1>1. PagesTidy(R, bytes)
    BY DEF PagesInv
  <1>2. listed = CutRanges(R, start, end)
    BY DEF GetPageRanges
  <1> HIDE DEF R
  <1>3. Tidy(R, 0, MaxLen - 1) /\ \A p \in Positions : InCover(R, p) <=> bytes[p] # 0
    BY <1>1 DEF PagesTidy
  <1>4. start \in Int /\ end \in Int /\ start <= end /\ 0 \in Int /\ MaxLen - 1 \in Int
    BY Bounds DEF Ends, Infinity
  <1>5. Len(R) \in Nat /\ Len(R) <= MaxLen
    BY <1>3, <1>4, Bounds, TidyLength, TidyRange
  <1>6. Len(R) <= Infinity /\ Infinity \in Nat
    BY <1>5, Bounds
  <1>7. /\ DOMAIN listed = 1 .. Len(listed)
        /\ \A i \in 1 .. Len(listed) : listed[i].start \in Int /\ listed[i].end \in Int
        /\ \A i \in 1 .. Len(listed) - 1 : listed[i].end < listed[i + 1].start
        /\ \A p \in Int : (\E i \in 1 .. Len(listed) : listed[i].start <= p /\ p <= listed[i].end)
                              <=> InCover(R, p) /\ start <= p /\ p <= end
    BY <1>2, <1>3, <1>4, <1>6, CutRangesCover, SMTT(30)
  <1>8. \A p \in Int : InCover(R, p) => p \in Positions
    <2> SUFFICES ASSUME NEW p \in Int, InCover(R, p)
                 PROVE  p \in Positions
      OBVIOUS
    <2>1. PICK i \in 1 .. Len(R) : R[i].start <= p /\ p <= R[i].end
      BY DEF InCover
    <2>2. 0 <= R[i].start /\ R[i].end <= MaxLen - 1 /\ R[i].start \in Int /\ R[i].end \in Int
      BY <1>3, <1>4, TidyRange
    <2>3. 0 <= p /\ p <= MaxLen - 1
      BY <1>4, <2>1, <2>2
    <2> QED
      BY <1>4, <2>3 DEF Positions
  <1>9. ASSUME NEW p
        PROVE  p \in UNION {listed[i].start .. listed[i].end : i \in DOMAIN listed}
                   <=> p \in {q \in Positions : start <= q /\ q <= end /\ bytes[q] # 0}
    <2>1. p \in UNION {listed[i].start .. listed[i].end : i \in DOMAIN listed}
              <=> \E i \in 1 .. Len(listed) : p \in listed[i].start .. listed[i].end
      <3>1. DOMAIN listed = 1 .. Len(listed)
        BY <1>7
      <3> QED
        BY <3>1, Zenon
    <2>3. ASSUME NEW i \in 1 .. Len(listed)
          PROVE  p \in listed[i].start .. listed[i].end
                     <=> p \in Int /\ listed[i].start <= p /\ p <= listed[i].end
      <3>1. listed[i].start \in Int /\ listed[i].end \in Int
        BY <1>7
      <3> QED
        BY <3>1
    <2>4. (\E i \in 1 .. Len(listed) : p \in listed[i].start .. listed[i].end)
              <=> p \in Int /\ \E i \in 1 .. Len(listed) : listed[i].start <= p /\ p <= listed[i].end
      BY <2>3, Zenon
    <2>2. p \in {q \in Positions : start <= q /\ q <= end /\ bytes[q] # 0}
              <=> p \in Int /\ InCover(R, p) /\ start <= p /\ p <= end
      BY <1>3, <1>8, Bounds
    <2> QED
      BY <1>7, <2>1, <2>2, <2>4
  <1>10. UNION {listed[i].start .. listed[i].end : i \in DOMAIN listed}
             = {p \in Positions : start <= p /\ p <= end /\ bytes[p] # 0}
    BY <1>9, Zenon
  <1> QED
    BY <1>7, <1>10

\* In every reachable state Get Page Ranges lists exactly the written pages.
THEOREM PageRangesWritten ==
    ContentSpec => []PageRangesAreWritten
  <1> QED
    BY ContentInitInv, ContentStep, PagesInvListed, PTL DEF ContentSpec

----------------------------------------------------------------------------
(* FlattenSeq, prefix by prefix.                                           *)

\* F[k] is the concatenation of the first k of seqs.
Joins(F, seqs) ==
    /\ F[0] = <<>>
    /\ \A k \in 1 .. Len(seqs) : F[k] = F[k - 1] \o seqs[k]

LEMMA PrefixType ==
    ASSUME NEW S, NEW seqs \in Seq(Seq(S)), NEW F, Joins(F, seqs)
    PROVE  \A k \in 0 .. Len(seqs) : F[k] \in Seq(S) /\ Len(F[k]) \in Nat
  <1> DEFINE n == Len(seqs)
             T == {k \in Nat : k \in 0 .. n => F[k] \in Seq(S)}
  <1>1. n \in Nat /\ \A k \in 1 .. n : seqs[k] \in Seq(S)
    OBVIOUS
  <1>2. 0 \in T
    BY EmptySeq DEF Joins
  <1>3. ASSUME NEW k \in Nat, k \in T
        PROVE  k + 1 \in T
    <2> SUFFICES ASSUME k + 1 \in 0 .. n
                 PROVE  F[k + 1] \in Seq(S)
      OBVIOUS
    <2>1. k + 1 \in 1 .. n /\ k \in 0 .. n /\ (k + 1) - 1 = k
      BY <1>1
    <2>2. F[k + 1] = F[k] \o seqs[k + 1]
      BY <2>1 DEF Joins
    <2>3. F[k] \in Seq(S) /\ seqs[k + 1] \in Seq(S)
      BY <1>1, <1>3, <2>1
    <2> QED
      BY <2>2, <2>3, ConcatProperties
  <1>4. \A k \in Nat : k \in T
    <2> HIDE DEF T
    <2> QED
      BY <1>2, <1>3, NatsFrom
  <1>5. \A k \in 0 .. n : F[k] \in Seq(S)
    BY <1>1, <1>4
  <1>6. \A s \in Seq(S) : Len(s) \in Nat
    OBVIOUS
  <1> QED
    BY <1>5, <1>6

LEMMA FlattenPrefixes ==
    ASSUME NEW S, NEW seqs \in Seq(Seq(S))
    PROVE  \E F : Joins(F, seqs) /\ F[Len(seqs)] = FlattenSeq(seqs)
  <1> DEFINE n == Len(seqs)
             G == CHOOSE f : f = [i \in 1 .. n |-> IF i = 1 THEN seqs[i] ELSE f[i - 1] \o seqs[i]]
             F == [k \in 0 .. n |-> IF k = 0 THEN <<>> ELSE G[k]]
  <1>1. n \in Nat /\ \A i \in 1 .. n : seqs[i] \in Seq(S)
    OBVIOUS
  <1>2. FlattenSeq(seqs) = IF n = 0 THEN seqs ELSE G[n]
    BY DEF FlattenSeq
  <1>3. FlattensTo(G, seqs, n)
    <2>1. \E f : FlattensTo(f, seqs, n)
      BY <1>1, FlattenExists
    <2> QED
      BY <2>1 DEF FlattensTo
  <1> HIDE DEF G
  <1>4. \A i \in 1 .. n : G[i] = IF i = 1 THEN seqs[i] ELSE G[i - 1] \o seqs[i]
    BY <1>3 DEF FlattensTo
  <1>5. \A k \in 0 .. n : F[k] = IF k = 0 THEN <<>> ELSE G[k]
    OBVIOUS
  <1>6. n = 0 => seqs = <<>>
    BY EmptySeq
  <1>7. F[0] = <<>> /\ F[n] = FlattenSeq(seqs)
    <2>1. 0 \in 0 .. n /\ n \in 0 .. n
      BY <1>1
    <2> HIDE DEF n, F
    <2> QED
      BY <1>2, <1>5, <1>6, <2>1
  <1> HIDE DEF n, F
  <1>8. ASSUME NEW k \in 1 .. n
        PROVE  F[k] = F[k - 1] \o seqs[k]
    <2>1. k \in 0 .. n /\ k # 0 /\ k - 1 \in 0 .. n
      BY <1>1
    <2>2. CASE k = 1
      <3>1. F[k - 1] = <<>> /\ F[k] = seqs[k] /\ seqs[k] \in Seq(S)
        BY <1>1, <1>4, <1>5, <2>1, <2>2
      <3>2. <<>> \o seqs[k] = seqs[k]
        BY <3>1, ConcatEmptySeq
      <3> QED
        BY <3>1, <3>2
    <2>3. CASE k # 1
      <3>1. F[k - 1] = G[k - 1]
        BY <1>5, <2>1, <2>3
      <3> QED
        BY <1>4, <1>5, <2>1, <2>3, <3>1
    <2> QED
      BY <2>2, <2>3
  <1>9. Joins(F, seqs)
    BY <1>7, <1>8 DEF Joins, n
  <1> QED
    BY <1>7, <1>9 DEF n

SameStart(s, t, n) ==
    /\ n \in Nat /\ Len(s) \in Nat /\ Len(t) \in Nat /\ n <= Len(s) /\ n <= Len(t)
    /\ \A k \in 1 .. n : s[k] = t[k]

LEMMA PrefixesAgree ==
    ASSUME NEW s, NEW t, NEW F, NEW G, NEW n, SameStart(s, t, n), Joins(F, s), Joins(G, t)
    PROVE  F[n] = G[n]
  <1> USE DEF SameStart
  <1> DEFINE T == {k \in Nat : k \in 0 .. n => F[k] = G[k]}
  <1>1. 0 \in T
    BY DEF Joins
  <1>2. ASSUME NEW k \in Nat, k \in T
        PROVE  k + 1 \in T
    <2> SUFFICES ASSUME k + 1 \in 0 .. n
                 PROVE  F[k + 1] = G[k + 1]
      OBVIOUS
    <2>1. /\ k + 1 \in 1 .. n /\ k + 1 \in 1 .. Len(s) /\ k + 1 \in 1 .. Len(t)
          /\ k \in 0 .. n /\ (k + 1) - 1 = k
      OBVIOUS
    <2> QED
      BY <1>2, <2>1 DEF Joins
  <1>3. \A k \in Nat : k \in T
    <2> HIDE DEF T
    <2> QED
      BY <1>1, <1>2, NatsFrom
  <1> QED
    BY <1>3

LEMMA FlattenAppend ==
    ASSUME NEW S, NEW seqs \in Seq(Seq(S)), NEW last \in Seq(S)
    PROVE  FlattenSeq(Append(seqs, last)) = FlattenSeq(seqs) \o last
  <1> DEFINE n == Len(seqs)
             more == Append(seqs, last)
  <1>1. /\ n \in Nat /\ more \in Seq(Seq(S)) /\ Len(more) = n + 1
        /\ \A k \in 1 .. n : more[k] = seqs[k]
        /\ more[n + 1] = last
    OBVIOUS
  <1> HIDE DEF more
  <1>2. PICK F : Joins(F, seqs) /\ F[n] = FlattenSeq(seqs)
    BY FlattenPrefixes
  <1>3. PICK G : Joins(G, more) /\ G[Len(more)] = FlattenSeq(more)
    BY <1>1, FlattenPrefixes
  <1>4. F[n] = G[n]
    <2>1. /\ n \in Nat /\ n <= n /\ n <= Len(more) /\ Len(more) \in Nat
          /\ \A k \in 1 .. n : seqs[k] = more[k]
      BY <1>1
    <2>2. Joins(F, seqs) /\ Joins(G, more) /\ SameStart(seqs, more, n)
      BY <1>2, <1>3, <2>1 DEF SameStart
    <2> HIDE DEF n
    <2> QED
      BY <2>2, PrefixesAgree
  <1>5. G[n + 1] = G[n] \o more[n + 1]
    <2>1. n + 1 \in 1 .. Len(more) /\ (n + 1) - 1 = n
      BY <1>1
    <2> QED
      BY <1>3, <2>1 DEF Joins
  <1> QED
    BY <1>1, <1>2, <1>3, <1>4, <1>5 DEF more

LEMMA FlattenFew ==
    ASSUME NEW S, NEW x \in Seq(S), NEW y \in Seq(S)
    PROVE  FlattenSeq(<<>>) = <<>> /\ FlattenSeq(<<x>>) = x /\ FlattenSeq(<<x, y>>) = x \o y
  <1>1. FlattenSeq(<<>>) = <<>>
    BY DEF FlattenSeq
  <1>2. <<>> \in Seq(Seq(S)) /\ <<x>> \in Seq(Seq(S))
    <2>1. <<>> \in Seq(Seq(S))
      BY EmptySeq
    <2>2. <<x>> \in Seq(Seq(S))
      OBVIOUS
    <2> QED
      BY <2>1, <2>2
  <1>6. Append(<<>>, x) = <<x>> /\ Append(<<x>>, y) = <<x, y>>
    <2>1. Append(<<>>, x) = <<x>>
      OBVIOUS
    <2>2. Append(<<x>>, y) = <<x, y>>
      <3> DEFINE U == Seq(S)
                 a == Append(<<x>>, y)
                 b == <<x, y>>
      <3>1. x \in U /\ y \in U
        OBVIOUS
      <3> HIDE DEF U
      <3>2. a \in Seq(U) /\ Len(a) = 2 /\ a[1] = x /\ a[2] = y
        BY <3>1
      <3>3. b \in Seq(U) /\ Len(b) = 2 /\ b[1] = x /\ b[2] = y
        BY <3>1
      <3> HIDE DEF a, b
      <3>4. \A i \in 1 .. 2 : a[i] = b[i]
        BY <3>2, <3>3
      <3>5. a = b
        BY <3>2, <3>3, <3>4, SeqEqual
      <3> QED
        BY <3>5 DEF a, b
    <2> QED
      BY <2>1, <2>2
  <1>3. FlattenSeq(<<x>>) = <<>> \o x
    BY <1>1, <1>2, <1>6, FlattenAppend
  <1>4. <<>> \o x = x
    BY ConcatEmptySeq
  <1>5. FlattenSeq(<<x, y>>) = FlattenSeq(<<x>>) \o y
    BY <1>2, <1>6, FlattenAppend
  <1> QED
    BY <1>1, <1>3, <1>4, <1>5

\* Where the units of the k-th of seqs are in the flattened sequence.
Located(F, seqs) ==
    \A k \in 1 .. Len(seqs) :
        /\ Len(F[k - 1]) \in Nat /\ Len(F[k]) = Len(F[k - 1]) + Len(seqs[k])
        /\ Len(F[k]) <= Len(F[Len(seqs)])
        /\ \A j \in 1 .. Len(seqs[k]) : F[Len(seqs)][Len(F[k - 1]) + j] = seqs[k][j]

LEMMA FlattenIndex ==
    ASSUME NEW seqs \in Seq(Seq(Nat)), NEW F, Joins(F, seqs)
    PROVE  Located(F, seqs)
  <1> DEFINE n == Len(seqs)
  <1>1. n \in Nat /\ \A k \in 1 .. n : seqs[k] \in Seq(Nat) /\ Len(seqs[k]) \in Nat
    OBVIOUS
  <1>2. \A k \in 0 .. n : F[k] \in Seq(Nat) /\ Len(F[k]) \in Nat
    BY PrefixType
  <1>3. \A k \in 1 .. n : F[k] = F[k - 1] \o seqs[k]
    BY DEF Joins
  <1> HIDE DEF n
  <1>4. ASSUME NEW k \in 1 .. n
        PROVE  /\ F[k - 1] \in Seq(Nat) /\ Len(F[k - 1]) \in Nat
               /\ Len(F[k]) = Len(F[k - 1]) + Len(seqs[k])
               /\ \A j \in 1 .. Len(F[k - 1]) : F[k][j] = F[k - 1][j]
               /\ \A j \in 1 .. Len(seqs[k]) : F[k][Len(F[k - 1]) + j] = seqs[k][j]
    <2>1. k - 1 \in 0 .. n
      BY <1>1
    <2> DEFINE x == F[k - 1]
               y == seqs[k]
    <2>2. x \in Seq(Nat) /\ y \in Seq(Nat) /\ F[k] = x \o y /\ Len(x) \in Nat /\ Len(y) \in Nat
      BY <1>1, <1>2, <1>3, <2>1
    <2> HIDE DEF x, y
    <2>3. /\ Len(x \o y) = Len(x) + Len(y)
          /\ \A i \in 1 .. Len(x) + Len(y) : (x \o y)[i] = IF i <= Len(x) THEN x[i] ELSE y[i - Len(x)]
      BY <2>2, ConcatProperties
    <2>4. \A j \in 1 .. Len(x) : (x \o y)[j] = x[j]
      BY <2>2, <2>3
    <2>5. ASSUME NEW j \in 1 .. Len(y)
          PROVE  (x \o y)[Len(x) + j] = y[j]
      <3>1. Len(x) + j \in 1 .. Len(x) + Len(y) /\ ~(Len(x) + j <= Len(x)) /\ (Len(x) + j) - Len(x) = j
        BY <2>2
      <3> QED
        BY <2>3, <3>1
    <2> QED
      BY <2>2, <2>3, <2>4, <2>5 DEF x, y
  \* The numbers, apart from the sequences.
  <1> DEFINE size(k) == Len(F[k])
             len(k) == Len(seqs[k])
  <1>5. /\ \A k \in 0 .. n : size(k) \in Nat
        /\ \A k \in 1 .. n : len(k) \in Nat /\ size(k) = size(k - 1) + len(k)
        /\ \A k \in 1 .. n : \A j \in 1 .. size(k - 1) : F[k][j] = F[k - 1][j]
    BY <1>1, <1>2, <1>4
  <1> DEFINE In(k, m) == size(k) <= size(m) /\ \A j \in 1 .. size(k) : F[m][j] = F[k][j]
  <1> HIDE DEF size, len
  <1>6. ASSUME NEW k \in 0 .. n
        PROVE  In(k, n)
    <2> DEFINE T == {m \in Nat : k + m \in 0 .. n => In(k, k + m)}
    <2>1. 0 \in T
      BY <1>5
    <2>2. ASSUME NEW m \in Nat, m \in T
          PROVE  m + 1 \in T
      <3> SUFFICES ASSUME k + (m + 1) \in 0 .. n
                   PROVE  In(k, k + (m + 1))
        OBVIOUS
      <3>1. PICK a, b : a = k + m /\ b = k + (m + 1)
        OBVIOUS
      <3>2. a \in 0 .. n /\ b \in 1 .. n /\ b - 1 = a
        BY <1>1, <3>1
      <3>3. In(k, a)
        BY <2>2, <3>1, <3>2
      <3>4. /\ size(b) = size(a) + len(b)
            /\ \A j \in 1 .. size(a) : F[b][j] = F[a][j]
            /\ len(b) \in Nat /\ size(a) \in Nat /\ size(k) \in Nat
        BY <1>5, <3>2
      <3>5. In(k, b)
        BY <3>3, <3>4
      <3> QED
        BY <3>1, <3>5
    <2>3. \A m \in Nat : m \in T
      <3> HIDE DEF T
      <3> QED
        BY <2>1, <2>2, NatsFrom
    <2>4. n - k \in Nat /\ k + (n - k) = n /\ n \in 0 .. n
      BY <1>1
    <2>5. n - k \in T
      BY <2>3, <2>4
    <2> HIDE DEF In
    <2> QED
      BY <2>4, <2>5
  <1>7. ASSUME NEW k \in 1 .. n
        PROVE  /\ size(k - 1) \in Nat /\ size(k) = size(k - 1) + len(k)
               /\ size(k) <= size(n)
               /\ \A j \in 1 .. len(k) : F[n][size(k - 1) + j] = seqs[k][j]
    <2>1. k \in 0 .. n /\ k - 1 \in 0 .. n
      BY <1>1
    <2>2. In(k, n)
      BY <1>6, <2>1
    <2>3. size(k) = size(k - 1) + len(k) /\ size(k - 1) \in Nat /\ len(k) \in Nat
      BY <1>5, <2>1
    <2>4. \A j \in 1 .. len(k) : size(k - 1) + j \in 1 .. size(k)
      BY <2>3
    <2>5. \A j \in 1 .. len(k) : F[k][size(k - 1) + j] = seqs[k][j]
      BY <1>4 DEF size, len
    <2> QED
      BY <2>2, <2>3, <2>4, <2>5
  <1> QED
    BY <1>7 DEF n, size, len, Located

----------------------------------------------------------------------------
(* The folds of the reads, unrolled.                                      *)

LEMMA ReadBuffersRuns ==
    ASSUME NEW S, NEW buffers \in Seq(S), NEW chunk
    PROVE  \E F : /\ Fills(F, [skip |-> chunk.offset, take |-> chunk.count, out |-> <<>>],
                           buffers, <<"buffers">>)
                  /\ ReadBuffers(buffers, chunk) = F[Len(buffers)].out
  <1> DEFINE n == Len(buffers)
             q == [skip |-> chunk.offset, take |-> chunk.count, out |-> <<>>]
             how == <<"buffers">>
             Take(state, buffer) ==
                 IF state.take = 0 THEN state
                 ELSE IF state.skip > 0 /\ Len(buffer) <= state.skip
                      THEN [state EXCEPT !.skip = @ - Len(buffer)]
                 ELSE LET slice == SubSeq(buffer, state.skip + 1,
                                          Smaller(state.skip + state.take, Len(buffer)))
                      IN  [skip |-> 0, take |-> state.take - Len(slice), out |-> state.out \o slice]
             it == CHOOSE g : g = [s \in SUBSET (1 .. n) |->
                        IF s = {} THEN q ELSE Take(g[s \ {Max(s)}], buffers[Max(s)])]
  <1>1. DOMAIN buffers = 1 .. n /\ n \in Nat
    OBVIOUS
  <1>2. ReadBuffers(buffers, chunk) = it[1 .. n].out
    BY <1>1 DEF ReadBuffers, FoldLeft, MapThenFoldSet
  <1>3. \A p, i : AddOne(how, p, i) = Take(p, i)
    BY DEF AddOne, TakeBuffer
  <1> HIDE DEF Take, how, q
  <1>4. PICK h : Folds(h, n, q, buffers, how)
    BY <1>1, FoldExists
  <1>5. h = [s \in SUBSET (1 .. n) |->
                 IF s = {} THEN q ELSE Take(h[s \ {Max(s)}], buffers[Max(s)])]
    BY <1>3, <1>4 DEF Folds
  <1>6. it = [s \in SUBSET (1 .. n) |->
                 IF s = {} THEN q ELSE Take(it[s \ {Max(s)}], buffers[Max(s)])]
    BY <1>5
  <1> HIDE DEF it
  <1>7. Folds(it, n, q, buffers, how)
    BY <1>3, <1>6 DEF Folds
  <1>8. PICK F : Fills(F, q, buffers, how) /\ F[n] = it[1 .. n]
    BY <1>7, FoldFills
  <1> QED
    BY <1>2, <1>8 DEF q, how

LEMMA ReadExtentsRuns ==
    ASSUME NEW S, NEW chunks \in Seq(S), NEW offset, NEW count, count # 0
    PROVE  \E F : /\ Fills(F, [at |-> 0, out |-> <<>>], chunks, <<"chunks", offset, offset + count>>)
                  /\ ReadExtents(chunks, offset, count)
                         = IF F[Len(chunks)].at < offset + count THEN Failed ELSE F[Len(chunks)].out
  <1> DEFINE n == Len(chunks)
             q == [at |-> 0, out |-> <<>>]
             end == offset + count
             how == <<"chunks", offset, end>>
             Take(state, chunk) ==
                 LET next == state.at + chunk.count
                     from == IF offset > state.at THEN offset - state.at ELSE 0
                     beyond == IF end <= next THEN next - end ELSE 0
                 IN  IF next <= offset THEN [state EXCEPT !.at = next]
                     ELSE IF end <= state.at THEN state
                     ELSE [at |-> next,
                           out |-> state.out \o ReadExtent(Chunk(chunk.id, chunk.offset + from,
                                                                 chunk.count - from - beyond))]
             it == CHOOSE g : g = [s \in SUBSET (1 .. n) |->
                        IF s = {} THEN q ELSE Take(g[s \ {Max(s)}], chunks[Max(s)])]
             read == it[1 .. n]
  <1>1. DOMAIN chunks = 1 .. n /\ n \in Nat
    OBVIOUS
  <1>2. ReadExtents(chunks, offset, count) = IF read.at < end THEN Failed ELSE read.out
    <2>1. FoldLeft(Take, q, chunks) = read
      BY <1>1 DEF FoldLeft, MapThenFoldSet
    <2>2. ReadExtents(chunks, offset, count)
              = LET r == FoldLeft(Take, q, chunks)
                IN  IF count = 0 THEN <<>> ELSE IF r.at < end THEN Failed ELSE r.out
      BY DEF ReadExtents
    <2> HIDE DEF Take, q, end, it
    <2> QED
      BY <2>1, <2>2
  <1>3. \A p, i : AddOne(how, p, i) = Take(p, i)
    BY DEF AddOne, TakeChunk, ChunkPart
  <1> HIDE DEF Take, how, q
  <1>4. PICK h : Folds(h, n, q, chunks, how)
    BY <1>1, FoldExists
  <1>5. h = [s \in SUBSET (1 .. n) |->
                 IF s = {} THEN q ELSE Take(h[s \ {Max(s)}], chunks[Max(s)])]
    BY <1>3, <1>4 DEF Folds
  <1>6. it = [s \in SUBSET (1 .. n) |->
                 IF s = {} THEN q ELSE Take(it[s \ {Max(s)}], chunks[Max(s)])]
    BY <1>5
  <1> HIDE DEF it
  <1>7. Folds(it, n, q, chunks, how)
    BY <1>3, <1>6 DEF Folds
  <1>8. PICK F : Fills(F, q, chunks, how) /\ F[n] = it[1 .. n]
    BY <1>7, FoldFills
  <1> QED
    BY <1>2, <1>8 DEF q, how

Total(list) == FoldLeft(LAMBDA total, block : total + block.count, 0, list)

LEMMA TotalRuns ==
    ASSUME NEW S, NEW list \in Seq(S)
    PROVE  \E F : Fills(F, 0, list, <<"count">>) /\ Total(list) = F[Len(list)]
  <1> DEFINE n == Len(list)
             how == <<"count">>
             Take(total, block) == total + block.count
             it == CHOOSE g : g = [s \in SUBSET (1 .. n) |->
                        IF s = {} THEN 0 ELSE Take(g[s \ {Max(s)}], list[Max(s)])]
  <1>1. DOMAIN list = 1 .. n /\ n \in Nat
    OBVIOUS
  <1>2. Total(list) = it[1 .. n]
    BY <1>1 DEF Total, FoldLeft, MapThenFoldSet
  <1>3. \A p, i : AddOne(how, p, i) = Take(p, i)
    BY DEF AddOne
  <1> HIDE DEF Take, how
  <1>4. PICK h : Folds(h, n, 0, list, how)
    BY <1>1, FoldExists
  <1>5. h = [s \in SUBSET (1 .. n) |->
                 IF s = {} THEN 0 ELSE Take(h[s \ {Max(s)}], list[Max(s)])]
    BY <1>3, <1>4 DEF Folds
  <1>6. it = [s \in SUBSET (1 .. n) |->
                 IF s = {} THEN 0 ELSE Take(it[s \ {Max(s)}], list[Max(s)])]
    BY <1>5
  <1> HIDE DEF it
  <1>7. Folds(it, n, 0, list, how)
    BY <1>3, <1>6 DEF Folds
  <1>8. PICK F : Fills(F, 0, list, how) /\ F[n] = it[1 .. n]
    BY <1>7, FoldFills
  <1> QED
    BY <1>2, <1>8 DEF how

----------------------------------------------------------------------------
(* What a read takes out of a sequence, piece by piece.                    *)

\* How much of lo .. hi lies before `at', ...
TakenLen(lo, hi, at) == IF at <= lo THEN 0 ELSE IF at <= hi THEN at - lo ELSE hi - lo
\* ... and that is what has been taken of X.
Taken(out, X, lo, hi, at) ==
    /\ out \in Seq(Nat) /\ Len(out) = TakenLen(lo, hi, at)
    /\ \A j \in 1 .. Len(out) : out[j] = X[lo + j]

\* piece is what follows in X, up to n in all.
Follows(out, piece, X, lo, n) ==
    /\ piece \in Seq(Nat) /\ Len(out) + Len(piece) = n
    /\ \A j \in 1 .. Len(piece) : piece[j] = X[lo + Len(out) + j]

LEMMA TakenMore ==
    ASSUME NEW out, NEW X, NEW lo \in Nat, NEW hi \in Nat, NEW at \in Nat, NEW to \in Nat,
           Taken(out, X, lo, hi, at), NEW piece, Follows(out, piece, X, lo, TakenLen(lo, hi, to))
    PROVE  Taken(out \o piece, X, lo, hi, to) /\ Len(out \o piece) = Len(out) + Len(piece)
  <1> DEFINE m == Len(out)
             n == Len(piece)
             W == out \o piece
  <1>1. out \in Seq(Nat) /\ piece \in Seq(Nat) /\ m \in Nat /\ n \in Nat
        /\ \A j \in 1 .. m : out[j] = X[lo + j]
    BY DEF Taken, Follows
  <1>2. /\ W \in Seq(Nat) /\ Len(W) = m + n
        /\ \A i \in 1 .. m + n : W[i] = IF i <= m THEN out[i] ELSE piece[i - m]
    BY <1>1, ConcatProperties
  <1>3. m + n = TakenLen(lo, hi, to) /\ \A j \in 1 .. n : piece[j] = X[lo + m + j]
    BY DEF Follows
  <1> HIDE DEF m, n, W
  <1>4. ASSUME NEW j \in 1 .. m + n
        PROVE  W[j] = X[lo + j]
    <2>1. CASE j <= m
      <3>1. j \in 1 .. m
        BY <1>1, <2>1
      <3> QED
        BY <1>1, <1>2, <2>1, <3>1
    <2>2. CASE ~(j <= m)
      <3>1. j - m \in 1 .. n /\ lo + m + (j - m) = lo + j
        BY <1>1, <2>2
      <3>2. W[j] = piece[j - m]
        BY <1>2, <2>2
      <3>3. piece[j - m] = X[lo + m + (j - m)]
        BY <1>3, <3>1
      <3> QED
        BY <3>1, <3>2, <3>3
    <2> QED
      BY <2>1, <2>2
  <1>5. Taken(W, X, lo, hi, to)
    BY <1>2, <1>3, <1>4 DEF Taken
  <1> QED
    BY <1>2, <1>5 DEF W, m, n

LEMMA TakenSame ==
    ASSUME NEW out, NEW X, NEW lo \in Nat, NEW hi \in Nat, NEW at \in Nat, NEW to \in Nat,
           Taken(out, X, lo, hi, at), TakenLen(lo, hi, to) = TakenLen(lo, hi, at)
    PROVE  Taken(out, X, lo, hi, to)
  BY DEF Taken

BufferState(state, X, lo, hi, at) ==
    /\ state = [skip |-> IF at <= lo THEN lo - at ELSE 0, take |-> hi - lo - Len(state.out), out |-> state.out]
    /\ Taken(state.out, X, lo, hi, at)

LEMMA BufferStep ==
    ASSUME NEW state, NEW X, NEW lo \in Nat, NEW hi \in Nat, lo < hi, NEW at \in Nat,
           BufferState(state, X, lo, hi, at), NEW buffer \in Seq(Nat),
           \A j \in 1 .. Len(buffer) : X[at + j] = buffer[j]
    PROVE  BufferState(TakeBuffer(state, buffer), X, lo, hi, at + Len(buffer))
  <1> DEFINE n == Len(buffer)
             to == at + n
             next == TakeBuffer(state, buffer)
  <1>1. PICK out, skip, take, m : /\ out = state.out /\ skip = state.skip /\ take = state.take
                                  /\ m = Len(out)
    OBVIOUS
  <1>2. /\ state = [skip |-> skip, take |-> take, out |-> out]
        /\ skip = (IF at <= lo THEN lo - at ELSE 0) /\ take = hi - lo - m
        /\ Taken(out, X, lo, hi, at)
    BY <1>1 DEF BufferState
  <1>3. out \in Seq(Nat) /\ m \in Nat /\ m = TakenLen(lo, hi, at) /\ n \in Nat /\ to \in Nat
    BY <1>1, <1>2 DEF Taken
  <1>4. skip \in Nat /\ take \in Nat
    BY <1>2, <1>3 DEF TakenLen
  <1>5. PICK k : k = Smaller(skip + take, n)
    OBVIOUS
  <1> DEFINE slice == SubSeq(buffer, skip + 1, k)
  <1>6. next = IF take = 0 THEN state
               ELSE IF skip > 0 /\ n <= skip THEN [state EXCEPT !.skip = @ - n]
               ELSE [skip |-> 0, take |-> take - Len(slice), out |-> out \o slice]
    BY <1>1, <1>5 DEF TakeBuffer
  <1> HIDE DEF n, to, next, slice
  <1>7. CASE take = 0
    <2>1. next = state /\ at > lo /\ m = hi - lo
      BY <1>2, <1>3, <1>4, <1>6, <1>7, SMTT(30) DEF TakenLen
    <2>2. hi <= at /\ to >= at /\ to > lo
      BY <1>3, <2>1 DEF TakenLen, to
    <2>3. TakenLen(lo, hi, to) = TakenLen(lo, hi, at)
      BY <1>3, <2>2 DEF TakenLen
    <2>4. Taken(out, X, lo, hi, to)
      BY <1>2, <1>3, <2>3, TakenSame
    <2>5. next = [skip |-> IF to <= lo THEN lo - to ELSE 0, take |-> hi - lo - Len(next.out), out |-> next.out]
      <3>1. next = [skip |-> skip, take |-> take, out |-> out] /\ next.out = out
        BY <1>2, <2>1
      <3>2. skip = 0 /\ (IF to <= lo THEN lo - to ELSE 0) = 0
        <4>1. ~(at <= lo) /\ ~(to <= lo)
          BY <1>3, <2>1, <2>2
        <4> QED
          BY <1>2, <4>1
      <3>3. take = hi - lo - Len(out)
        BY <1>1, <1>2
      <3> QED
        BY <3>1, <3>2, <3>3
    <2> QED
      BY <1>1, <2>1, <2>4, <2>5 DEF BufferState, next, to, n
  <1>8. CASE take # 0 /\ skip > 0 /\ n <= skip
    <2>1. next = [skip |-> skip - n, take |-> take, out |-> out]
      BY <1>2, <1>6, <1>8
    <2>2. at <= lo /\ skip - n = lo - to /\ to <= lo
      BY <1>2, <1>3, <1>8 DEF to
    <2>3. TakenLen(lo, hi, to) = TakenLen(lo, hi, at)
      BY <1>3, <2>2 DEF TakenLen
    <2>4. Taken(out, X, lo, hi, to)
      BY <1>2, <1>3, <2>3, TakenSame
    <2>5. next = [skip |-> IF to <= lo THEN lo - to ELSE 0, take |-> hi - lo - Len(next.out), out |-> next.out]
      BY <1>1, <1>2, <2>1, <2>2
    <2> QED
      BY <2>1, <2>4, <2>5 DEF BufferState, next, to, n
  <1>9. CASE take # 0 /\ ~(skip > 0 /\ n <= skip)
    <2>1. next = [skip |-> 0, take |-> take - Len(slice), out |-> out \o slice]
      BY <1>6, <1>9
    <2>2. k \in Nat /\ skip <= k /\ k <= n
      BY <1>3, <1>4, <1>5, <1>9 DEF Smaller
    <2>3. /\ slice \in Seq(Nat) /\ Len(slice) = k - skip
          /\ \A j \in 1 .. k - skip : slice[j] = buffer[skip + j]
      <3>1. PICK a : a = skip + 1
        OBVIOUS
      <3>2. a \in Int /\ k \in Int /\ 1 <= a
        BY <1>4, <2>2, <3>1
      <3>3. \A j \in a .. k : buffer[j] \in Nat
        <4>1. \A j \in a .. k : j \in 1 .. Len(buffer)
          BY <1>3, <2>2, <3>2 DEF n
        <4> QED
          BY <4>1, ElementOfSeq
      <3>4. /\ SubSeq(buffer, a, k) \in Seq(Nat)
            /\ Len(SubSeq(buffer, a, k)) = IF a <= k THEN k - a + 1 ELSE 0
            /\ \A i \in 1 .. k - a + 1 : SubSeq(buffer, a, k)[i] = buffer[a + i - 1]
        BY <3>2, <3>3, SubSeqProperties
      <3>5. slice = SubSeq(buffer, a, k)
        BY <3>1 DEF slice
      <3>6. k - a + 1 = k - skip /\ (~(a <= k) => k - skip = 0)
        BY <1>4, <2>2, <3>1
      <3>7. \A j \in 1 .. k - skip : slice[j] = buffer[a + j - 1]
        BY <3>4, <3>5, <3>6
      <3>8. \A j \in 1 .. k - skip : a + j - 1 = skip + j
        BY <1>4, <2>2, <3>1
      <3>9. slice \in Seq(Nat) /\ Len(slice) = k - skip
        BY <3>4, <3>5, <3>6
      <3> QED
        BY <3>7, <3>8, <3>9
    <2>4. lo + m = at + skip
      BY <1>2, <1>3, <1>4, <1>9 DEF TakenLen
    <2>5. m + (k - skip) = TakenLen(lo, hi, to)
      <3>1. CASE at <= lo
        <4>1. skip = lo - at /\ m = 0 /\ take = hi - lo
          BY <1>2, <1>3, <3>1 DEF TakenLen
        <4>2. CASE n <= skip + take
          <5>1. k = n
            BY <1>3, <1>4, <1>5, <4>2 DEF Smaller
          <5> QED
            BY <1>3, <2>2, <4>1, <4>2, <5>1 DEF TakenLen, to
        <4>3. CASE ~(n <= skip + take)
          <5>1. k = skip + take
            BY <1>3, <1>4, <1>5, <4>3 DEF Smaller
          <5> QED
            BY <1>3, <4>1, <4>3, <5>1 DEF TakenLen, to
        <4> QED
          BY <4>2, <4>3
      <3>2. CASE ~(at <= lo)
        <4>0. at <= hi
          <5>1. ~(at <= hi) => m = hi - lo
            BY <1>3, <3>2 DEF TakenLen
          <5>2. m = hi - lo => take = 0
            BY <1>2
          <5> QED
            BY <1>9, <5>1, <5>2
        <4>1. skip = 0 /\ at <= hi /\ m = at - lo /\ take = hi - at
          <5>1. skip = 0 /\ m = at - lo
            BY <1>2, <1>3, <3>2, <4>0 DEF TakenLen
          <5>2. take = hi - at
            BY <1>2, <5>1
          <5> QED
            BY <4>0, <5>1, <5>2
        <4>2. CASE n <= skip + take
          <5>1. k = n
            BY <1>3, <1>4, <1>5, <4>2 DEF Smaller
          <5> QED
            BY <1>3, <3>2, <4>1, <4>2, <5>1 DEF TakenLen, to
        <4>3. CASE ~(n <= skip + take)
          <5>1. k = skip + take
            BY <1>3, <1>4, <1>5, <4>3 DEF Smaller
          <5> QED
            BY <1>3, <3>2, <4>1, <4>3, <5>1 DEF TakenLen, to
        <4> QED
          BY <4>2, <4>3
      <3> QED
        BY <3>1, <3>2
    <2>6. Len(out) + Len(slice) = TakenLen(lo, hi, to)
      BY <1>1, <2>3, <2>5
    <2>7. \A j \in 1 .. Len(slice) : slice[j] = X[lo + Len(out) + j]
      <3> SUFFICES ASSUME NEW j \in 1 .. Len(slice)
                   PROVE  slice[j] = X[lo + Len(out) + j]
        OBVIOUS
      <3>1. j \in 1 .. k - skip /\ slice[j] = buffer[skip + j]
        BY <2>3
      <3>2. PICK i : i = skip + j
        OBVIOUS
      <3>3. i \in 1 .. Len(buffer) /\ at + i = lo + m + j
        <4>1. 1 <= i /\ i <= n
          BY <1>3, <1>4, <2>2, <3>1, <3>2
        <4>2. at + i = lo + m + j
          BY <1>3, <1>4, <2>4, <3>1, <3>2
        <4> QED
          BY <1>4, <3>1, <3>2, <4>1, <4>2 DEF n
      <3>4. X[at + i] = buffer[i]
        BY <3>3
      <3> QED
        BY <1>1, <3>1, <3>2, <3>3, <3>4
    <2>8. Taken(out \o slice, X, lo, hi, to) /\ Len(out \o slice) = Len(out) + Len(slice)
      <3>1. Follows(out, slice, X, lo, TakenLen(lo, hi, to))
        BY <2>3, <2>6, <2>7 DEF Follows
      <3> QED
        BY <1>2, <1>3, <3>1, TakenMore
    <2>9. lo <= to
      BY <1>2, <1>3, <1>4, <1>9 DEF to
    <2>10. take - Len(slice) = hi - lo - (m + (k - skip)) /\ (IF to <= lo THEN lo - to ELSE 0) = 0
      <3>1. take - Len(slice) = hi - lo - (m + (k - skip))
        BY <1>2, <1>3, <1>4, <2>2, <2>3
      <3>2. to <= lo => lo - to = 0
        BY <1>3, <2>9
      <3> QED
        BY <3>1, <3>2
    <2>11. next = [skip |-> IF to <= lo THEN lo - to ELSE 0, take |-> hi - lo - Len(next.out), out |-> next.out]
      BY <1>1, <2>1, <2>3, <2>8, <2>10
    <2> QED
      BY <2>1, <2>8, <2>11 DEF BufferState, next, to, n
  <1> QED
    BY <1>7, <1>8, <1>9

\* MemoryExtentStore.readExtent() returns the bytes of the chunk.
LEMMA ReadBuffersReads ==
    ASSUME NEW buffers \in Seq(Seq(Nat)), NEW chunk, chunk.offset \in Nat, chunk.count \in Nat,
           chunk.count # 0, chunk.offset + chunk.count <= Len(FlattenSeq(buffers))
    PROVE  /\ ReadBuffers(buffers, chunk) \in Seq(Nat) /\ Len(ReadBuffers(buffers, chunk)) = chunk.count
           /\ \A k \in 1 .. chunk.count :
                  ReadBuffers(buffers, chunk)[k] = FlattenSeq(buffers)[chunk.offset + k]
  <1> DEFINE X == FlattenSeq(buffers)
             n == Len(buffers)
  <1>1. PICK lo, hi : lo = chunk.offset /\ hi = chunk.offset + chunk.count
    OBVIOUS
  <1>2. lo \in Nat /\ hi \in Nat /\ lo < hi /\ hi - lo = chunk.count /\ hi <= Len(X)
    BY <1>1
  <1>3. n \in Nat /\ \A k \in 1 .. n : buffers[k] \in Seq(Nat)
    OBVIOUS
  <1>4. PICK F : /\ Fills(F, [skip |-> chunk.offset, take |-> chunk.count, out |-> <<>>], buffers, <<"buffers">>)
                 /\ ReadBuffers(buffers, chunk) = F[n].out
    BY ReadBuffersRuns
  <1>5. PICK P : Joins(P, buffers) /\ P[n] = X
    BY FlattenPrefixes
  <1> DEFINE size(k) == Len(P[k])
  <1>6. /\ \A k \in 1 .. n : /\ size(k - 1) \in Nat /\ size(k) = size(k - 1) + Len(buffers[k])
                             /\ \A j \in 1 .. Len(buffers[k]) : X[size(k - 1) + j] = buffers[k][j]
        /\ size(0) = 0 /\ size(n) = Len(X)
    <2>1. P[0] = <<>>
      BY <1>5 DEF Joins
    <2>2. \A k \in 1 .. Len(buffers) :
               /\ Len(P[k - 1]) \in Nat /\ Len(P[k]) = Len(P[k - 1]) + Len(buffers[k])
               /\ Len(P[k]) <= Len(P[Len(buffers)])
               /\ \A j \in 1 .. Len(buffers[k]) : P[Len(buffers)][Len(P[k - 1]) + j] = buffers[k][j]
      <3>1. Joins(P, buffers)
        BY <1>5
      <3> HIDE DEF X, n
      <3>2. Located(P, buffers)
        BY <3>1, FlattenIndex
      <3> QED
        BY <3>2 DEF Located
    <2>3. size(0) = 0
      BY <2>1
    <2> QED
      BY <1>5, <2>2, <2>3
  <1> HIDE DEF X, n, size
  <1>7. F[0] = [skip |-> lo, take |-> hi - lo, out |-> <<>>]
    BY <1>1, <1>2, <1>4 DEF Fills
  <1>8. \A k \in 1 .. n : F[k] = TakeBuffer(F[k - 1], buffers[k])
    BY <1>4 DEF Fills, AddOne, n
  <1> DEFINE Good(k) == BufferState(F[k], X, lo, hi, size(k))
             T == {k \in Nat : k \in 0 .. n => Good(k)}
  <1>9. 0 \in T
    <2>1. Taken(<<>>, X, lo, hi, 0)
      BY <1>2 DEF Taken, TakenLen
    <2>2. F[0] = [skip |-> IF 0 <= lo THEN lo - 0 ELSE 0, take |-> hi - lo - Len(F[0].out), out |-> F[0].out]
      BY <1>2, <1>7
    <2> QED
      BY <1>6, <1>7, <2>1, <2>2 DEF BufferState
  <1>10. ASSUME NEW k \in Nat, k \in T
         PROVE  k + 1 \in T
    <2> SUFFICES ASSUME k + 1 \in 0 .. n
                 PROVE  Good(k + 1)
      OBVIOUS
    <2>1. PICK m : m = k + 1
      OBVIOUS
    <2>2. m \in 1 .. n /\ m - 1 = k /\ k \in 0 .. n
      BY <1>3, <2>1
    <2>3. BufferState(F[k], X, lo, hi, size(k))
      BY <1>10, <2>2
    <2>4. PICK at, buffer : at = size(k) /\ buffer = buffers[m]
      OBVIOUS
    <2>5. /\ at \in Nat /\ buffer \in Seq(Nat) /\ size(m) = at + Len(buffer)
          /\ \A j \in 1 .. Len(buffer) : X[at + j] = buffer[j]
      BY <1>3, <1>6, <2>2, <2>4
    <2>6. BufferState(TakeBuffer(F[k], buffer), X, lo, hi, at + Len(buffer))
      BY <1>2, <2>3, <2>4, <2>5, BufferStep
    <2>7. F[m] = TakeBuffer(F[k], buffer)
      BY <1>8, <2>2, <2>4
    <2> QED
      BY <2>1, <2>5, <2>6, <2>7
  <1>11. \A k \in Nat : k \in T
    <2> HIDE DEF T
    <2> QED
      BY <1>9, <1>10, NatsFrom
  <1>12. Good(n)
    BY <1>3, <1>11
  <1>13. Taken(F[n].out, X, lo, hi, size(n)) /\ size(n) \in Nat /\ hi <= size(n)
    BY <1>2, <1>6, <1>12 DEF BufferState, X
  <1>14. TakenLen(lo, hi, size(n)) = hi - lo
    BY <1>2, <1>13 DEF TakenLen
  <1> QED
    BY <1>1, <1>2, <1>4, <1>13, <1>14 DEF Taken, X

----------------------------------------------------------------------------
(* What chunks hold, and what is read of them.                             *)

Joined(ext, id) == FlattenSeq(ext[id])
UnitAt(ext, chunk, k) == IF chunk.id = ZeroExtentId THEN 0 ELSE Joined(ext, chunk.id)[chunk.offset + k]
UnitsOf(ext, chunk) == [k \in 1 .. chunk.count |-> UnitAt(ext, chunk, k)]

\* The chunk lies within an extent, or is one of zeros.
Stored(ext, chunk) ==
    /\ chunk.id \in Nat /\ chunk.offset \in Nat /\ chunk.count \in Nat
    /\ chunk.id # ZeroExtentId => /\ chunk.id \in 1 .. Len(ext)
                                  /\ chunk.offset + chunk.count <= Len(Joined(ext, chunk.id))

LEMMA StoredUnits ==
    ASSUME NEW ext \in Seq(Seq(Seq(Nat))), NEW chunk, Stored(ext, chunk)
    PROVE  /\ \A k \in 1 .. chunk.count : UnitAt(ext, chunk, k) \in Nat
           /\ UnitsOf(ext, chunk) \in Seq(Nat) /\ Len(UnitsOf(ext, chunk)) = chunk.count
           /\ \A k \in 1 .. chunk.count : UnitsOf(ext, chunk)[k] = UnitAt(ext, chunk, k)
           /\ chunk.id # ZeroExtentId => ext[chunk.id] \in Seq(Seq(Nat)) /\ Joined(ext, chunk.id) \in Seq(Nat)
  <1> DEFINE n == chunk.count
             at(k) == UnitAt(ext, chunk, k)
  <1>1. n \in Nat /\ chunk.offset \in Nat
    BY DEF Stored
  <1>2. ASSUME chunk.id # ZeroExtentId
        PROVE  ext[chunk.id] \in Seq(Seq(Nat)) /\ Joined(ext, chunk.id) \in Seq(Nat)
    <2>1. chunk.id \in 1 .. Len(ext)
      BY <1>2 DEF Stored
    <2>2. ext[chunk.id] \in Seq(Seq(Nat))
      BY <2>1, ElementOfSeq
    <2> QED
      BY <2>2, FlattenType DEF Joined
  <1>3. ASSUME NEW k \in 1 .. n
        PROVE  at(k) \in Nat
    <2>1. CASE chunk.id = ZeroExtentId
      BY <2>1 DEF UnitAt
    <2>2. CASE chunk.id # ZeroExtentId
      <3>1. chunk.offset + n <= Len(Joined(ext, chunk.id)) /\ Joined(ext, chunk.id) \in Seq(Nat)
        BY <1>2, <2>2 DEF Stored
      <3>2. PICK f, i : f = Joined(ext, chunk.id) /\ i = chunk.offset + k
        OBVIOUS
      <3>3. i \in 1 .. Len(f) /\ f \in Seq(Nat)
        BY <1>1, <3>1, <3>2
      <3>4. f[i] \in Nat
        BY <3>3, ElementOfSeq
      <3> QED
        BY <2>2, <3>2, <3>4 DEF UnitAt
    <2> QED
      BY <2>1, <2>2
  <1>4. UnitsOf(ext, chunk) = [k \in 1 .. n |-> at(k)]
    BY DEF UnitsOf
  <1> HIDE DEF n, at
  <1>5. /\ UnitsOf(ext, chunk) \in Seq(Nat) /\ Len(UnitsOf(ext, chunk)) = n
        /\ \A k \in 1 .. n : UnitsOf(ext, chunk)[k] = at(k)
    BY <1>1, <1>3, <1>4
  <1> QED
    BY <1>2, <1>3, <1>5 DEF n, at

LEMMA ReadExtentReads ==
    ASSUME extents \in Seq(Seq(Seq(Nat))), NEW chunk, Stored(extents, chunk)
    PROVE  /\ ReadExtent(chunk) \in Seq(Nat) /\ Len(ReadExtent(chunk)) = chunk.count
           /\ \A k \in 1 .. chunk.count : ReadExtent(chunk)[k] = UnitAt(extents, chunk, k)
  <1> DEFINE n == chunk.count
             r == ReadExtent(chunk)
  <1>1. n \in Nat /\ chunk.offset \in Nat
    BY DEF Stored
  <1>2. CASE n = 0
    <2>1. r = <<>>
      BY <1>2 DEF ReadExtent
    <2> QED
      BY <1>2, <2>1
  <1>3. CASE n # 0 /\ chunk.id = ZeroExtentId
    <2>1. r = [i \in 1 .. n |-> 0]
      BY <1>3 DEF ReadExtent
    <2> HIDE DEF r, n
    <2>2. r \in Seq(Nat) /\ Len(r) = n /\ \A k \in 1 .. n : r[k] = 0
      BY <1>1, <2>1
    <2> QED
      BY <1>3, <2>2 DEF r, n, UnitAt
  <1>4. CASE n # 0 /\ chunk.id # ZeroExtentId
    <2>1. PICK b, f, o : b = extents[chunk.id] /\ f = FlattenSeq(b) /\ o = chunk.offset
      OBVIOUS
    <2>2. b \in Seq(Seq(Nat)) /\ f \in Seq(Nat) /\ o \in Nat /\ o + n <= Len(f)
      BY <1>1, <1>4, <2>1, StoredUnits DEF Stored, Joined
    <2>3. CASE store = "fs"
      <3>1. PICK x, y : x = o + 1 /\ y = o + n
        OBVIOUS
      <3>2. r = SubSeq(f, x, y)
        BY <1>4, <2>1, <2>3, <3>1 DEF ReadExtent, ReadFile
      <3> HIDE DEF r, n
      <3>3. x \in Int /\ y \in Int /\ 1 <= x /\ x <= y /\ y <= Len(f) /\ y - x + 1 = n
        BY <1>1, <1>4, <2>2, <3>1
      <3>4. \A i \in x .. y : f[i] \in Nat
        <4>1. \A i \in x .. y : i \in 1 .. Len(f)
          BY <3>3
        <4> QED
          BY <2>2, <4>1, ElementOfSeq
      <3>5. /\ r \in Seq(Nat) /\ Len(r) = IF x <= y THEN y - x + 1 ELSE 0
            /\ \A i \in 1 .. y - x + 1 : r[i] = f[x + i - 1]
        BY <3>2, <3>3, <3>4, SubSeqProperties
      <3>6. \A k \in 1 .. n : r[k] = f[x + k - 1]
        BY <3>3, <3>5
      <3>7. \A k \in 1 .. n : x + k - 1 = o + k
        BY <1>1, <2>2, <3>1 DEF n
      <3>8. \A k \in 1 .. n : r[k] = UnitAt(extents, chunk, k)
        BY <1>4, <2>1, <3>6, <3>7 DEF UnitAt, Joined
      <3>9. r \in Seq(Nat) /\ Len(r) = n
        BY <3>3, <3>5
      <3> QED
        BY <3>8, <3>9 DEF r, n
    <2>4. CASE store # "fs"
      <3>1. r = ReadBuffers(b, chunk)
        BY <1>4, <2>1, <2>4 DEF ReadExtent
      <3>2. chunk.offset + chunk.count <= Len(FlattenSeq(b))
        BY <2>1, <2>2
      <3> HIDE DEF r
      <3>3. /\ r \in Seq(Nat) /\ Len(r) = chunk.count
            /\ \A k \in 1 .. chunk.count : r[k] = FlattenSeq(b)[chunk.offset + k]
        BY <1>1, <1>4, <2>2, <3>1, <3>2, ReadBuffersReads
      <3> QED
        BY <1>4, <2>1, <3>3 DEF UnitAt, Joined, r
    <2> QED
      BY <2>3, <2>4
  <1> QED
    BY <1>1, <1>2, <1>3, <1>4

ChunkState(state, X, lo, hi, at) ==
    /\ state = [at |-> state.at, out |-> state.out]
    /\ state.at \in Nat /\ (state.at = at \/ (hi <= state.at /\ state.at <= at))
    /\ Taken(state.out, X, lo, hi, at)

\* The chunk is what follows in X.
HoldsAt(X, at, chunk) ==
    /\ Stored(extents, chunk)
    /\ \A j \in 1 .. chunk.count : X[at + j] = UnitAt(extents, chunk, j)

LEMMA ChunkStep ==
    ASSUME extents \in Seq(Seq(Seq(Nat))), NEW state, NEW X, NEW lo \in Nat, NEW hi \in Nat, lo < hi,
           NEW at \in Nat, ChunkState(state, X, lo, hi, at), NEW chunk, HoldsAt(X, at, chunk)
    PROVE  ChunkState(TakeChunk(lo, hi, state, chunk), X, lo, hi, at + chunk.count)
  <1> DEFINE next == TakeChunk(lo, hi, state, chunk)
             out == state.out
             here == state.at
             n == chunk.count
             to == at + n
             from == IF lo > here THEN lo - here ELSE 0
             beyond == IF hi <= here + n THEN (here + n) - hi ELSE 0
             sub == ChunkPart(lo, hi, here, chunk)
             piece == ReadExtent(sub)
  <1>6. next = IF here + n <= lo THEN [state EXCEPT !.at = here + n]
               ELSE IF hi <= here THEN state
               ELSE [at |-> here + n, out |-> out \o piece]
    <2> HIDE DEF piece
    <2>1. piece = ReadExtent(ChunkPart(lo, hi, here, chunk))
      BY DEF piece
    <2> QED
      BY <2>1 DEF TakeChunk
  <1>10. sub = Chunk(chunk.id, chunk.offset + from, n - from - beyond)
    BY DEF ChunkPart
  <1>1. out = state.out /\ here = state.at /\ n = chunk.count /\ to = at + n
    OBVIOUS
  <1>5. /\ from = (IF lo > here THEN lo - here ELSE 0)
        /\ beyond = (IF hi <= here + n THEN (here + n) - hi ELSE 0)
    OBVIOUS
  <1> HIDE DEF out, here, n, to, from, beyond, next, sub, piece
  <1>2. /\ state = [at |-> here, out |-> out]
        /\ here \in Nat /\ (here = at \/ (hi <= here /\ here <= at))
        /\ Taken(out, X, lo, hi, at)
    BY <1>1 DEF ChunkState
  <1>3. Stored(extents, chunk) /\ \A j \in 1 .. n : X[at + j] = UnitAt(extents, chunk, j)
    BY <1>1 DEF HoldsAt
  <1>4. n \in Nat /\ to \in Nat /\ out \in Seq(Nat) /\ Len(out) \in Nat
    BY <1>1, <1>2, <1>3 DEF Stored, Taken
  <1>7. CASE here + n <= lo
    <2>1. next = [at |-> here + n, out |-> out]
      BY <1>2, <1>6, <1>7
    <2>2. here = at
      BY <1>2, <1>4, <1>7
    <2>3. here + n = to /\ TakenLen(lo, hi, to) = TakenLen(lo, hi, at)
      BY <1>1, <1>4, <1>7, <2>2 DEF TakenLen
    <2>4. Taken(out, X, lo, hi, to)
      BY <1>2, <1>4, <2>3, TakenSame
    <2>5. next = [at |-> to, out |-> out]
      BY <2>1, <2>3
    <2>6. ChunkState(next, X, lo, hi, to)
      BY <1>4, <2>4, <2>5 DEF ChunkState
    <2> QED
      BY <1>1, <2>6 DEF next, n, to
  <1>8. CASE ~(here + n <= lo) /\ hi <= here
    <2>1. next = [at |-> here, out |-> out]
      BY <1>2, <1>6, <1>8
    <2>2. here <= at /\ hi <= at /\ at <= to
      BY <1>1, <1>2, <1>4, <1>8
    <2>3. TakenLen(lo, hi, to) = TakenLen(lo, hi, at)
      <3>1. ~(at <= lo) /\ ~(to <= lo) /\ (at <= hi => at - lo = hi - lo) /\ (to <= hi => to - lo = hi - lo)
        BY <1>4, <2>2
      <3> QED
        BY <3>1 DEF TakenLen
    <2>4. Taken(out, X, lo, hi, to)
      BY <1>2, <1>4, <2>3, TakenSame
    <2>5. hi <= here /\ here <= to
      BY <1>2, <1>4, <1>8, <2>2
    <2>6. ChunkState(next, X, lo, hi, to)
      BY <1>2, <2>1, <2>4, <2>5 DEF ChunkState
    <2> QED
      BY <1>1, <2>6 DEF next, n, to
  <1>9. CASE ~(here + n <= lo) /\ ~(hi <= here)
    <2>1. here = at /\ next = [at |-> to, out |-> out \o piece]
      BY <1>1, <1>2, <1>6, <1>9
    <2>2. /\ from \in Nat /\ beyond \in Nat /\ n - from - beyond \in Nat
          /\ from + (n - from - beyond) <= n
      BY <1>2, <1>4, <1>5, <1>9
    <2>3. PICK m : m = n - from - beyond
      OBVIOUS
    <2>4. sub.id = chunk.id /\ sub.offset = chunk.offset + from /\ sub.count = m
      BY <1>10, <2>3 DEF Chunk
    <2>5. Stored(extents, sub)
      <3>1. chunk.id \in Nat /\ chunk.offset \in Nat /\ m \in Nat /\ from + m <= n
        BY <1>3, <2>2, <2>3 DEF Stored
      <3>2. PICK e : e = Len(Joined(extents, chunk.id))
        OBVIOUS
      <3>3. ASSUME chunk.id # ZeroExtentId
            PROVE  chunk.id \in 1 .. Len(extents) /\ chunk.offset + from + m <= e
        <4>1. chunk.id \in 1 .. Len(extents) /\ chunk.offset + n <= e
          BY <1>1, <1>3, <3>2, <3>3 DEF Stored
        <4>2. e \in Nat
          BY <1>3, <3>2, <3>3, StoredUnits
        <4> QED
          BY <1>4, <2>2, <3>1, <4>1, <4>2
      <3> QED
        BY <2>2, <2>4, <3>1, <3>2, <3>3 DEF Stored
    <2>6. /\ piece \in Seq(Nat) /\ Len(piece) = m
          /\ \A k \in 1 .. m : piece[k] = UnitAt(extents, sub, k)
      BY <2>4, <2>5, ReadExtentReads DEF piece
    <2>7. \A k \in 1 .. m : piece[k] = X[at + (from + k)]
      <3> SUFFICES ASSUME NEW k \in 1 .. m
                   PROVE  piece[k] = X[at + (from + k)]
        OBVIOUS
      <3>1. from + k \in 1 .. n
        BY <1>4, <2>2, <2>3
      <3>2. X[at + (from + k)] = UnitAt(extents, chunk, from + k)
        BY <1>3, <3>1
      <3>3. UnitAt(extents, sub, k) = UnitAt(extents, chunk, from + k)
        <4>1. chunk.offset \in Nat
          BY <1>3 DEF Stored
        <4>2. sub.offset + k = chunk.offset + (from + k)
          BY <2>2, <2>3, <2>4, <4>1
        <4> QED
          BY <2>4, <4>2 DEF UnitAt
      <3> QED
        BY <2>6, <3>2, <3>3
    <2>8. Len(out) = TakenLen(lo, hi, at)
      BY <1>2 DEF Taken
    <2>9. lo + Len(out) = at + from
      BY <1>2, <1>4, <1>5, <1>9, <2>1, <2>8 DEF TakenLen
    <2>10. Len(out) + m = TakenLen(lo, hi, to)
      <3>1. CASE lo > at
        <4>1. from = lo - at /\ Len(out) = 0
          BY <1>5, <2>1, <2>8, <3>1 DEF TakenLen
        <4>2. CASE hi <= at + n
          <5>1. m = n - (lo - at) - ((at + n) - hi)
            BY <1>5, <2>1, <2>3, <4>1, <4>2
          <5>2. m = hi - lo /\ TakenLen(lo, hi, to) = hi - lo
            BY <1>1, <1>4, <3>1, <4>2, <5>1, SMTT(30) DEF TakenLen
          <5> QED
            BY <4>1, <5>2
        <4>3. CASE ~(hi <= at + n)
          <5>1. m = n - (lo - at) - 0
            BY <1>5, <2>1, <2>3, <4>1, <4>3
          <5>2. m = to - lo /\ ~(to <= lo) /\ to <= hi
            BY <1>1, <1>4, <1>9, <2>1, <3>1, <4>3, <5>1
          <5> QED
            BY <1>4, <4>1, <5>2 DEF TakenLen
        <4> QED
          BY <4>2, <4>3
      <3>2. CASE ~(lo > at)
        <4>1. from = 0 /\ Len(out) = at - lo
          BY <1>5, <1>9, <2>1, <2>8, <3>2 DEF TakenLen
        <4>2. CASE hi <= at + n
          <5>1. m = n - 0 - ((at + n) - hi)
            BY <1>5, <2>1, <2>3, <4>1, <4>2
          <5>2. m = hi - at /\ to \in Nat /\ hi <= to /\ (to <= hi => to - lo = hi - lo) /\ lo < to
            <6>1. to = at + n /\ n \in Nat
              BY <1>1, <1>4
            <6> QED
              BY <3>2, <4>2, <5>1, <6>1
          <5>3. TakenLen(lo, hi, to) = hi - lo
            BY <5>2 DEF TakenLen
          <5> QED
            BY <4>1, <5>2, <5>3
        <4>3. CASE ~(hi <= at + n)
          <5>1. m = n - 0 - 0
            BY <1>5, <2>1, <2>3, <4>1, <4>3
          <5>2. m = n /\ at - lo + n = to - lo /\ ~(to <= lo) /\ to <= hi
            BY <1>1, <1>4, <1>9, <2>1, <3>2, <4>3, <5>1
          <5> QED
            BY <1>4, <4>1, <5>2 DEF TakenLen
        <4> QED
          BY <4>2, <4>3
      <3> QED
        BY <3>1, <3>2
    <2>11. Follows(out, piece, X, lo, TakenLen(lo, hi, to))
      <3>1. \A k \in 1 .. m : at + (from + k) = lo + Len(out) + k
        <4>1. PICK l : l = Len(out)
          OBVIOUS
        <4>2. l \in Nat /\ lo + l = at + from
          BY <1>4, <2>9, <4>1
        <4>3. \A k \in 1 .. m : at + (from + k) = lo + l + k
          BY <2>2, <2>3, <4>2
        <4> QED
          BY <4>1, <4>3
      <3>2. \A k \in 1 .. Len(piece) : piece[k] = X[lo + Len(out) + k]
        BY <2>6, <2>7, <3>1
      <3> QED
        BY <2>6, <2>10, <3>2 DEF Follows
    <2>12. Taken(out \o piece, X, lo, hi, to)
      BY <1>2, <1>4, <2>11, TakenMore
    <2>13. ChunkState(next, X, lo, hi, to)
      BY <1>4, <2>1, <2>12 DEF ChunkState
    <2> QED
      BY <1>1, <2>13 DEF next, n, to
  <1> QED
    BY <1>7, <1>8, <1>9

----------------------------------------------------------------------------
(* What a list of chunks holds.                                            *)

Pieces(ext, chunks) == [i \in 1 .. Len(chunks) |-> UnitsOf(ext, chunks[i])]
Content(ext, chunks) == FlattenSeq(Pieces(ext, chunks))
AllStored(ext, chunks) == chunks \in Seq(Chunks) /\ \A i \in 1 .. Len(chunks) : Stored(ext, chunks[i])

LEMMA PiecesType ==
    ASSUME NEW ext \in Seq(Seq(Seq(Nat))), NEW chunks, AllStored(ext, chunks)
    PROVE  /\ Pieces(ext, chunks) \in Seq(Seq(Nat)) /\ Len(Pieces(ext, chunks)) = Len(chunks)
           /\ \A i \in 1 .. Len(chunks) : /\ Pieces(ext, chunks)[i] = UnitsOf(ext, chunks[i])
                                          /\ Len(Pieces(ext, chunks)[i]) = chunks[i].count
                                          /\ chunks[i].count \in Nat
           /\ Content(ext, chunks) \in Seq(Nat)
  <1> DEFINE n == Len(chunks)
             W == Pieces(ext, chunks)
  <1>1. n \in Nat /\ \A i \in 1 .. n : Stored(ext, chunks[i])
    BY DEF AllStored
  <1>2. \A i \in 1 .. n : /\ UnitsOf(ext, chunks[i]) \in Seq(Nat)
                          /\ Len(UnitsOf(ext, chunks[i])) = chunks[i].count /\ chunks[i].count \in Nat
    BY <1>1, StoredUnits DEF Stored
  <1>3. W = [i \in 1 .. n |-> UnitsOf(ext, chunks[i])]
    BY DEF Pieces
  <1> HIDE DEF n, W
  <1>4. /\ W \in Seq(Seq(Nat)) /\ Len(W) = n
        /\ \A i \in 1 .. n : W[i] = UnitsOf(ext, chunks[i])
    BY <1>1, <1>2, <1>3
  <1>5. FlattenSeq(W) \in Seq(Nat)
    BY <1>4, FlattenType
  <1> QED
    BY <1>2, <1>4, <1>5 DEF n, W, Content

\* readExtents returns what lies behind the offset in the concatenation.
LEMMA ReadExtentsReads ==
    ASSUME extents \in Seq(Seq(Seq(Nat))), NEW chunks, AllStored(extents, chunks),
           NEW offset \in Nat, NEW count \in Nat \ {0}, offset + count <= Len(Content(extents, chunks))
    PROVE  /\ ReadExtents(chunks, offset, count) \in Seq(Nat)
           /\ Len(ReadExtents(chunks, offset, count)) = count
           /\ \A j \in 1 .. count :
                  ReadExtents(chunks, offset, count)[j] = Content(extents, chunks)[offset + j]
  <1> DEFINE X == Content(extents, chunks)
             W == Pieces(extents, chunks)
             n == Len(chunks)
  <1>1. PICK lo, hi : lo = offset /\ hi = offset + count
    OBVIOUS
  <1>2. lo \in Nat /\ hi \in Nat /\ lo < hi /\ hi - lo = count /\ hi <= Len(X)
    BY <1>1
  <1>3. /\ n \in Nat /\ W \in Seq(Seq(Nat)) /\ Len(W) = n /\ X = FlattenSeq(W) /\ X \in Seq(Nat)
        /\ \A k \in 1 .. n : /\ W[k] = UnitsOf(extents, chunks[k]) /\ Len(W[k]) = chunks[k].count
                             /\ chunks[k].count \in Nat /\ Stored(extents, chunks[k])
    BY PiecesType DEF AllStored, Content
  <1>4. PICK F : /\ Fills(F, [at |-> 0, out |-> <<>>], chunks, <<"chunks", lo, hi>>)
                 /\ ReadExtents(chunks, offset, count) = IF F[n].at < hi THEN Failed ELSE F[n].out
    <2>1. chunks \in Seq(Chunks) /\ count # 0
      BY DEF AllStored
    <2> QED
      BY <1>1, <2>1, ReadExtentsRuns
  <1> HIDE DEF W, X
  <1>5. PICK P : Joins(P, W) /\ P[n] = X
    BY <1>3, FlattenPrefixes
  <1> DEFINE size(k) == Len(P[k])
  <1>6. /\ \A k \in 1 .. n : /\ size(k - 1) \in Nat /\ size(k) = size(k - 1) + chunks[k].count
                             /\ \A j \in 1 .. chunks[k].count : X[size(k - 1) + j] = W[k][j]
        /\ size(0) = 0 /\ size(n) = Len(X)
    <2>1. P[0] = <<>>
      BY <1>5 DEF Joins
    <2>2. \A k \in 1 .. Len(W) :
               /\ Len(P[k - 1]) \in Nat /\ Len(P[k]) = Len(P[k - 1]) + Len(W[k])
               /\ Len(P[k]) <= Len(P[Len(W)])
               /\ \A j \in 1 .. Len(W[k]) : P[Len(W)][Len(P[k - 1]) + j] = W[k][j]
      <3>1. W \in Seq(Seq(Nat)) /\ Joins(P, W)
        BY <1>3, <1>5
      <3> HIDE DEF size, n
      <3>2. Located(P, W)
        BY <3>1, FlattenIndex
      <3> QED
        BY <3>2 DEF Located
    <2>3. size(0) = 0
      BY <2>1
    <2> HIDE DEF size, n
    <2>4. ASSUME NEW k \in 1 .. n
          PROVE  /\ size(k - 1) \in Nat /\ size(k) = size(k - 1) + chunks[k].count
                 /\ \A j \in 1 .. chunks[k].count : X[size(k - 1) + j] = W[k][j]
      <3>1. Len(W) = n /\ Len(W[k]) = chunks[k].count /\ P[n] = X
        BY <1>3, <1>5
      <3>2. /\ size(k - 1) \in Nat /\ size(k) = size(k - 1) + Len(W[k])
            /\ \A j \in 1 .. Len(W[k]) : P[Len(W)][size(k - 1) + j] = W[k][j]
        BY <2>2, <3>1 DEF size
      <3> QED
        BY <3>1, <3>2
    <2>5. size(n) = Len(X)
      BY <1>5 DEF size
    <2> QED
      BY <2>3, <2>4, <2>5
  <1> HIDE DEF n, size
  <1>7. F[0] = [at |-> 0, out |-> <<>>]
    BY <1>4 DEF Fills
  <1>8. \A k \in 1 .. n : F[k] = TakeChunk(lo, hi, F[k - 1], chunks[k])
    BY <1>4 DEF Fills, AddOne, n
  <1> DEFINE Good(k) == ChunkState(F[k], X, lo, hi, size(k))
             T == {k \in Nat : k \in 0 .. n => Good(k)}
  <1>9. 0 \in T
    <2>1. Taken(<<>>, X, lo, hi, 0)
      BY <1>2 DEF Taken, TakenLen
    <2> QED
      BY <1>6, <1>7, <2>1 DEF ChunkState
  <1>10. ASSUME NEW k \in Nat, k \in T
         PROVE  k + 1 \in T
    <2> SUFFICES ASSUME k + 1 \in 0 .. n
                 PROVE  Good(k + 1)
      OBVIOUS
    <2>1. PICK m : m = k + 1
      OBVIOUS
    <2>2. m \in 1 .. n /\ m - 1 = k /\ k \in 0 .. n
      BY <1>3, <2>1
    <2>3. ChunkState(F[k], X, lo, hi, size(k))
      BY <1>10, <2>2
    <2>4. PICK at, chunk : at = size(k) /\ chunk = chunks[m]
      OBVIOUS
    <2>5. /\ at \in Nat /\ Stored(extents, chunk) /\ size(m) = at + chunk.count
          /\ \A j \in 1 .. chunk.count : X[at + j] = UnitsOf(extents, chunk)[j]
      BY <1>3, <1>6, <2>2, <2>4, SMTT(30)
    <2>6. HoldsAt(X, at, chunk)
      BY <2>5, StoredUnits DEF HoldsAt
    <2>7. ChunkState(TakeChunk(lo, hi, F[k], chunk), X, lo, hi, at + chunk.count)
      BY <1>2, <2>3, <2>4, <2>5, <2>6, ChunkStep
    <2>8. F[m] = TakeChunk(lo, hi, F[k], chunk)
      BY <1>8, <2>2, <2>4
    <2> QED
      BY <2>1, <2>5, <2>7, <2>8
  <1>11. \A k \in Nat : k \in T
    <2> HIDE DEF T
    <2> QED
      BY <1>9, <1>10, NatsFrom
  <1>12. Good(n)
    BY <1>3, <1>11
  <1>13. /\ Taken(F[n].out, X, lo, hi, size(n)) /\ size(n) \in Nat /\ hi <= size(n)
         /\ F[n].at \in Nat /\ hi <= F[n].at
    BY <1>2, <1>3, <1>6, <1>12 DEF ChunkState
  <1>14. TakenLen(lo, hi, size(n)) = hi - lo
    BY <1>2, <1>13 DEF TakenLen
  <1>15. ReadExtents(chunks, offset, count) = F[n].out
    BY <1>2, <1>4, <1>13
  <1> QED
    BY <1>1, <1>2, <1>13, <1>14, <1>15 DEF Taken, X

\* The length of a block list is the sum of its counts.
LEMMA TotalIsLength ==
    ASSUME NEW ext \in Seq(Seq(Seq(Nat))), NEW chunks, AllStored(ext, chunks)
    PROVE  Total(chunks) = Len(Content(ext, chunks))
  <1> DEFINE W == Pieces(ext, chunks)
             n == Len(chunks)
  <1>1. /\ n \in Nat /\ W \in Seq(Seq(Nat)) /\ Len(W) = n /\ Content(ext, chunks) = FlattenSeq(W)
        /\ \A k \in 1 .. n : Len(W[k]) = chunks[k].count
    BY PiecesType DEF AllStored, Content
  <1>2. chunks \in Seq(Chunks)
    BY DEF AllStored
  <1> HIDE DEF W
  <1>3. PICK F : Fills(F, 0, chunks, <<"count">>) /\ Total(chunks) = F[n]
    BY <1>2, TotalRuns
  <1>4. PICK P : Joins(P, W) /\ P[n] = FlattenSeq(W)
    BY <1>1, FlattenPrefixes
  <1> DEFINE size(k) == Len(P[k])
  <1>5. /\ \A k \in 1 .. n : size(k) = size(k - 1) + chunks[k].count
        /\ size(0) = 0
    <2>1. P[0] = <<>>
      BY <1>4 DEF Joins
    <2>4. Located(P, W)
      BY <1>1, <1>4, FlattenIndex
    <2>2. \A k \in 1 .. Len(W) : Len(P[k]) = Len(P[k - 1]) + Len(W[k])
      BY <2>4 DEF Located
    <2>3. size(0) = 0
      BY <2>1
    <2> QED
      BY <1>1, <2>2, <2>3
  <1> HIDE DEF size, n
  <1>6. F[0] = 0 /\ \A k \in 1 .. n : F[k] = F[k - 1] + chunks[k].count
    BY <1>3 DEF Fills, AddOne, n
  <1> DEFINE T == {k \in Nat : k \in 0 .. n => F[k] = size(k)}
  <1>7. 0 \in T
    BY <1>5, <1>6
  <1>8. ASSUME NEW k \in Nat, k \in T
        PROVE  k + 1 \in T
    <2> SUFFICES ASSUME k + 1 \in 0 .. n
                 PROVE  F[k + 1] = size(k + 1)
      OBVIOUS
    <2>1. k + 1 \in 1 .. n /\ (k + 1) - 1 = k /\ k \in 0 .. n
      BY <1>1
    <2> QED
      BY <1>5, <1>6, <1>8, <2>1
  <1>9. \A k \in Nat : k \in T
    <2> HIDE DEF T
    <2> QED
      BY <1>7, <1>8, NatsFrom
  <1>10. F[n] = size(n)
    BY <1>1, <1>9
  <1> QED
    BY <1>1, <1>3, <1>4, <1>10 DEF size

\* One chunk more.
LEMMA ContentAppend ==
    ASSUME NEW ext \in Seq(Seq(Seq(Nat))), NEW chunks, AllStored(ext, chunks),
           NEW chunk \in Chunks, Stored(ext, chunk)
    PROVE  /\ AllStored(ext, Append(chunks, chunk))
           /\ Content(ext, Append(chunks, chunk)) = Content(ext, chunks) \o UnitsOf(ext, chunk)
  <1> DEFINE more == Append(chunks, chunk)
             n == Len(chunks)
             last == UnitsOf(ext, chunk)
  <1>1. /\ n \in Nat /\ more \in Seq(Chunks) /\ Len(more) = n + 1
        /\ \A k \in 1 .. n : more[k] = chunks[k]
        /\ more[n + 1] = chunk
    BY DEF AllStored
  <1> HIDE DEF more, n, last
  <1>2. AllStored(ext, more)
    <2>1. \A k \in 1 .. n : Stored(ext, chunks[k])
      BY DEF AllStored, n
    <2>2. \A k \in 1 .. n + 1 : k \in 1 .. n \/ k = n + 1
      BY <1>1
    <2>3. \A k \in 1 .. n + 1 : Stored(ext, more[k])
      BY <1>1, <2>1, <2>2
    <2> QED
      BY <1>1, <2>3 DEF AllStored
  <1>3. last \in Seq(Nat)
    BY StoredUnits DEF last
  <1>4. PICK A, B : A = Pieces(ext, more) /\ B = Append(Pieces(ext, chunks), last)
    OBVIOUS
  <1>5. A = B
    <2>1. PICK C : C = Pieces(ext, chunks)
      OBVIOUS
    <2>2. C \in Seq(Seq(Nat)) /\ Len(C) = n /\ \A i \in 1 .. n : C[i] = UnitsOf(ext, chunks[i])
      BY <2>1, PiecesType DEF n
    <2>3. /\ B \in Seq(Seq(Nat)) /\ Len(B) = n + 1
          /\ \A i \in 1 .. n : B[i] = C[i]
          /\ B[n + 1] = last
      BY <1>3, <1>4, <2>1, <2>2
    <2>4. /\ A \in Seq(Seq(Nat)) /\ Len(A) = n + 1
          /\ \A i \in 1 .. n + 1 : A[i] = UnitsOf(ext, more[i])
      <3>1. /\ A \in Seq(Seq(Nat)) /\ Len(A) = Len(more)
            /\ \A i \in 1 .. Len(more) : A[i] = UnitsOf(ext, more[i])
        BY <1>2, <1>4, PiecesType
      <3>2. Len(more) = n + 1
        BY <1>1
      <3> QED
        BY <3>1, <3>2
    <2>5. \A i \in 1 .. n + 1 : i \in 1 .. n \/ i = n + 1
      BY <1>1
    <2>6. \A i \in 1 .. n + 1 : A[i] = B[i]
      <3> SUFFICES ASSUME NEW i \in 1 .. n + 1
                   PROVE  A[i] = B[i]
        OBVIOUS
      <3>1. CASE i \in 1 .. n
        BY <1>1, <2>2, <2>3, <2>4, <3>1
      <3>2. CASE i = n + 1
        BY <1>1, <2>3, <2>4, <3>2 DEF last
      <3> QED
        BY <2>5, <3>1, <3>2
    <2> QED
      BY <2>3, <2>4, <2>6, SeqEqual
  <1>6. Content(ext, more) = FlattenSeq(Pieces(ext, chunks)) \o last
    BY <1>3, <1>4, <1>5, PiecesType, FlattenAppend DEF Content
  <1> QED
    BY <1>2, <1>6 DEF more, last, Content

----------------------------------------------------------------------------
(* Extents grow, and what a chunk holds stays.                             *)

\* Every extent of e begins the extent of f that has its id.
Grows(e, f) ==
    /\ Len(e) <= Len(f)
    /\ \A i \in 1 .. Len(e) : /\ Len(Joined(e, i)) <= Len(Joined(f, i))
                              /\ \A k \in 1 .. Len(Joined(e, i)) : Joined(f, i)[k] = Joined(e, i)[k]

LEMMA ExtentTypes ==
    ASSUME NEW e \in Seq(Seq(Seq(Nat)))
    PROVE  /\ Len(e) \in Nat
           /\ \A i \in 1 .. Len(e) : e[i] \in Seq(Seq(Nat)) /\ Joined(e, i) \in Seq(Nat) /\ Len(Joined(e, i)) \in Nat
  <1>1. Len(e) \in Nat
    OBVIOUS
  <1>2. ASSUME NEW i \in 1 .. Len(e)
        PROVE  e[i] \in Seq(Seq(Nat)) /\ Joined(e, i) \in Seq(Nat) /\ Len(Joined(e, i)) \in Nat
    <2>1. e[i] \in Seq(Seq(Nat))
      BY ElementOfSeq
    <2>2. Joined(e, i) \in Seq(Nat)
      BY <2>1, FlattenType DEF Joined
    <2>3. \A s \in Seq(Nat) : Len(s) \in Nat
      OBVIOUS
    <2> QED
      BY <2>1, <2>2, <2>3
  <1> QED
    BY <1>1, <1>2

LEMMA ConcatParts ==
    ASSUME NEW x \in Seq(Nat), NEW y \in Seq(Nat)
    PROVE  /\ x \o y \in Seq(Nat) /\ Len(x) \in Nat /\ Len(y) \in Nat /\ Len(x \o y) = Len(x) + Len(y)
           /\ \A k \in 1 .. Len(x) : (x \o y)[k] = x[k]
           /\ \A k \in 1 .. Len(y) : (x \o y)[Len(x) + k] = y[k]
  <1>1. Len(x) \in Nat /\ Len(y) \in Nat
    OBVIOUS
  <1>2. /\ x \o y \in Seq(Nat) /\ Len(x \o y) = Len(x) + Len(y)
        /\ \A i \in 1 .. Len(x) + Len(y) : (x \o y)[i] = IF i <= Len(x) THEN x[i] ELSE y[i - Len(x)]
    BY ConcatProperties
  <1>3. \A k \in 1 .. Len(x) : (x \o y)[k] = x[k]
    BY <1>1, <1>2
  <1>4. ASSUME NEW k \in 1 .. Len(y)
        PROVE  (x \o y)[Len(x) + k] = y[k]
    <2>1. Len(x) + k \in 1 .. Len(x) + Len(y) /\ ~(Len(x) + k <= Len(x)) /\ (Len(x) + k) - Len(x) = k
      BY <1>1
    <2> QED
      BY <1>2, <2>1
  <1> QED
    BY <1>1, <1>2, <1>3, <1>4

\* The two parts of a sequence.
LEMMA SplitSeq ==
    ASSUME NEW s \in Seq(Nat), NEW k \in 1 .. Len(s) - 1
    PROVE  /\ SubSeq(s, 1, k) \in Seq(Nat) /\ SubSeq(s, k + 1, Len(s)) \in Seq(Nat)
           /\ SubSeq(s, 1, k) \o SubSeq(s, k + 1, Len(s)) = s
  <1>1. PICK n, x, y : n = Len(s) /\ x = SubSeq(s, 1, k) /\ y = SubSeq(s, k + 1, Len(s))
    OBVIOUS
  <1>2. n \in Nat /\ k \in 1 .. n - 1
    BY <1>1
  <1>3. /\ x \in Seq(Nat) /\ Len(x) = k /\ \A i \in 1 .. k : x[i] = s[i]
    <2>1. 1 \in Int /\ k \in Int /\ 1 <= k /\ k - 1 + 1 = k /\ \A i \in 1 .. k : s[i] \in Nat
      BY <1>1, <1>2
    <2>2. /\ x \in Seq(Nat) /\ Len(x) = (IF 1 <= k THEN k - 1 + 1 ELSE 0)
          /\ \A i \in 1 .. k - 1 + 1 : x[i] = s[1 + i - 1]
      BY <1>1, <2>1, SubSeqProperties
    <2>3. \A i \in 1 .. k : i \in 1 .. k - 1 + 1 /\ 1 + i - 1 = i
      BY <1>2
    <2> QED
      BY <2>1, <2>2, <2>3
  <1>4. /\ y \in Seq(Nat) /\ Len(y) = n - k /\ \A i \in 1 .. n - k : y[i] = s[k + i]
    <2>1. PICK l : l = k + 1
      OBVIOUS
    <2>2. /\ l \in Int /\ n \in Int /\ l <= n /\ n - l + 1 = n - k
          /\ \A i \in l .. n : i \in 1 .. n
      BY <1>2, <2>1
    <2>3. \A i \in l .. n : s[i] \in Nat
      BY <1>1, <2>2
    <2>4. /\ y \in Seq(Nat) /\ Len(y) = (IF l <= n THEN n - l + 1 ELSE 0)
          /\ \A i \in 1 .. n - l + 1 : y[i] = s[l + i - 1]
      BY <1>1, <2>1, <2>2, <2>3, SubSeqProperties
    <2>5. \A i \in 1 .. n - k : i \in 1 .. n - l + 1 /\ l + i - 1 = k + i
      BY <1>2, <2>1
    <2> QED
      BY <2>2, <2>4, <2>5
  <1>5. x \o y \in Seq(Nat) /\ Len(x \o y) = n
    <2>1. Len(x \o y) = k + (n - k) /\ x \o y \in Seq(Nat)
      BY <1>3, <1>4, ConcatParts
    <2> QED
      BY <1>2, <2>1
  <1>6. ASSUME NEW i \in 1 .. n
        PROVE  (x \o y)[i] = s[i]
    <2>1. CASE i <= k
      <3>1. i \in 1 .. k
        BY <1>2, <2>1
      <3>2. (x \o y)[i] = x[i]
        BY <1>3, <1>4, <3>1, ConcatParts
      <3> QED
        BY <1>3, <3>1, <3>2
    <2>2. CASE ~(i <= k)
      <3>1. PICK j : j = i - k
        OBVIOUS
      <3>2. j \in 1 .. n - k /\ k + j = i
        BY <1>2, <2>2, <3>1
      <3>3. (x \o y)[k + j] = y[j]
        <4>1. x \in Seq(Nat) /\ y \in Seq(Nat) /\ Len(x) = k /\ Len(y) = n - k
          BY <1>3, <1>4
        <4>2. \A m \in 1 .. Len(y) : (x \o y)[Len(x) + m] = y[m]
          BY <4>1, ConcatParts
        <4> QED
          BY <3>2, <4>1, <4>2
      <3> QED
        BY <1>4, <3>2, <3>3
    <2> QED
      BY <2>1, <2>2
  <1>7. x \o y = s
    BY <1>1, <1>5, <1>6, SeqEqual
  <1> QED
    BY <1>1, <1>3, <1>4, <1>7

LEMMA GrowsKeeps ==
    ASSUME NEW e \in Seq(Seq(Seq(Nat))), NEW f \in Seq(Seq(Seq(Nat))), Grows(e, f),
           NEW chunk, Stored(e, chunk)
    PROVE  Stored(f, chunk) /\ UnitsOf(f, chunk) = UnitsOf(e, chunk)
  <1>1. chunk.id \in Nat /\ chunk.offset \in Nat /\ chunk.count \in Nat
    BY DEF Stored
  <1>2. CASE chunk.id = ZeroExtentId
    BY <1>1, <1>2 DEF Stored, UnitsOf, UnitAt
  <1>3. CASE chunk.id # ZeroExtentId
    <2>1. PICK i, o, n : i = chunk.id /\ o = chunk.offset /\ n = chunk.count
      OBVIOUS
    <2>2. PICK x, y : x = Joined(e, i) /\ y = Joined(f, i)
      OBVIOUS
    <2>3. i \in 1 .. Len(e) /\ o + n <= Len(x) /\ o \in Nat /\ n \in Nat
      BY <1>1, <1>3, <2>1, <2>2 DEF Stored
    <2>4. /\ Len(x) \in Nat /\ Len(e) \in Nat /\ Len(f) \in Nat /\ Len(e) <= Len(f)
          /\ Len(x) <= Len(y) /\ \A k \in 1 .. Len(x) : y[k] = x[k]
      BY <2>2, <2>3, ExtentTypes DEF Grows
    <2>5. i \in 1 .. Len(f)
      BY <2>3, <2>4
    <2>6. Len(y) \in Nat
      BY <2>2, <2>5, ExtentTypes
    <2>7. o + n <= Len(y) /\ \A k \in 1 .. n : o + k \in 1 .. Len(x)
      BY <2>3, <2>4, <2>6
    <2>8. \A k \in 1 .. n : y[o + k] = x[o + k]
      BY <2>4, <2>7
    <2>9. \A k \in 1 .. n : UnitAt(f, chunk, k) = UnitAt(e, chunk, k)
      BY <1>3, <2>1, <2>2, <2>8 DEF UnitAt
    <2>10. UnitsOf(f, chunk) = UnitsOf(e, chunk)
      BY <2>1, <2>9, Zenon DEF UnitsOf
    <2> QED
      BY <1>1, <2>1, <2>2, <2>5, <2>7, <2>10 DEF Stored
  <1> QED
    BY <1>2, <1>3

LEMMA GrowsKeepsAll ==
    ASSUME NEW e \in Seq(Seq(Seq(Nat))), NEW f \in Seq(Seq(Seq(Nat))), Grows(e, f),
           NEW chunks, AllStored(e, chunks)
    PROVE  AllStored(f, chunks) /\ Content(f, chunks) = Content(e, chunks)
  <1>1. \A i \in 1 .. Len(chunks) : Stored(e, chunks[i])
    BY DEF AllStored
  <1>2. \A i \in 1 .. Len(chunks) : Stored(f, chunks[i]) /\ UnitsOf(f, chunks[i]) = UnitsOf(e, chunks[i])
    BY <1>1, GrowsKeeps
  <1>3. AllStored(f, chunks)
    BY <1>2 DEF AllStored
  <1>4. Pieces(f, chunks) = Pieces(e, chunks)
    BY <1>2, Zenon DEF Pieces
  <1> QED
    BY <1>3, <1>4 DEF Content

LEMMA GrowsSelf ==
    ASSUME NEW e \in Seq(Seq(Seq(Nat)))
    PROVE  Grows(e, e)
  BY ExtentTypes DEF Grows

\* A file has one extent, and Sent is its length.
LEMMA FileLength ==
    ASSUME extents \in Seq(Seq(Seq(Nat))), Len(extents) <= 1
    PROVE  \/ extents = <<>> /\ Sent = 0
           \/ Len(extents) = 1 /\ Sent = Len(Joined(extents, 1))
  <1>1. Len(extents) = 0 \/ Len(extents) = 1
    <2>1. PICK l : l = Len(extents)
      OBVIOUS
    <2>2. l \in Nat /\ l <= 1
      BY <2>1
    <2> QED
      BY <2>1, <2>2
  <1>2. CASE Len(extents) = 0
    <2>1. extents = <<>>
      BY <1>2
    <2>2. FlattenSeq(<<>>) = <<>>
      BY DEF FlattenSeq
    <2>3. FlattenSeq(FlattenSeq(extents)) = <<>>
      BY <2>1, <2>2
    <2> QED
      BY <2>1, <2>3 DEF Sent
  <1>3. CASE Len(extents) = 1
    <2> DEFINE x == extents[1]
    <2>1. x \in Seq(Seq(Nat))
      BY <1>3, ExtentTypes
    <2>2. extents = <<x>>
      BY <1>3
    <2> HIDE DEF x
    <2>3. FlattenSeq(<<x>>) = x
      <3> DEFINE U == Seq(Nat)
      <3>1. x \in Seq(U)
        BY <2>1
      <3> HIDE DEF U
      <3> QED
        BY <3>1, FlattenFew
    <2>4. FlattenSeq(extents) = x
      BY <2>2, <2>3
    <2> QED
      BY <1>3, <2>4 DEF Sent, Joined, x
  <1> QED
    BY <1>1, <1>2, <1>3

\* What a store does with a payload: the extents grow, and the new chunk
\* holds it.
LEMMA AppendExtentStores ==
    ASSUME extents \in Seq(Seq(Seq(Nat))), store = "fs" => Len(extents) <= 1,
           NEW n \in Nat \ {0}, AppendExtent(n)
    PROVE  /\ extents' \in Seq(Seq(Seq(Nat))) /\ Grows(extents, extents')
           /\ store = "fs" => Len(extents') <= 1
           /\ NewChunk(n) \in Chunks /\ NewChunk(n).count = n
           /\ Stored(extents', NewChunk(n)) /\ UnitsOf(extents', NewChunk(n)) = Payload(n)
  <1> DEFINE units == Payload(n)
             chunk == NewChunk(n)
  <1>1. /\ units \in Seq(Nat) /\ Len(units) = n
        /\ extents' \in Seq(Seq(Seq(Nat))) /\ chunk \in Chunks /\ Sent \in Nat
    BY PayloadFacts, AppendKeepsExtents, NewChunkType, SentIsNat
  <1>2. units = [k \in 1 .. n |-> units[k]]
    BY DEF Payload
  <1>3. store = "fs" \/ store = "memory"
    BY DEF AppendExtent
  <1>4. chunk.count = n /\ chunk = IF store = "fs" THEN Chunk(1, Sent, n) ELSE Chunk(Len(extents) + 1, 0, n)
    BY DEF NewChunk, Chunk
  <1> HIDE DEF units, chunk
  \* The chunk holds the payload if the extent it names has it at its offset.
  <1>5. ASSUME NEW i \in 1 .. Len(extents'), NEW o \in Nat, chunk.id = i, chunk.offset = o,
               o + n <= Len(Joined(extents', i)),
               \A k \in 1 .. n : Joined(extents', i)[o + k] = units[k]
        PROVE  Stored(extents', chunk) /\ UnitsOf(extents', chunk) = units
    <2>1. i \in Nat /\ i # ZeroExtentId /\ n \in Nat
      BY <1>1, ExtentTypes DEF ZeroExtentId
    <2>2. \A k \in 1 .. n : UnitAt(extents', chunk, k) = units[k]
      BY <1>5, <2>1 DEF UnitAt
    <2>3. UnitsOf(extents', chunk) = [k \in 1 .. n |-> units[k]]
      BY <1>4, <2>2, Zenon DEF UnitsOf
    <2> QED
      BY <1>2, <1>4, <1>5, <2>1, <2>3 DEF Stored
  <1>6. CASE store = "fs"
    <2> DEFINE buffers == IF extents = <<>> THEN <<>> ELSE extents[1]
               flat == FlattenSeq(buffers)
    <2>1. extents' = <<Append(buffers, units)>>
      BY <1>6 DEF AppendExtent, units
    <2>2. /\ buffers \in Seq(Seq(Nat)) /\ Sent = Len(flat)
          /\ extents # <<>> => Len(extents) = 1 /\ buffers = extents[1]
      <3>1. CASE extents = <<>> /\ Sent = 0
        <4>1. FlattenSeq(<<>>) = <<>>
          BY DEF FlattenSeq
        <4>2. buffers = <<>> /\ <<>> \in Seq(Seq(Nat))
          BY <3>1, EmptySeq
        <4> QED
          BY <3>1, <4>1, <4>2
      <3>2. CASE Len(extents) = 1 /\ Sent = Len(Joined(extents, 1))
        <4>1. extents # <<>> /\ extents[1] \in Seq(Seq(Nat))
          <5>1. 1 \in 1 .. Len(extents)
            BY <3>2
          <5>2. extents[1] \in Seq(Seq(Nat))
            BY <5>1, ElementOfSeq
          <5>3. extents # <<>>
            BY <3>2
          <5> QED
            BY <5>2, <5>3
        <4>2. buffers = extents[1]
          BY <4>1
        <4> QED
          BY <3>2, <4>1, <4>2 DEF Joined
      <3> QED
        BY <1>6, <3>1, <3>2, FileLength
    <2> HIDE DEF buffers
    <2>3. FlattenSeq(Append(buffers, units)) = flat \o units /\ flat \in Seq(Nat)
      BY <1>1, <2>2, FlattenAppend, FlattenType
    <2>4. Len(extents') = 1 /\ Joined(extents', 1) = flat \o units
      BY <2>1, <2>3 DEF Joined
    <2> HIDE DEF flat
    <2>5. /\ Len(flat \o units) = Len(flat) + n /\ Len(flat) \in Nat
          /\ \A k \in 1 .. Len(flat) : (flat \o units)[k] = flat[k]
          /\ \A k \in 1 .. n : (flat \o units)[Len(flat) + k] = units[k]
      BY <1>1, <2>3, ConcatParts
    <2>6. chunk.id = 1 /\ chunk.offset = Len(flat)
      BY <1>4, <1>6, <2>2 DEF Chunk, flat
    <2>7. Stored(extents', chunk) /\ UnitsOf(extents', chunk) = units
      <3>1. PICK o : o = Len(flat)
        OBVIOUS
      <3>2. 1 \in 1 .. Len(extents') /\ o \in Nat /\ chunk.id = 1 /\ chunk.offset = o
        BY <2>4, <2>5, <2>6, <3>1
      <3>3. o + n <= Len(Joined(extents', 1)) /\ \A k \in 1 .. n : Joined(extents', 1)[o + k] = units[k]
        BY <2>4, <2>5, <3>1
      <3> QED
        BY <1>5, <3>2, <3>3
    <2>8. Grows(extents, extents')
      <3>1. CASE extents = <<>>
        BY <2>4, <3>1 DEF Grows
      <3>2. CASE extents # <<>>
        <4>1. Len(extents) = 1 /\ Joined(extents, 1) = flat
          BY <2>2, <3>2 DEF Joined, flat
        <4>2. \A i \in 1 .. Len(extents) : i = 1
          BY <4>1
        <4> QED
          BY <2>4, <2>5, <4>1, <4>2 DEF Grows
      <3> QED
        BY <3>1, <3>2
    <2> QED
      BY <1>1, <1>4, <2>4, <2>7, <2>8 DEF units, chunk
  <1>7. CASE store = "memory"
    <2>1. PICK b \in Deliveries(units) : extents' = Append(extents, b)
      BY <1>7 DEF AppendExtent, units
    <2>2. b \in Seq(Seq(Nat)) /\ FlattenSeq(b) = units
      <3>1. CASE b = <<units>>
        <4>1. FlattenSeq(<<units>>) = units
          BY <1>1, FlattenFew
        <4> QED
          BY <1>1, <3>1, <4>1
      <3>2. ASSUME NEW k \in 1 .. Len(units) - 1,
                   b = <<SubSeq(units, 1, k), SubSeq(units, k + 1, Len(units))>>
            PROVE  b \in Seq(Seq(Nat)) /\ FlattenSeq(b) = units
        <4>1. PICK x, y : x = SubSeq(units, 1, k) /\ y = SubSeq(units, k + 1, Len(units))
          OBVIOUS
        <4>2. x \in Seq(Nat) /\ y \in Seq(Nat) /\ x \o y = units
          BY <1>1, <4>1, SplitSeq
        <4>3. b = <<x, y>>
          BY <3>2, <4>1
        <4>4. <<x, y>> \in Seq(Seq(Nat))
          BY <4>2
        <4>6. FlattenSeq(<<x, y>>) = x \o y
          BY <4>2, FlattenFew
        <4> QED
          BY <4>2, <4>3, <4>4, <4>6
      <3> QED
        BY <3>1, <3>2 DEF Deliveries
    <2> DEFINE m == Len(extents)
    <2>3. m \in Nat /\ \A i \in 1 .. m : Len(Joined(extents, i)) \in Nat
      BY ExtentTypes
    <2>4. /\ Len(extents') = m + 1 /\ extents'[m + 1] = b
          /\ \A i \in 1 .. m : extents'[i] = extents[i]
      BY <2>1, <2>2
    <2>5. chunk.id = m + 1 /\ chunk.offset = 0
      BY <1>4, <1>7 DEF Chunk
    <2> HIDE DEF m
    <2>6. Joined(extents', m + 1) = units /\ \A i \in 1 .. m : Joined(extents', i) = Joined(extents, i)
      BY <2>2, <2>4 DEF Joined
    <2>7. Stored(extents', chunk) /\ UnitsOf(extents', chunk) = units
      <3>1. m + 1 \in 1 .. Len(extents') /\ 0 \in Nat /\ 0 + n <= n /\ \A k \in 1 .. n : 0 + k = k
        BY <2>3, <2>4
      <3> QED
        BY <1>1, <1>5, <2>5, <2>6, <3>1
    <2>8. Grows(extents, extents')
      <3>1. m <= m + 1
        BY <2>3
      <3> QED
        BY <2>3, <2>4, <2>6, <3>1 DEF Grows, m
    <2> QED
      BY <1>1, <1>4, <1>7, <2>7, <2>8 DEF units, chunk
  <1> QED
    BY <1>3, <1>6, <1>7

----------------------------------------------------------------------------
(* What ranges hold.                                                       *)

\* The chunk of a range has the content of its positions.
RangeHeld(ext, r, content) ==
    /\ Stored(ext, r.persistency) /\ Wide(r)
    /\ \A p \in r.start .. r.end : UnitAt(ext, r.persistency, p - r.start + 1) = content[p]
RangesHeld(ext, ranges, content) == \A i \in 1 .. Len(ranges) : RangeHeld(ext, ranges[i], content)

LEMMA PieceHeld ==
    ASSUME NEW ext, NEW content, NEW r \in Ranges, NEW q \in Ranges, r.start <= r.end,
           PieceOf(r, q), RangeHeld(ext, q, content)
    PROVE  RangeHeld(ext, r, content)
  <1>1. PICK rs, re, qs, qe, c, d : /\ rs = r.start /\ re = r.end /\ qs = q.start /\ qe = q.end
                                    /\ c = r.persistency /\ d = q.persistency
    OBVIOUS
  <1>2. /\ rs \in Int /\ re \in Int /\ qs \in Int /\ qe \in Int /\ c \in Chunks /\ d \in Chunks
        /\ qs <= rs /\ rs <= re /\ re <= qe
        /\ c.id = d.id /\ c.offset = d.offset + (rs - qs)
    BY <1>1 DEF PieceOf, Ranges
  <1>3. Wide(r) /\ c.count = re - rs + 1 /\ d.count = qe - qs + 1
    BY <1>1 DEF PieceOf, RangeHeld, Wide
  <1>4. d.id \in Nat /\ d.offset \in Nat /\ d.count \in Nat
    BY <1>1 DEF RangeHeld, Stored
  <1>5. PICK o, u, e : o = c.offset /\ u = d.offset /\ e = Len(Joined(ext, d.id))
    OBVIOUS
  <1>6. o \in Nat /\ u \in Nat /\ o = u + (rs - qs) /\ c.count \in Nat
    BY <1>2, <1>3, <1>4, <1>5
  <1>7. Stored(ext, c)
    <2>1. ASSUME d.id # ZeroExtentId
          PROVE  d.id \in 1 .. Len(ext) /\ o + c.count <= e
      <3>1. d.id \in 1 .. Len(ext) /\ u + d.count <= e
        BY <1>1, <1>5, <2>1 DEF RangeHeld, Stored
      <3>2. o + c.count <= u + d.count
        BY <1>2, <1>3, <1>6
      <3>3. e \in Int \/ e \notin Int
        OBVIOUS
      <3> QED
        BY <1>2, <1>3, <1>6, <3>1, <3>2, <1>4, <1>5
    <2> QED
      BY <1>2, <1>4, <1>5, <1>6, <2>1 DEF Stored
  <1>8. ASSUME NEW p \in rs .. re
        PROVE  UnitAt(ext, c, p - rs + 1) = content[p]
    <2>1. p \in qs .. qe
      BY <1>2
    <2>2. UnitAt(ext, d, p - qs + 1) = content[p]
      BY <1>1, <2>1 DEF RangeHeld
    <2>3. o + (p - rs + 1) = u + (p - qs + 1)
      BY <1>2, <1>6
    <2> QED
      BY <1>2, <1>5, <2>2, <2>3 DEF UnitAt
  <1> QED
    BY <1>1, <1>3, <1>7, <1>8 DEF RangeHeld

LEMMA PiecesHeld ==
    ASSUME NEW ext, NEW content, NEW lo \in Int, NEW hi \in Int, NEW P, Tidy(P, lo, hi),
           NEW R \in Seq(Ranges), PiecesOf(P, R), RangesHeld(ext, R, content)
    PROVE  RangesHeld(ext, P, content)
  <1> SUFFICES ASSUME NEW i \in 1 .. Len(P)
               PROVE  RangeHeld(ext, P[i], content)
    BY DEF RangesHeld
  <1>1. PICK k \in 1 .. Len(R) : PieceOf(P[i], R[k])
    BY DEF PiecesOf
  <1>2. R[k] \in Ranges /\ RangeHeld(ext, R[k], content)
    BY ElementOfSeq DEF RangesHeld
  <1>3. P[i] \in Ranges /\ P[i].start <= P[i].end
    BY TidyRange
  <1> QED
    BY <1>1, <1>2, <1>3, PieceHeld

\* Only the covered positions matter.
LEMMA HeldElsewhere ==
    ASSUME NEW ext, NEW before, NEW after, NEW lo \in Int, NEW hi \in Int, NEW R, Tidy(R, lo, hi),
           RangesHeld(ext, R, before), \A p \in lo .. hi : InCover(R, p) => after[p] = before[p]
    PROVE  RangesHeld(ext, R, after)
  <1> SUFFICES ASSUME NEW i \in 1 .. Len(R)
               PROVE  RangeHeld(ext, R[i], after)
    BY DEF RangesHeld
  <1>1. PICK r : r = R[i]
    OBVIOUS
  <1>2. RangeHeld(ext, r, before)
    BY <1>1 DEF RangesHeld
  <1>3. /\ r.start \in Int /\ r.end \in Int /\ lo <= r.start /\ r.end <= hi
    BY <1>1, TidyRange
  <1>4. ASSUME NEW p \in r.start .. r.end
        PROVE  after[p] = before[p]
    <2>1. InCover(R, p)
      BY <1>1, <1>3 DEF InCover
    <2>2. p \in lo .. hi
      BY <1>3
    <2> QED
      BY <2>1, <2>2
  <1> QED
    BY <1>1, <1>2, <1>4 DEF RangeHeld

----------------------------------------------------------------------------
(* A run of ranges without gaps, and what its chunks hold.                 *)

ChunksOf(ranges) == [i \in 1 .. Len(ranges) |-> ranges[i].persistency]

\* The chunks of f are stored and hold the content of a .. b - 1.
Run(ext, f, a, b, content) ==
    /\ f \in Seq(Ranges) /\ AllStored(ext, ChunksOf(f))
    /\ Len(Content(ext, ChunksOf(f))) = b - a
    /\ \A k \in 1 .. b - a : Content(ext, ChunksOf(f))[k] = content[a + k - 1]

LEMMA RunEmpty ==
    ASSUME NEW ext, NEW a \in Int, NEW content
    PROVE  Run(ext, <<>>, a, a, content)
  <1>1. ChunksOf(<<>>) = <<>>
    BY DEF ChunksOf
  <1>2. AllStored(ext, <<>>)
    <2>1. <<>> \in Seq(Chunks)
      BY EmptySeq
    <2> QED
      BY <2>1 DEF AllStored
  <1>3. Pieces(ext, <<>>) = <<>>
    BY DEF Pieces
  <1>4. FlattenSeq(<<>>) = <<>>
    BY DEF FlattenSeq
  <1>5. Content(ext, <<>>) = <<>>
    BY <1>3, <1>4 DEF Content
  <1>6. a - a = 0 /\ <<>> \in Seq(Ranges)
    BY EmptySeq
  <1> QED
    BY <1>1, <1>2, <1>5, <1>6 DEF Run

LEMMA RunMore ==
    ASSUME NEW ext \in Seq(Seq(Seq(Nat))), NEW f, NEW a \in Int, NEW b \in Int, a <= b, NEW content,
           Run(ext, f, a, b, content), NEW r \in Ranges, r.start = b, b <= r.end,
           RangeHeld(ext, r, content)
    PROVE  Run(ext, Append(f, r), a, r.end + 1, content)
  <1> DEFINE more == Append(f, r)
             n == Len(f)
             old == ChunksOf(f)
             new == ChunksOf(more)
             chunk == r.persistency
             units == UnitsOf(ext, chunk)
             C == Content(ext, old)
  <1>1. f \in Seq(Ranges) /\ n \in Nat
    BY DEF Run
  <1>2. /\ more \in Seq(Ranges) /\ Len(more) = n + 1 /\ more[n + 1] = r
        /\ \A i \in 1 .. n : more[i] = f[i]
    BY <1>1
  <1>3. /\ AllStored(ext, old) /\ Len(C) = b - a /\ \A k \in 1 .. b - a : C[k] = content[a + k - 1]
    BY DEF Run
  <1>4. new = Append(old, chunk)
    <2>1. PICK x, y : x = new /\ y = Append(old, chunk)
      OBVIOUS
    <2>2. old \in Seq(Chunks) /\ Len(old) = n /\ \A i \in 1 .. n : old[i] = f[i].persistency
      <3>1. \A i \in 1 .. n : f[i].persistency \in Chunks
        <4>1. \A i \in 1 .. n : f[i] \in Ranges
          BY <1>1, ElementOfSeq
        <4> QED
          BY <4>1 DEF Ranges
      <3> QED
        BY <1>1, <3>1 DEF ChunksOf
    <2>3. chunk \in Chunks
      BY DEF Ranges
    <2> HIDE DEF old, chunk
    <2>4. /\ y \in Seq(Chunks) /\ Len(y) = n + 1 /\ y[n + 1] = chunk /\ \A i \in 1 .. n : y[i] = old[i]
      BY <2>1, <2>2, <2>3
    <2>5. x = [i \in 1 .. n + 1 |-> more[i].persistency]
      BY <1>2, <2>1 DEF ChunksOf
    <2> HIDE DEF more
    <2>6. \A i \in 1 .. n + 1 : i \in 1 .. n \/ i = n + 1
      BY <1>1
    <2>7. ASSUME NEW i \in 1 .. n + 1
          PROVE  more[i].persistency = y[i] /\ y[i] \in Chunks
      <3>1. CASE i \in 1 .. n
        <4>1. old[i] \in Chunks
          BY <2>2, <3>1, ElementOfSeq
        <4> QED
          BY <1>2, <2>2, <2>4, <3>1, <4>1
      <3>2. CASE i = n + 1
        BY <1>2, <2>3, <2>4, <3>2 DEF chunk
      <3> QED
        BY <2>6, <3>1, <3>2
    <2>8. x \in Seq(Chunks) /\ Len(x) = n + 1 /\ \A i \in 1 .. n + 1 : x[i] = y[i]
      <3>1. n + 1 \in Nat
        BY <1>1
      <3> QED
        BY <2>5, <2>7, <3>1
    <2>9. x = y
      BY <2>4, <2>8, SeqEqual
    <2> QED
      BY <2>1, <2>9
  <1>5. Stored(ext, chunk) /\ chunk \in Chunks /\ chunk.count = r.end - b + 1
    BY DEF RangeHeld, Wide, Ranges
  <1>6. /\ units \in Seq(Nat) /\ Len(units) = chunk.count
        /\ \A k \in 1 .. chunk.count : units[k] = UnitAt(ext, chunk, k)
    BY <1>5, StoredUnits
  <1>7. PICK e, m : e = r.end /\ m = e - b + 1
    OBVIOUS
  <1>8. e \in Int /\ m \in Nat /\ chunk.count = m /\ b <= e
    BY <1>5, <1>7 DEF Ranges
  <1>9. \A k \in 1 .. m : units[k] = content[b + k - 1]
    <2> SUFFICES ASSUME NEW k \in 1 .. m
                 PROVE  units[k] = content[b + k - 1]
      OBVIOUS
    <2>1. PICK p : p = b + k - 1
      OBVIOUS
    <2>2. p \in b .. e /\ p - b + 1 = k
      BY <1>7, <1>8, <2>1
    <2>3. UnitAt(ext, chunk, p - b + 1) = content[p]
      BY <1>7, <2>2 DEF RangeHeld
    <2> QED
      BY <1>6, <1>8, <2>1, <2>2, <2>3
  <1>10. AllStored(ext, new) /\ Content(ext, new) = C \o units
    BY <1>3, <1>4, <1>5, ContentAppend
  <1>11. C \in Seq(Nat)
    BY <1>3, PiecesType
  <1> HIDE DEF more, n, old, new, chunk, units, C
  <1>12. PICK l : l = b - a
    OBVIOUS
  <1>13. l \in Nat /\ Len(C) = l /\ Len(units) = m /\ l + m = (e + 1) - a
    BY <1>3, <1>6, <1>7, <1>8, <1>12
  <1>14. /\ Len(C \o units) = l + m
         /\ \A k \in 1 .. l : (C \o units)[k] = C[k]
         /\ \A k \in 1 .. m : (C \o units)[l + k] = units[k]
    BY <1>6, <1>11, <1>13, ConcatParts
  <1>15. ASSUME NEW k \in 1 .. l + m
         PROVE  (C \o units)[k] = content[a + k - 1]
    <2>1. CASE k \in 1 .. l
      BY <1>3, <1>12, <1>14, <2>1
    <2>2. CASE k \notin 1 .. l
      <3>1. PICK j : j = k - l
        OBVIOUS
      <3>2. j \in 1 .. m /\ l + j = k /\ b + j - 1 = a + k - 1
        BY <1>8, <1>12, <1>13, <2>2, <3>1
      <3>3. (C \o units)[k] = units[j]
        BY <1>14, <3>2
      <3> QED
        BY <1>9, <3>2, <3>3
    <2> QED
      BY <2>1, <2>2
  <1>16. Run(ext, more, a, e + 1, content)
    BY <1>2, <1>10, <1>13, <1>14, <1>15 DEF Run, new
  <1> QED
    BY <1>7, <1>16 DEF more

LEMMA RunZero ==
    ASSUME NEW ext \in Seq(Seq(Seq(Nat))), NEW f, NEW a \in Int, NEW b \in Int, NEW e \in Int,
           a <= b, b <= e + 1, NEW content,
           Run(ext, f, a, b, content), \A p \in b .. e : content[p] = 0
    PROVE  Run(ext, f \o ZeroRange(b, e), a, e + 1, content)
  <1>1. f \in Seq(Ranges)
    BY DEF Run
  <1>2. CASE b > e
    <2>1. ZeroRange(b, e) = <<>> /\ e + 1 = b
      BY <1>2 DEF ZeroRange
    <2>2. f \o <<>> = f
      BY <1>1, ConcatEmptySeq
    <2> QED
      BY <2>1, <2>2
  <1>3. CASE ~(b > e)
    <2> DEFINE c == Chunk(ZeroExtentId, 0, e + 1 - b)
               r == PageRange(b, e, c)
    <2>1. ZeroRange(b, e) = <<r>>
      BY <1>3 DEF ZeroRange
    <2>2. /\ c.id = 0 /\ c.offset = 0 /\ c.count = e + 1 - b /\ c \in Chunks
          /\ r.start = b /\ r.end = e /\ r.persistency = c /\ r \in Ranges
      BY DEF Chunk, PageRange, Chunks, Ranges, ZeroExtentId
    <2> HIDE DEF c, r
    <2>3. e + 1 - b \in Nat /\ e + 1 - b = e - b + 1
      BY <1>3
    <2>4. Stored(ext, c) /\ Wide(r)
      BY <2>2, <2>3 DEF Stored, Wide, ZeroExtentId
    <2>5. \A k : UnitAt(ext, c, k) = 0
      BY <2>2 DEF UnitAt, ZeroExtentId
    <2>6. RangeHeld(ext, r, content)
      BY <2>2, <2>4, <2>5 DEF RangeHeld
    <2>7. Run(ext, Append(f, r), a, e + 1, content)
      <3>1. b <= r.end /\ r.start = b /\ r.end = e /\ r \in Ranges
        BY <1>3, <2>2
      <3>2. Run(ext, Append(f, r), a, r.end + 1, content)
        BY <2>6, <3>1, RunMore
      <3> QED
        BY <3>1, <3>2
    <2>8. f \o <<r>> = Append(f, r)
      BY <1>1, <2>2, AppendIsConcat
    <2> QED
      BY <2>1, <2>7, <2>8
  <1> QED
    BY <1>2, <1>3

LEMMA ZeroRangeType ==
    ASSUME NEW s \in Int, NEW e \in Int
    PROVE  ZeroRange(s, e) \in Seq(Ranges) /\ <<>> \o ZeroRange(s, e) = ZeroRange(s, e)
  <1>1. PICK r : r = PageRange(s, e, Chunk(ZeroExtentId, 0, e + 1 - s))
    OBVIOUS
  <1>2. r \in Ranges
    BY <1>1 DEF PageRange, Chunk, Ranges, Chunks, ZeroExtentId
  <1>3. ZeroRange(s, e) = IF s > e THEN <<>> ELSE <<r>>
    BY <1>1 DEF ZeroRange
  <1>4. <<r>> \in Seq(Ranges)
    BY <1>2
  <1>5. <<>> \in Seq(Ranges)
    OBVIOUS
  <1>6. ZeroRange(s, e) \in Seq(Ranges)
    BY <1>3, <1>4, <1>5
  <1> QED
    BY <1>6, ConcatEmptySeq

LEMMA RunZeroAlone ==
    ASSUME NEW ext \in Seq(Seq(Seq(Nat))), NEW a \in Int, NEW e \in Int, a <= e + 1, NEW content,
           \A p \in a .. e : content[p] = 0
    PROVE  Run(ext, ZeroRange(a, e), a, e + 1, content)
  <1>1. PICK f : f = <<>>
    OBVIOUS
  <1>2. Run(ext, f, a, a, content) /\ a <= a
    BY <1>1, RunEmpty
  <1>3. Run(ext, f \o ZeroRange(a, e), a, e + 1, content)
    BY <1>2, RunZero
  <1> QED
    BY <1>1, <1>3, ZeroRangeType

\* The gap behind the first m ranges, and that the content is zero there.
GapFrom(cut, a, m) == IF m = 0 THEN a ELSE cut[m].end + 1
GapTo(cut, b, m) == IF m = Len(cut) THEN b ELSE cut[m + 1].start - 1
ZeroOutside(cut, a, b, content) == \A p \in a .. b : InCover(cut, p) \/ content[p] = 0

LEMMA GapBounds ==
    ASSUME NEW a \in Int, NEW b \in Int, a <= b, NEW cut, Tidy(cut, a, b), NEW m \in 0 .. Len(cut)
    PROVE  /\ GapFrom(cut, a, m) \in Int /\ GapTo(cut, b, m) \in Int
           /\ a <= GapFrom(cut, a, m) /\ GapFrom(cut, a, m) <= GapTo(cut, b, m) + 1 /\ GapTo(cut, b, m) <= b
  <1>1. PICK n : n = Len(cut)
    OBVIOUS
  <1>2. n \in Nat /\ m \in 0 .. n
    BY <1>1, TidyRange
  <1>3. PICK s, e : s = GapFrom(cut, a, m) /\ e = GapTo(cut, b, m)
    OBVIOUS
  <1>4. /\ \A i \in 1 .. n : /\ cut[i].start \in Int /\ cut[i].end \in Int
                             /\ a <= cut[i].start /\ cut[i].start <= cut[i].end /\ cut[i].end <= b
        /\ \A i, j \in 1 .. n : i < j => cut[i].end < cut[j].start
    BY <1>1, TidyRange
  <1>5. CASE m = 0 /\ m = n
    BY <1>1, <1>3, <1>5 DEF GapFrom, GapTo
  <1>6. CASE m = 0 /\ m # n
    <2>1. 1 \in 1 .. n /\ m + 1 = 1
      BY <1>2, <1>6
    <2>2. PICK x : x = cut[1].start
      OBVIOUS
    <2>3. x \in Int /\ a <= x /\ x <= b
      <3>1. cut[1].start \in Int /\ cut[1].end \in Int /\ a <= cut[1].start
            /\ cut[1].start <= cut[1].end /\ cut[1].end <= b
        BY <1>4, <2>1
      <3> QED
        BY <2>2, <3>1
    <2>4. s = a /\ e = x - 1
      BY <1>1, <1>3, <1>6, <2>1, <2>2 DEF GapFrom, GapTo
    <2> QED
      BY <1>3, <2>3, <2>4
  <1>7. CASE m # 0
    <2>1. m \in 1 .. n
      BY <1>2, <1>7
    <2>2. PICK x : x = cut[m].end
      OBVIOUS
    <2>3. x \in Int /\ a <= x /\ x <= b /\ s = x + 1
      <3>1. cut[m].start \in Int /\ cut[m].end \in Int /\ a <= cut[m].start
            /\ cut[m].start <= cut[m].end /\ cut[m].end <= b
        BY <1>4, <2>1
      <3>2. s = x + 1
        BY <1>3, <1>7, <2>2 DEF GapFrom
      <3> QED
        BY <2>2, <3>1, <3>2
    <2>4. CASE m = n
      <3>1. e = b
        BY <1>1, <1>3, <2>4 DEF GapTo
      <3> QED
        BY <1>3, <2>3, <3>1
    <2>5. CASE m # n
      <3>1. m + 1 \in 1 .. n /\ m < m + 1
        BY <1>2, <2>5
      <3>2. PICK k : k = m + 1
        OBVIOUS
      <3>3. PICK y, z : y = cut[k].start /\ z = cut[k].end
        OBVIOUS
      <3>4. y \in Int /\ z \in Int /\ y <= z /\ z <= b
        BY <1>4, <3>1, <3>2, <3>3
      <3>5. x < y
        BY <1>4, <2>1, <2>2, <3>1, <3>2, <3>3
      <3>6. e = y - 1
        BY <1>1, <1>3, <2>5, <3>2, <3>3 DEF GapTo
      <3> QED
        BY <1>3, <2>3, <3>4, <3>5, <3>6
    <2> QED
      BY <2>4, <2>5
  <1> QED
    BY <1>2, <1>5, <1>6, <1>7

LEMMA GapsAreZero ==
    ASSUME NEW a \in Int, NEW b \in Int, a <= b, NEW cut, Tidy(cut, a, b), NEW m \in 0 .. Len(cut),
           NEW content, ZeroOutside(cut, a, b, content)
    PROVE  \A p \in GapFrom(cut, a, m) .. GapTo(cut, b, m) : content[p] = 0
  <1> SUFFICES ASSUME NEW p \in GapFrom(cut, a, m) .. GapTo(cut, b, m)
               PROVE  content[p] = 0
    OBVIOUS
  <1>1. PICK n : n = Len(cut)
    OBVIOUS
  <1>2. n \in Nat /\ m \in 0 .. n
    BY <1>1, TidyRange
  <1>3. PICK s, e : s = GapFrom(cut, a, m) /\ e = GapTo(cut, b, m)
    OBVIOUS
  <1>4. /\ s \in Int /\ e \in Int /\ a <= s /\ e <= b /\ p \in Int /\ s <= p /\ p <= e
    BY <1>3, GapBounds
  <1>5. /\ \A i \in 1 .. n : /\ cut[i].start \in Int /\ cut[i].end \in Int
                             /\ cut[i].start <= cut[i].end
        /\ \A i, j \in 1 .. n : i < j => cut[i].end < cut[j].start
    BY <1>1, TidyRange
  <1>6. ASSUME NEW i \in 1 .. n, cut[i].start <= p, p <= cut[i].end
        PROVE  FALSE
    <2>1. PICK x, y : x = cut[i].start /\ y = cut[i].end
      OBVIOUS
    <2>2. x \in Int /\ y \in Int /\ x <= p /\ p <= y
      BY <1>5, <1>6, <2>1
    <2>3. CASE i <= m
      <3>1. m # 0 /\ m \in 1 .. n /\ i \in 1 .. n
        BY <1>2, <2>3
      <3>2. PICK u, z : u = cut[m].start /\ z = cut[m].end
        OBVIOUS
      <3>3. u \in Int /\ z \in Int /\ u <= z
        BY <1>5, <3>1, <3>2
      <3>4. s = z + 1
        BY <1>3, <3>1, <3>2 DEF GapFrom
      <3>5. i = m \/ y < u
        <4>1. i = m \/ i < m
          BY <2>3, <3>1
        <4>2. i < m => cut[i].end < cut[m].start
          BY <1>5, <3>1
        <4> QED
          BY <2>1, <3>2, <4>1, <4>2
      <3>6. y <= z
        <4>1. i = m => y = z
          BY <2>1, <3>2
        <4> QED
          BY <2>2, <3>3, <3>5, <4>1
      <3> QED
        BY <1>4, <2>2, <3>3, <3>4, <3>6
    <2>4. CASE ~(i <= m)
      <3>1. m # n /\ m + 1 \in 1 .. n /\ (i = m + 1 \/ m + 1 < i)
        BY <1>2, <2>4
      <3>2. PICK k : k = m + 1
        OBVIOUS
      <3>3. PICK u, z : u = cut[k].start /\ z = cut[k].end
        OBVIOUS
      <3>4. u \in Int /\ z \in Int /\ u <= z
        BY <1>5, <3>1, <3>2, <3>3
      <3>5. e = u - 1
        BY <1>1, <1>3, <3>1, <3>2, <3>3 DEF GapTo
      <3>6. i = k \/ z < x
        <4>1. k \in 1 .. n /\ (i = k \/ k < i)
          BY <3>1, <3>2
        <4>2. k < i => cut[k].end < cut[i].start
          BY <1>5, <4>1
        <4> QED
          BY <2>1, <3>3, <4>1, <4>2
      <3>7. u <= x
        <4>1. i = k => u = x
          BY <2>1, <3>3
        <4> QED
          BY <2>2, <3>4, <3>6, <4>1
      <3> QED
        BY <1>4, <2>2, <3>4, <3>5, <3>7
    <2> QED
      BY <2>3, <2>4
  <1>7. ~InCover(cut, p)
    BY <1>1, <1>6 DEF InCover
  <1>8. p \in a .. b
    BY <1>4
  <1> QED
    BY <1>7, <1>8 DEF ZeroOutside

GapRange(cut, a, b, m) == ZeroRange(GapFrom(cut, a, m), GapTo(cut, b, m))
WithGaps(cut, a, b) == [i \in 1 .. Len(cut) |-> <<cut[i]>> \o GapRange(cut, a, b, i)]

LEMMA FillZeroRangesIs ==
    ASSUME NEW R, NEW a \in Int, NEW b \in Int, a <= b, NEW cut, cut = CutRanges(R, a, b), Tidy(cut, a, b)
    PROVE  FillZeroRanges(R, a, b) = IF cut = <<>> THEN ZeroRange(a, b)
                                     ELSE GapRange(cut, a, b, 0) \o FlattenSeq(WithGaps(cut, a, b))
  <1>1. DOMAIN cut = 1 .. Len(cut) /\ Len(cut) \in Nat /\ cut \in Seq(Ranges)
    BY TidyRange
  <1>2. CASE cut = <<>>
    BY <1>2 DEF FillZeroRanges
  <1>3. CASE cut # <<>>
    <2>1. 0 # Len(cut) /\ 0 + 1 = 1
      BY <1>1, <1>3
    <2>2. GapRange(cut, a, b, 0) = ZeroRange(a, cut[1].start - 1)
      BY <2>1 DEF GapRange, GapFrom, GapTo
    <2>3. \A i \in 1 .. Len(cut) : i # 0
      BY <1>1
    <2>4. \A i \in 1 .. Len(cut) :
              GapRange(cut, a, b, i)
                  = ZeroRange(cut[i].end + 1, IF i = Len(cut) THEN b ELSE cut[i + 1].start - 1)
      BY <2>3, Zenon DEF GapRange, GapFrom, GapTo
    <2>5. [i \in DOMAIN cut |-> <<cut[i]>>
               \o ZeroRange(cut[i].end + 1, IF i = Len(cut) THEN b ELSE cut[i + 1].start - 1)]
              = WithGaps(cut, a, b)
      BY <1>1, <2>4, Zenon DEF WithGaps
    <2>6. FillZeroRanges(R, a, b)
              = ZeroRange(a, cut[1].start - 1)
                    \o FlattenSeq([i \in DOMAIN cut |-> <<cut[i]>>
                           \o ZeroRange(cut[i].end + 1, IF i = Len(cut) THEN b ELSE cut[i + 1].start - 1)])
      BY <1>3, Zenon DEF FillZeroRanges
    <2> QED
      BY <1>3, <2>2, <2>5, <2>6
  <1> QED
    BY <1>2, <1>3

LEMMA WithGapsType ==
    ASSUME NEW a \in Int, NEW b \in Int, a <= b, NEW cut, Tidy(cut, a, b)
    PROVE  /\ \A m \in 0 .. Len(cut) : GapRange(cut, a, b, m) \in Seq(Ranges)
           /\ WithGaps(cut, a, b) \in Seq(Seq(Ranges)) /\ Len(WithGaps(cut, a, b)) = Len(cut)
           /\ \A i \in 1 .. Len(cut) : WithGaps(cut, a, b)[i] = <<cut[i]>> \o GapRange(cut, a, b, i)
  <1>1. PICK n, U : n = Len(cut) /\ U = WithGaps(cut, a, b)
    OBVIOUS
  <1>2. n \in Nat /\ \A i \in 1 .. n : cut[i] \in Ranges
    BY <1>1, TidyRange
  <1>3. \A m \in 0 .. n : GapRange(cut, a, b, m) \in Seq(Ranges)
    BY <1>1, GapBounds, ZeroRangeType DEF GapRange
  <1>4. \A i \in 1 .. n : <<cut[i]>> \o GapRange(cut, a, b, i) \in Seq(Ranges)
    <2> SUFFICES ASSUME NEW i \in 1 .. n
                 PROVE  <<cut[i]>> \o GapRange(cut, a, b, i) \in Seq(Ranges)
      OBVIOUS
    <2>1. PICK w, g : w = <<cut[i]>> /\ g = GapRange(cut, a, b, i)
      OBVIOUS
    <2>2. i \in 0 .. n
      BY <1>2
    <2>3. w \in Seq(Ranges) /\ g \in Seq(Ranges)
      BY <1>2, <1>3, <2>1, <2>2
    <2> QED
      BY <2>1, <2>3, ConcatProperties
  <1>5. U = [i \in 1 .. n |-> <<cut[i]>> \o GapRange(cut, a, b, i)]
    BY <1>1 DEF WithGaps
  <1>6. PICK S : S = Seq(Ranges)
    OBVIOUS
  <1>7. PICK f : f = [i \in 1 .. n |-> <<cut[i]>> \o GapRange(cut, a, b, i)]
    OBVIOUS
  <1>8. f \in [1 .. n -> S] /\ \A i \in 1 .. n : f[i] = <<cut[i]>> \o GapRange(cut, a, b, i)
    BY <1>4, <1>6, <1>7
  <1>9. f \in Seq(S) /\ Len(f) = n
    BY <1>2, <1>8
  <1> QED
    BY <1>1, <1>3, <1>5, <1>6, <1>7, <1>8, <1>9

\* A range and the gap behind it prolong the run.
LEMMA RunNext ==
    ASSUME NEW ext \in Seq(Seq(Seq(Nat))), NEW a \in Int, NEW b \in Int, a <= b, NEW cut, Tidy(cut, a, b),
           NEW content, ZeroOutside(cut, a, b, content), RangesHeld(ext, cut, content),
           NEW m \in 1 .. Len(cut), NEW f, Run(ext, f, a, GapTo(cut, b, m - 1) + 1, content)
    PROVE  Run(ext, f \o (<<cut[m]>> \o GapRange(cut, a, b, m)), a, GapTo(cut, b, m) + 1, content)
  <1>1. PICK n : n = Len(cut)
    OBVIOUS
  <1>2. n \in Nat /\ m \in 0 .. n /\ m \in 1 .. n /\ m # 0 /\ m - 1 # n /\ (m - 1) + 1 = m
    BY <1>1, TidyRange
  <1>3. PICK r, s, e, g : /\ r = cut[m] /\ s = GapFrom(cut, a, m) /\ e = GapTo(cut, b, m)
                          /\ g = GapRange(cut, a, b, m)
    OBVIOUS
  <1>4. r \in Ranges /\ r.start \in Int /\ r.end \in Int /\ a <= r.start /\ r.start <= r.end
    BY <1>1, <1>2, <1>3, TidyRange
  <1>5. s \in Int /\ e \in Int /\ a <= s /\ s <= e + 1
    BY <1>1, <1>2, <1>3, GapBounds
  <1>6. s = r.end + 1
    BY <1>2, <1>3 DEF GapFrom
  <1>7. GapTo(cut, b, m - 1) = r.start - 1
    BY <1>1, <1>2, <1>3 DEF GapTo
  <1>8. Run(ext, f, a, r.start, content)
    <2>1. (r.start - 1) + 1 = r.start
      BY <1>4
    <2> QED
      BY <1>7, <2>1
  <1>9. RangeHeld(ext, r, content)
    BY <1>1, <1>2, <1>3 DEF RangesHeld
  <1>10. Run(ext, Append(f, r), a, s, content)
    <2>1. Run(ext, Append(f, r), a, r.end + 1, content)
      <3>1. PICK x : x = r.start
        OBVIOUS
      <3>2. x \in Int /\ a <= x /\ r.start = x /\ x <= r.end /\ Run(ext, f, a, x, content)
        BY <1>4, <1>8, <3>1
      <3> QED
        BY <1>4, <1>9, <3>2, RunMore
    <2> QED
      BY <1>6, <2>1
  <1>11. \A p \in s .. e : content[p] = 0
    BY <1>1, <1>2, <1>3, GapsAreZero
  <1>12. Run(ext, Append(f, r) \o ZeroRange(s, e), a, e + 1, content)
    BY <1>5, <1>10, <1>11, RunZero
  <1>13. g = ZeroRange(s, e) /\ g \in Seq(Ranges) /\ f \in Seq(Ranges)
    BY <1>1, <1>2, <1>3, <1>8, WithGapsType DEF GapRange, Run
  <1>14. PICK w : w = <<r>>
    OBVIOUS
  <1>15. w \in Seq(Ranges) /\ f \o w = Append(f, r)
    BY <1>4, <1>13, <1>14, AppendIsConcat
  <1>16. f \o (w \o g) = (f \o w) \o g
    BY <1>13, <1>15, Regroup, ZenonT(30)
  <1> QED
    BY <1>3, <1>12, <1>13, <1>14, <1>15, <1>16

\* fillZeroRanges leaves no gap.
LEMMA FillZeroRangesRun ==
    ASSUME NEW ext \in Seq(Seq(Seq(Nat))), NEW R, NEW a \in Int, NEW b \in Int, a <= b, NEW content,
           NEW cut, cut = CutRanges(R, a, b), Tidy(cut, a, b), RangesHeld(ext, cut, content),
           ZeroOutside(cut, a, b, content)
    PROVE  Run(ext, FillZeroRanges(R, a, b), a, b + 1, content)
  <1>1. PICK n, U, Z : n = Len(cut) /\ U = WithGaps(cut, a, b) /\ Z = GapRange(cut, a, b, 0)
    OBVIOUS
  <1>2. n \in Nat /\ cut \in Seq(Ranges) /\ 0 \in 0 .. n
    BY <1>1, TidyRange
  <1>3. Run(ext, Z, a, GapTo(cut, b, 0) + 1, content)
    <2>1. PICK e : e = GapTo(cut, b, 0)
      OBVIOUS
    <2>2. GapFrom(cut, a, 0) = a
      BY DEF GapFrom
    <2>3. e \in Int /\ a <= e + 1
      BY <1>1, <1>2, <2>1, <2>2, GapBounds
    <2>4. \A p \in a .. e : content[p] = 0
      BY <1>1, <1>2, <2>1, <2>2, GapsAreZero
    <2>5. Z = ZeroRange(a, e)
      BY <1>1, <2>1, <2>2 DEF GapRange
    <2> QED
      BY <2>1, <2>3, <2>4, <2>5, RunZeroAlone
  <1>4. CASE cut = <<>>
    <2>1. n = 0
      BY <1>1, <1>4
    <2>2. GapFrom(cut, a, 0) = a /\ GapTo(cut, b, 0) = b
      BY <1>1, <2>1 DEF GapFrom, GapTo
    <2>3. Z = ZeroRange(a, b)
      BY <1>1, <2>2 DEF GapRange
    <2>4. FillZeroRanges(R, a, b) = ZeroRange(a, b)
      BY <1>4, FillZeroRangesIs
    <2> QED
      BY <1>3, <2>2, <2>3, <2>4
  <1>5. CASE cut # <<>>
    <2>1. FillZeroRanges(R, a, b) = Z \o FlattenSeq(U)
      BY <1>1, <1>5, FillZeroRangesIs
    <2>2. /\ Z \in Seq(Ranges) /\ U \in Seq(Seq(Ranges)) /\ Len(U) = n
          /\ \A i \in 1 .. n : /\ U[i] = <<cut[i]>> \o GapRange(cut, a, b, i)
      BY <1>1, <1>2, WithGapsType, SMTT(30)
    <2>3. PICK P : Joins(P, U) /\ P[n] = FlattenSeq(U)
      BY <2>2, FlattenPrefixes
    <2>4. \A k \in 0 .. n : P[k] \in Seq(Ranges)
      BY <2>2, <2>3, PrefixType
    <2>5. P[0] = <<>> /\ \A k \in 1 .. n : P[k] = P[k - 1] \o U[k]
      BY <2>2, <2>3 DEF Joins
    <2> DEFINE Good(k) == Run(ext, Z \o P[k], a, GapTo(cut, b, k) + 1, content)
               T == {k \in Nat : k \in 0 .. n => Good(k)}
    <2>6. 0 \in T
      <3>1. Z \o P[0] = Z
        BY <2>2, <2>5, ConcatEmptySeq
      <3> QED
        BY <1>3, <3>1
    <2>7. ASSUME NEW k \in Nat, k \in T
          PROVE  k + 1 \in T
      <3> SUFFICES ASSUME k + 1 \in 0 .. n
                   PROVE  Good(k + 1)
        OBVIOUS
      <3>1. PICK m : m = k + 1
        OBVIOUS
      <3>2. m \in 1 .. n /\ m - 1 = k /\ k \in 0 .. n
        BY <1>2, <3>1
      <3>3. PICK f, x : f = Z \o P[k] /\ x = P[k]
        OBVIOUS
      <3>4. Run(ext, f, a, GapTo(cut, b, m - 1) + 1, content)
        BY <2>7, <3>2, <3>3
      <3>5. PICK u : u = U[m]
        OBVIOUS
      <3>6. Run(ext, f \o u, a, GapTo(cut, b, m) + 1, content)
        <4>1. u = <<cut[m]>> \o GapRange(cut, a, b, m)
          BY <2>2, <3>2, <3>5
        <4> HIDE DEF T, Good
        <4> QED
          BY <1>1, <3>2, <3>4, <4>1, RunNext
      <3>7. P[m] = x \o u
        BY <2>5, <3>2, <3>3, <3>5
      <3>8. x \in Seq(Ranges) /\ u \in Seq(Ranges)
        <4>1. u \in Seq(Ranges)
          BY <2>2, <3>2, <3>5, ElementOfSeq
        <4> QED
          BY <2>4, <3>2, <3>3, <4>1
      <3>9. Z \o (x \o u) = (Z \o x) \o u
        BY <2>2, <3>8, Regroup, Zenon
      <3> QED
        BY <3>1, <3>3, <3>6, <3>7, <3>9
    <2>8. \A k \in Nat : k \in T
      <3> HIDE DEF T
      <3> QED
        BY <2>6, <2>7, NatsFrom
    <2>9. Good(n)
      BY <1>2, <2>8
    <2>10. GapTo(cut, b, n) = b
      BY <1>1 DEF GapTo
    <2> QED
      BY <2>1, <2>3, <2>9, <2>10
  <1> QED
    BY <1>4, <1>5

----------------------------------------------------------------------------
(* What a download reads.                                                  *)

\* A getter that reads `then' out of the extents.
GetterHolds(ext, g, then) ==
    /\ AllStored(ext, g.chunks)
    /\ g.offset \in Nat /\ g.count \in Nat
    /\ then = [p \in 1 .. g.count |-> then[p]]
    /\ g.count # 0 => g.offset + g.count <= Len(Content(ext, g.chunks))
    /\ \A j \in 1 .. g.count : then[j] = Content(ext, g.chunks)[g.offset + j]

\* The chunks begin with the first `len' positions of the content.
Matches(ext, chunks, len, content) ==
    /\ len <= Len(Content(ext, chunks))
    /\ \A k \in 1 .. len : Content(ext, chunks)[k] = content[k - 1]

\* The document refers to chunks that hold the content.
DocHolds(ext, d, content) ==
    /\ AllStored(ext, d.blocks) /\ AllStored(ext, d.persistency) /\ Len(d.persistency) <= 1
    /\ d.len \in 0 .. MaxLen
    /\ d.type = "page" => RangesHeld(ext, d.ranges, content)
    /\ d.type # "page" =>
           Matches(ext, IF d.blocks = <<>> THEN d.persistency ELSE d.blocks, d.len, content)
    /\ d.type = "append" => d.persistency = <<>> /\ Len(Content(ext, d.blocks)) = d.len

UploadHolds(ext, u) ==
    /\ Stored(ext, u.chunk) /\ u.chunk.count = u.end - u.start + 1
    /\ \A k \in 1 .. u.chunk.count : UnitAt(ext, u.chunk, k) = u.units[k]

ReaderShape ==
    reader = [phase |-> reader.phase, start |-> reader.start, end |-> reader.end, hash |-> reader.hash,
              body |-> reader.body, getter |-> reader.getter, then |-> reader.then]

\* The download has read, and will read, what the blob held when it began.
ReaderHolds(ext) ==
    /\ ReaderShape
    /\ GetterHolds(ext, reader.getter, reader.then)
    /\ reader.phase \in {"hash", "body", "answer"}
    /\ reader.phase # "hash" => reader.body = reader.then

ContentInv ==
    /\ PagesInv
    /\ store = "fs" => Len(extents) <= 1
    /\ AllStored(extents, staged)
    /\ DocHolds(extents, doc, bytes)
    /\ upload # Idle => UploadHolds(extents, upload)
    /\ reader = Idle \/ ReaderHolds(extents)

----------------------------------------------------------------------------
(* Getters read what they hold.                                            *)

LEMMA BodyReads ==
    ASSUME extents \in Seq(Seq(Seq(Nat))), NEW g, NEW then, GetterHolds(extents, g, then)
    PROVE  Body(g) = then
  <1>1. PICK n, o, chunks : n = g.count /\ o = g.offset /\ chunks = g.chunks
    OBVIOUS
  <1>2. /\ AllStored(extents, chunks) /\ o \in Nat /\ n \in Nat
        /\ then = [p \in 1 .. n |-> then[p]]
        /\ n # 0 => o + n <= Len(Content(extents, chunks))
        /\ \A j \in 1 .. n : then[j] = Content(extents, chunks)[o + j]
    BY <1>1 DEF GetterHolds
  <1>3. Body(g) = ReadExtents(chunks, o, n)
    BY <1>1 DEF Body
  <1>4. CASE n = 0
    <2>1. ReadExtents(chunks, o, n) = <<>>
      BY <1>4 DEF ReadExtents
    <2>2. then = [p \in 1 .. 0 |-> then[p]]
      BY <1>2, <1>4
    <2>3. [p \in 1 .. 0 |-> then[p]] = <<>>
      OBVIOUS
    <2> QED
      BY <1>3, <2>1, <2>2, <2>3
  <1>5. CASE n # 0
    <2>1. PICK r : r = ReadExtents(chunks, o, n)
      OBVIOUS
    <2>2. /\ r \in Seq(Nat) /\ Len(r) = n
          /\ \A j \in 1 .. n : r[j] = Content(extents, chunks)[o + j]
      BY <1>2, <1>5, <2>1, ReadExtentsReads
    <2>3. \A j \in 1 .. n : r[j] = then[j] /\ r[j] \in Nat
      BY <1>2, <2>2, ElementOfSeq
    <2>4. PICK t : t = [p \in 1 .. n |-> then[p]]
      OBVIOUS
    <2>5. \A j \in 1 .. n : then[j] \in Nat
      BY <2>3
    <2>6. t \in Seq(Nat) /\ Len(t) = n /\ \A j \in 1 .. n : t[j] = then[j]
      <3>1. n \in Nat
        BY <1>2
      <3> QED
        BY <3>1, <2>4, <2>5
    <2>7. r = t
      BY <2>2, <2>3, <2>6, SeqEqual
    <2> QED
      BY <1>2, <1>3, <2>1, <2>4, <2>7
  <1> QED
    BY <1>4, <1>5

LEMMA NoContent ==
    ASSUME NEW ext
    PROVE  AllStored(ext, <<>>) /\ Content(ext, <<>>) = <<>>
  <1>1. AllStored(ext, <<>>)
    <2>1. <<>> \in Seq(Chunks)
      BY EmptySeq
    <2> QED
      BY <2>1 DEF AllStored
  <1>2. Pieces(ext, <<>>) = <<>>
    BY DEF Pieces
  <1>3. FlattenSeq(<<>>) = <<>>
    BY DEF FlattenSeq
  <1> QED
    BY <1>1, <1>2, <1>3 DEF Content

LEMMA ContentOfOne ==
    ASSUME NEW ext \in Seq(Seq(Seq(Nat))), NEW chunk \in Chunks, Stored(ext, chunk)
    PROVE  AllStored(ext, <<chunk>>) /\ Content(ext, <<chunk>>) = UnitsOf(ext, chunk)
  <1>1. UnitsOf(ext, chunk) \in Seq(Nat)
    BY StoredUnits
  <1>2. Append(<<>>, chunk) = <<chunk>>
    OBVIOUS
  <1>3. PICK e : e = <<>>
    OBVIOUS
  <1>4. AllStored(ext, e) /\ Content(ext, e) = <<>>
    BY <1>3, NoContent
  <1>5. /\ AllStored(ext, Append(e, chunk))
        /\ Content(ext, Append(e, chunk)) = Content(ext, e) \o UnitsOf(ext, chunk)
    BY <1>4, ContentAppend
  <1>6. <<>> \o UnitsOf(ext, chunk) = UnitsOf(ext, chunk)
    BY <1>1, ConcatEmptySeq
  <1> QED
    BY <1>2, <1>3, <1>4, <1>5, <1>6

LEMMA PagesCut ==
    ASSUME NEW R, NEW content, PagesTidy(R, content), NEW a \in Int, NEW b \in Int, a <= b,
           NEW cut, cut = CutRanges(R, a, b)
    PROVE  /\ R \in Seq(Ranges) /\ Tidy(cut, a, b) /\ PiecesOf(cut, R)
           /\ \A p \in a .. b : InCover(cut, p) <=> InCover(R, p)
  <1>1. PICK h : h = MaxLen - 1
    OBVIOUS
  <1>2. h \in Int /\ 0 \in Int /\ Tidy(R, 0, h) /\ Tidy(R, 0, MaxLen - 1)
    BY <1>1, Bounds DEF PagesTidy
  <1>3. R \in Seq(Ranges) /\ Len(R) \in Nat
    BY <1>2, TidyRange
  <1>4. Len(R) <= MaxLen
    BY <1>2, Bounds, TidyLength
  <1>5. Len(R) <= Infinity /\ Infinity \in Nat
    BY <1>3, <1>4, Bounds
  <1>6. PICK l : l = 0
    OBVIOUS
  <1>7. l \in Int /\ h \in Int /\ Tidy(R, l, h)
    BY <1>2, <1>6
  <1>8. /\ \A p \in Int : (\E i \in 1 .. Len(cut) : cut[i].start <= p /\ p <= cut[i].end)
                                 <=> InCover(R, p) /\ a <= p /\ p <= b
        /\ Tidy(cut, a, b) /\ PiecesOf(cut, R)
    BY <1>5, <1>7, CutRangesCover
  <1>9. ASSUME NEW p \in a .. b
        PROVE  InCover(cut, p) <=> InCover(R, p)
    <2>1. p \in Int /\ a <= p /\ p <= b
      OBVIOUS
    <2> QED
      BY <1>8, <2>1 DEF InCover
  <1> QED
    BY <1>3, <1>8, <1>9

LEMMA PageGetter ==
    ASSUME NEW ext \in Seq(Seq(Seq(Nat))), NEW d, NEW content, PagesTidy(d.ranges, content),
           RangesHeld(ext, d.ranges, content), NEW start \in Nat, NEW last \in Int,
           start <= last + 1, last <= MaxLen - 1
    PROVE  GetterHolds(ext, PageBodyGetter(d, start, last),
                       [p \in 1 .. last - start + 1 |-> content[start + p - 1]])
  <1>1. PICK count, R : count = last - start + 1 /\ R = d.ranges
    OBVIOUS
  <1>2. count \in Nat /\ MaxLen \in Nat
    BY <1>1, Bounds
  <1>3. PICK f : f = IF count <= 0 THEN <<>> ELSE FillZeroRanges(R, start, last)
    OBVIOUS
  <1>4. Run(ext, f, start, last + 1, content)
    <2>1. CASE count <= 0
      <3>1. last + 1 = start /\ start \in Int
        BY <1>1, <1>2, <2>1
      <3>2. f = <<>>
        BY <1>3, <2>1
      <3> QED
        BY <3>1, <3>2, RunEmpty
    <2>2. CASE ~(count <= 0)
      <3>1. start <= last /\ start \in Int /\ f = FillZeroRanges(R, start, last)
        BY <1>1, <1>2, <1>3, <2>2
      <3>2. PICK cut : cut = CutRanges(R, start, last)
        OBVIOUS
      <3>3. PagesTidy(R, content)
        BY <1>1
      <3>4. /\ R \in Seq(Ranges) /\ Tidy(cut, start, last) /\ PiecesOf(cut, R)
            /\ \A p \in start .. last : InCover(cut, p) <=> InCover(R, p)
        BY <3>1, <3>2, <3>3, PagesCut
      <3>5. \A p \in Positions : InCover(R, p) <=> content[p] # 0
        BY <3>3 DEF PagesTidy
      <3>7. RangesHeld(ext, R, content)
        BY <1>1
      <3>8. RangesHeld(ext, cut, content)
        BY <3>1, <3>4, <3>7, PiecesHeld
      <3>9. ZeroOutside(cut, start, last, content)
        <4> SUFFICES ASSUME NEW p \in start .. last, content[p] # 0
                     PROVE  InCover(cut, p)
          BY DEF ZeroOutside
        <4>1. p \in Positions
          BY <1>2 DEF Positions
        <4> QED
          BY <3>4, <3>5, <4>1
      <3> QED
        BY <3>1, <3>2, <3>4, <3>8, <3>9, FillZeroRangesRun
    <2> QED
      BY <2>1, <2>2
  <1>5. PICK C, chunks : C = Content(ext, chunks) /\ chunks = ChunksOf(f)
    OBVIOUS
  <1>6. /\ f \in Seq(Ranges) /\ AllStored(ext, chunks)
        /\ Len(C) = count /\ \A k \in 1 .. count : C[k] = content[start + k - 1]
    <2>1. last + 1 - start = count
      BY <1>1
    <2> QED
      BY <1>4, <1>5, <2>1 DEF Run
  <1>7. PageBodyGetter(d, start, last) = [chunks |-> chunks, offset |-> 0, count |-> count]
    <2>1. DOMAIN f = 1 .. Len(f)
      BY <1>6
    <2>2. [i \in DOMAIN f |-> f[i].persistency] = chunks
      BY <1>5, <2>1 DEF ChunksOf
    <2> QED
      BY <1>1, <1>3, <2>2, Zenon DEF PageBodyGetter
  <1>8. PICK g, then : /\ g = [chunks |-> chunks, offset |-> 0, count |-> count]
                       /\ then = [p \in 1 .. count |-> content[start + p - 1]]
    OBVIOUS
  <1>9. /\ g.chunks = chunks /\ g.offset = 0 /\ g.count = count
        /\ then = [p \in 1 .. count |-> then[p]]
        /\ \A k \in 1 .. count : then[k] = content[start + k - 1] /\ 0 + k = k
    BY <1>8
  <1>10. GetterHolds(ext, g, then)
    <2>1. g.count # 0 => g.offset + g.count <= Len(Content(ext, g.chunks))
      BY <1>2, <1>5, <1>6, <1>9
    <2>2. \A j \in 1 .. g.count : then[j] = Content(ext, g.chunks)[g.offset + j]
      BY <1>5, <1>6, <1>9, ZenonT(30)
    <2> QED
      BY <1>2, <1>6, <1>9, <2>1, <2>2 DEF GetterHolds
  <1> QED
    BY <1>1, <1>7, <1>8, <1>10

\* A part of a chunk.
LEMMA PartStored ==
    ASSUME NEW ext \in Seq(Seq(Seq(Nat))), NEW chunk \in Chunks, Stored(ext, chunk), NEW start \in Nat, NEW n \in Nat,
           start + n <= chunk.count, NEW part, part = Chunk(chunk.id, chunk.offset + start, n)
    PROVE  /\ part \in Chunks /\ part.count = n /\ Stored(ext, part)
           /\ \A j \in 1 .. n : UnitAt(ext, part, j) = UnitAt(ext, chunk, start + j)
  <1>1. PICK id, o, c : id = chunk.id /\ o = chunk.offset /\ c = chunk.count
    OBVIOUS
  <1>2. id \in Nat /\ o \in Nat /\ c \in Nat /\ start + n <= c
    BY <1>1 DEF Stored
  <1>3. part.id = id /\ part.offset = o + start /\ part.count = n
    BY <1>1 DEF Chunk
  <1>4. part \in Chunks
    BY <1>1, <1>2 DEF Chunk, Chunks
  <1>5. Stored(ext, part)
    <2>1. CASE id = ZeroExtentId
      BY <1>2, <1>3, <2>1, SMTT(30) DEF Stored
    <2>2. CASE id # ZeroExtentId
      <3>1. PICK l : l = Len(Joined(ext, id))
        OBVIOUS
      <3>2. id \in 1 .. Len(ext) /\ o + c <= l
        BY <1>1, <2>2, <3>1 DEF Stored
      <3>3. l \in Nat
        BY <3>1, <3>2, ExtentTypes
      <3>4. (o + start) + n <= l
        BY <1>2, <3>2, <3>3
      <3> QED
        <4>1. part.offset + part.count = (o + start) + n /\ o + start \in Nat
          BY <1>2, <1>3
        <4>2. part.id \in Nat /\ part.offset \in Nat /\ part.count \in Nat /\ part.id \in 1 .. Len(ext)
          BY <1>2, <1>3, <3>2, <4>1
        <4>3. part.offset + part.count <= Len(Joined(ext, part.id))
          BY <1>3, <3>1, <3>4, <4>1
        <4> QED
          BY <4>2, <4>3 DEF Stored
    <2> QED
      BY <2>1, <2>2
  <1>6. ASSUME NEW j \in 1 .. n
        PROVE  UnitAt(ext, part, j) = UnitAt(ext, chunk, start + j)
    <2>1. o + start + j = o + (start + j)
      BY <1>2
    <2> QED
      BY <1>1, <1>3, <2>1 DEF UnitAt
  <1> QED
    BY <1>3, <1>4, <1>5, <1>6

LEMMA BlockGetter ==
    ASSUME NEW ext \in Seq(Seq(Seq(Nat))), NEW d, NEW content, DocHolds(ext, d, content),
           d.type # "page", NEW start \in Nat, NEW last \in Int, start <= last + 1, last + 1 <= d.len
    PROVE  GetterHolds(ext, BlockBodyGetter(d, start, last),
                       [p \in 1 .. last - start + 1 |-> content[start + p - 1]])
  <1>1. PICK count, len, then : /\ count = last - start + 1 /\ len = d.len
                                /\ then = [p \in 1 .. last - start + 1 |-> content[start + p - 1]]
    OBVIOUS
  <1>2. count \in Nat /\ len \in Nat /\ start + count <= len
    BY <1>1 DEF DocHolds
  <1>3. /\ then = [p \in 1 .. count |-> then[p]]
        /\ \A j \in 1 .. count : then[j] = content[start + j - 1]
    BY <1>1
  <1>4. /\ AllStored(ext, d.blocks) /\ AllStored(ext, d.persistency) /\ Len(d.persistency) <= 1
        /\ Matches(ext, IF d.blocks = <<>> THEN d.persistency ELSE d.blocks, len, content)
    BY <1>1 DEF DocHolds
  <1>5. PICK g : g = BlockBodyGetter(d, start, last)
    OBVIOUS
  <1>6. CASE d.blocks # <<>>
    <2>1. PICK blocks, C : blocks = d.blocks /\ C = Content(ext, d.blocks)
      OBVIOUS
    <2>2. g.chunks = blocks /\ g.offset = start /\ g.count = count
      BY <1>1, <1>5, <1>6, <2>1 DEF BlockBodyGetter
    <2>3. len <= Len(C) /\ Len(C) \in Nat /\ \A k \in 1 .. len : C[k] = content[k - 1]
      BY <1>4, <1>6, <2>1, PiecesType DEF Matches
    <2>4. \A j \in 1 .. count : then[j] = C[start + j]
      <3>1. \A j \in 1 .. count : start + j \in 1 .. len /\ (start + j) - 1 = start + j - 1
        BY <1>2
      <3> QED
        BY <1>3, <2>3, <3>1
    <2>5. start + count <= Len(C)
      BY <1>2, <2>3
    <2> QED
      BY <1>1, <1>2, <1>3, <1>4, <1>5, <2>1, <2>2, <2>4, <2>5 DEF GetterHolds
  <1>7. CASE d.blocks = <<>> /\ d.persistency = <<>>
    <2>1. len <= 0
      <3>1. Matches(ext, <<>>, len, content)
        BY <1>4, <1>7
      <3>2. Len(Content(ext, <<>>)) = 0
        BY NoContent
      <3> QED
        BY <3>1, <3>2 DEF Matches
    <2>2. count = 0
      BY <1>2, <2>1
    <2>3. g.chunks = <<>> /\ g.offset = 0 /\ g.count = 0
      BY <1>5, <1>7 DEF BlockBodyGetter
    <2>4. AllStored(ext, g.chunks)
      BY <2>3, NoContent
    <2> QED
      BY <1>1, <1>3, <1>5, <2>2, <2>3, <2>4 DEF GetterHolds
  <1>8. CASE d.blocks = <<>> /\ d.persistency # <<>>
    <2>1. PICK chunk : chunk = d.persistency[1]
      OBVIOUS
    <2>2. d.persistency \in Seq(Chunks) /\ Stored(ext, chunk) /\ chunk \in Chunks
          /\ d.persistency = <<chunk>>
      <3>1. d.persistency \in Seq(Chunks)
        BY <1>4 DEF AllStored
      <3>2. Len(d.persistency) = 1
        <4>1. PICK n : n = Len(d.persistency)
          OBVIOUS
        <4>2. n # 0 /\ n \in Nat
          BY <1>8, <3>1, <4>1, EmptySeq
        <4>3. n <= 1
          BY <1>4, <4>1
        <4>4. n = 1
          BY <4>2, <4>3
        <4> QED
          BY <4>1, <4>4, Zenon
      <3>3. d.persistency = <<chunk>> /\ chunk \in Chunks
        BY <2>1, <3>1, <3>2
      <3> QED
        BY <1>4, <2>1, <3>1, <3>2, <3>3 DEF AllStored
    <2>3. Matches(ext, <<chunk>>, len, content)
      BY <1>4, <1>8, <2>2
    <2>4. PICK C, c : C = UnitsOf(ext, chunk) /\ c = chunk.count
      OBVIOUS
    <2>5. c \in Nat /\ Len(C) = c /\ \A k \in 1 .. c : C[k] = UnitAt(ext, chunk, k)
      BY <2>2, <2>4, StoredUnits DEF Stored
    <2>6. len <= c /\ \A k \in 1 .. len : C[k] = content[k - 1]
      BY <2>2, <2>3, <2>4, <2>5, ContentOfOne DEF Matches
    <2>7. PICK part : part = Chunk(chunk.id, chunk.offset + start, count)
      OBVIOUS
    <2>8. start + count <= c /\ Smaller(c, count) = count
      BY <1>2, <2>5, <2>6 DEF Smaller
    <2>9. /\ part \in Chunks /\ part.count = count /\ Stored(ext, part)
          /\ \A j \in 1 .. count : UnitAt(ext, part, j) = UnitAt(ext, chunk, start + j)
      BY <1>2, <2>2, <2>4, <2>7, <2>8, PartStored
    <2>10. g.chunks = <<part>> /\ g.offset = 0 /\ g.count = count
      <3>1. g = [chunks |-> <<part>>, offset |-> 0, count |-> part.count]
        BY <1>1, <1>5, <1>8, <2>1, <2>4, <2>7, <2>8 DEF BlockBodyGetter
      <3> QED
        BY <2>9, <3>1
    <2>11. /\ AllStored(ext, <<part>>) /\ Content(ext, <<part>>) = UnitsOf(ext, part)
           /\ Len(UnitsOf(ext, part)) = count
           /\ \A k \in 1 .. count : UnitsOf(ext, part)[k] = UnitAt(ext, part, k)
      BY <2>9, ContentOfOne, StoredUnits
    <2>12. \A j \in 1 .. count : then[j] = UnitAt(ext, part, j)
      <3> SUFFICES ASSUME NEW j \in 1 .. count
                   PROVE  then[j] = UnitAt(ext, part, j)
        OBVIOUS
      <3>1. PICK k : k = start + j
        OBVIOUS
      <3>2. k \in 1 .. len /\ k \in 1 .. c /\ k - 1 = start + j - 1
        BY <1>2, <2>5, <2>6, <3>1
      <3>3. C[k] = content[k - 1] /\ C[k] = UnitAt(ext, chunk, k)
        BY <2>5, <2>6, <3>2
      <3> QED
        BY <1>3, <2>9, <3>1, <3>2, <3>3
    <2>13. \A j \in 1 .. count : then[j] = Content(ext, g.chunks)[g.offset + j]
      <3>1. \A j \in 1 .. count : 0 + j = j
        BY <1>2
      <3> QED
        BY <2>10, <2>11, <2>12, <3>1
    <2>14. g.offset + g.count <= Len(Content(ext, g.chunks))
      BY <1>2, <2>10, <2>11
    <2>15. GetterHolds(ext, g, then)
      <3>1. g.offset \in Nat /\ g.count \in Nat /\ AllStored(ext, g.chunks)
        BY <1>2, <2>10, <2>11
      <3>2. then = [p \in 1 .. g.count |-> then[p]]
        BY <1>3, <2>10
      <3>3. \A j \in 1 .. g.count : then[j] = Content(ext, g.chunks)[g.offset + j]
        BY <2>10, <2>13
      <3> QED
        BY <2>14, <3>1, <3>2, <3>3, Zenon DEF GetterHolds
    <2> QED
      BY <1>1, <1>5, <2>15
  <1> QED
    BY <1>6, <1>7, <1>8

\* What a range of the document reads is the content of that range.
LEMMA DocGetter ==
    ASSUME NEW ext \in Seq(Seq(Seq(Nat))), NEW d, NEW content, DocHolds(ext, d, content),
           d.type = "page" => PagesTidy(d.ranges, content),
           NEW start \in Nat, NEW last \in Int, start <= last + 1, last + 1 <= d.len
    PROVE  GetterHolds(ext, BodyGetter(d, start, last),
                       [p \in 1 .. last - start + 1 |-> content[start + p - 1]])
  <1>1. CASE d.type = "page"
    <2>1. last <= MaxLen - 1 /\ RangesHeld(ext, d.ranges, content)
      BY <1>1, Bounds DEF DocHolds
    <2> QED
      BY <1>1, <2>1, PageGetter DEF BodyGetter
  <1>2. CASE d.type # "page"
    BY <1>2, BlockGetter DEF BodyGetter
  <1> QED
    BY <1>1, <1>2

----------------------------------------------------------------------------
(* Extents that grow keep what refers to them.                             *)

LEMMA UnitsGrow ==
    ASSUME NEW e \in Seq(Seq(Seq(Nat))), NEW f \in Seq(Seq(Seq(Nat))), Grows(e, f),
           NEW chunk, Stored(e, chunk)
    PROVE  /\ Stored(f, chunk)
           /\ \A k \in 1 .. chunk.count : UnitAt(f, chunk, k) = UnitAt(e, chunk, k)
  <1>1. Stored(f, chunk) /\ UnitsOf(f, chunk) = UnitsOf(e, chunk)
    BY GrowsKeeps
  <1>2. \A k \in 1 .. chunk.count : UnitsOf(f, chunk)[k] = UnitAt(f, chunk, k)
    BY <1>1, StoredUnits
  <1>3. \A k \in 1 .. chunk.count : UnitsOf(e, chunk)[k] = UnitAt(e, chunk, k)
    BY StoredUnits
  <1> QED
    BY <1>1, <1>2, <1>3

LEMMA RangesGrow ==
    ASSUME NEW e \in Seq(Seq(Seq(Nat))), NEW f \in Seq(Seq(Seq(Nat))), Grows(e, f),
           NEW R \in Seq(Ranges), NEW content, RangesHeld(e, R, content)
    PROVE  RangesHeld(f, R, content)
  <1> SUFFICES ASSUME NEW i \in 1 .. Len(R)
               PROVE  RangeHeld(f, R[i], content)
    BY DEF RangesHeld
  <1>1. PICK r, c : r = R[i] /\ c = R[i].persistency
    OBVIOUS
  <1>2. r \in Ranges
    BY <1>1, ElementOfSeq
  <1>3. RangeHeld(e, r, content)
    BY <1>1 DEF RangesHeld
  <1>4. PICK a, b : a = r.start /\ b = r.end
    OBVIOUS
  <1>5. a \in Int /\ b \in Int /\ r.persistency = c
    BY <1>1, <1>2, <1>4 DEF Ranges
  <1>6. /\ Stored(e, c) /\ c.count = b - a + 1
        /\ \A p \in a .. b : UnitAt(e, c, p - a + 1) = content[p]
    BY <1>3, <1>4, <1>5 DEF RangeHeld, Wide
  <1>7. Stored(f, c) /\ \A k \in 1 .. c.count : UnitAt(f, c, k) = UnitAt(e, c, k)
    BY <1>6, UnitsGrow
  <1>8. ASSUME NEW p \in a .. b
        PROVE  UnitAt(f, c, p - a + 1) = content[p]
    <2>1. PICK k : k = p - a + 1
      OBVIOUS
    <2>2. k \in 1 .. b - a + 1
      BY <1>5, <2>1
    <2>3. UnitAt(f, c, k) = UnitAt(e, c, k)
      BY <1>6, <1>7, <2>2
    <2> QED
      BY <1>6, <2>1, <2>3
  <1>9. RangeHeld(f, r, content)
    BY <1>3, <1>4, <1>5, <1>7, <1>8 DEF RangeHeld
  <1> QED
    BY <1>1, <1>9

LEMMA GetterGrows ==
    ASSUME NEW e \in Seq(Seq(Seq(Nat))), NEW f \in Seq(Seq(Seq(Nat))), Grows(e, f),
           NEW g, NEW then, GetterHolds(e, g, then)
    PROVE  GetterHolds(f, g, then)
  <1>1. AllStored(f, g.chunks) /\ Content(f, g.chunks) = Content(e, g.chunks)
    BY GrowsKeepsAll DEF GetterHolds
  <1> QED
    BY <1>1 DEF GetterHolds

LEMMA DocGrows ==
    ASSUME NEW e \in Seq(Seq(Seq(Nat))), NEW f \in Seq(Seq(Seq(Nat))), Grows(e, f),
           NEW d, NEW content, DocHolds(e, d, content), d.type = "page" => d.ranges \in Seq(Ranges)
    PROVE  DocHolds(f, d, content)
  <1>1. AllStored(f, d.blocks) /\ Content(f, d.blocks) = Content(e, d.blocks)
    BY GrowsKeepsAll DEF DocHolds
  <1>2. AllStored(f, d.persistency) /\ Content(f, d.persistency) = Content(e, d.persistency)
    BY GrowsKeepsAll DEF DocHolds
  <1>3. d.type = "page" => RangesHeld(f, d.ranges, content)
    BY RangesGrow DEF DocHolds
  <1>4. PICK chunks : chunks = IF d.blocks = <<>> THEN d.persistency ELSE d.blocks
    OBVIOUS
  <1>5. Content(f, chunks) = Content(e, chunks)
    BY <1>1, <1>2, <1>4
  <1>6. d.type # "page" => Matches(f, chunks, d.len, content)
    BY <1>4, <1>5 DEF DocHolds, Matches
  <1> QED
    BY <1>1, <1>2, <1>3, <1>4, <1>6 DEF DocHolds

LEMMA UploadGrows ==
    ASSUME NEW e \in Seq(Seq(Seq(Nat))), NEW f \in Seq(Seq(Seq(Nat))), Grows(e, f),
           NEW u, UploadHolds(e, u)
    PROVE  UploadHolds(f, u)
  <1>1. Stored(f, u.chunk) /\ \A k \in 1 .. u.chunk.count : UnitAt(f, u.chunk, k) = UnitAt(e, u.chunk, k)
    BY UnitsGrow DEF UploadHolds
  <1> QED
    BY <1>1 DEF UploadHolds

----------------------------------------------------------------------------
(* The parts of the invariant that a step leaves alone.                    *)

FileShape == store = "fs" => Len(extents) <= 1
StagedHolds == AllStored(extents, staged)
DocIsHeld == DocHolds(extents, doc, bytes)
UploadIsHeld == upload # Idle => UploadHolds(extents, upload)
ReaderIsHeld == reader = Idle \/ ReaderHolds(extents)

ExtentsGrow ==
    extents \in Seq(Seq(Seq(Nat))) /\ extents' \in Seq(Seq(Seq(Nat))) /\ Grows(extents, extents')

LEMMA StagedKept ==
    ASSUME ContentInv, ExtentsGrow, staged' = staged
    PROVE  StagedHolds'
  <1>1. AllStored(extents, staged)
    BY DEF ContentInv
  <1>2. AllStored(extents', staged)
    BY <1>1, GrowsKeepsAll DEF ExtentsGrow
  <1> QED
    BY <1>2 DEF StagedHolds

LEMMA DocKept ==
    ASSUME ContentInv, ExtentsGrow, UNCHANGED <<doc, bytes>>
    PROVE  DocIsHeld'
  <1>1. DocHolds(extents, doc, bytes)
    BY DEF ContentInv
  <1>2. doc.type = "page" => doc.ranges \in Seq(Ranges)
    BY DEF ContentInv, PagesInv, PagesTidy, Tidy
  <1>3. DocHolds(extents', doc, bytes)
    BY <1>1, <1>2, DocGrows DEF ExtentsGrow
  <1> QED
    BY <1>3 DEF DocIsHeld

LEMMA UploadKept ==
    ASSUME ContentInv, ExtentsGrow, upload' = upload
    PROVE  UploadIsHeld'
  <1>1. upload # Idle => UploadHolds(extents, upload)
    BY DEF ContentInv
  <1>2. upload # Idle => UploadHolds(extents', upload)
    BY <1>1, UploadGrows DEF ExtentsGrow
  <1> QED
    BY <1>2 DEF UploadIsHeld

LEMMA ReaderKept ==
    ASSUME ContentInv, ExtentsGrow, reader' = reader
    PROVE  ReaderIsHeld'
  <1>1. CASE reader = Idle
    BY <1>1 DEF ReaderIsHeld
  <1>2. CASE reader # Idle
    <2>1. /\ ReaderShape /\ GetterHolds(extents, reader.getter, reader.then)
          /\ reader.phase \in {"hash", "body", "answer"}
          /\ reader.phase # "hash" => reader.body = reader.then
      BY <1>2 DEF ContentInv, ReaderHolds
    <2>2. GetterHolds(extents', reader.getter, reader.then)
      BY <2>1, GetterGrows DEF ExtentsGrow
    <2>3. ReaderShape'
      BY <2>1 DEF ReaderShape
    <2> QED
      BY <2>1, <2>2, <2>3 DEF ReaderIsHeld, ReaderHolds
  <1> QED
    BY <1>1, <1>2

LEMMA ContentInvParts ==
    ASSUME PagesInv', FileShape', StagedHolds', DocIsHeld', UploadIsHeld', ReaderIsHeld'
    PROVE  ContentInv'
  BY DEF ContentInv, FileShape, StagedHolds, DocIsHeld, UploadIsHeld, ReaderIsHeld

\* A step that appends a payload to the extents.
LEMMA Appended ==
    ASSUME ContentInv, NEW n \in Nat \ {0}, AppendExtent(n), store' = store
    PROVE  /\ ExtentsGrow /\ FileShape'
           /\ NewChunk(n) \in Chunks /\ NewChunk(n).count = n
           /\ Stored(extents', NewChunk(n)) /\ UnitsOf(extents', NewChunk(n)) = Payload(n)
           /\ Payload(n) \in Seq(Nat) /\ Len(Payload(n)) = n
  <1>1. extents \in Seq(Seq(Seq(Nat))) /\ (store = "fs" => Len(extents) <= 1)
    BY DEF ContentInv, PagesInv
  <1>2. /\ extents' \in Seq(Seq(Seq(Nat))) /\ Grows(extents, extents')
        /\ store = "fs" => Len(extents') <= 1
        /\ NewChunk(n) \in Chunks /\ NewChunk(n).count = n
        /\ Stored(extents', NewChunk(n)) /\ UnitsOf(extents', NewChunk(n)) = Payload(n)
    BY <1>1, AppendExtentStores
  <1>3. Payload(n) \in Seq(Nat) /\ Len(Payload(n)) = n
    BY <1>1, PayloadFacts
  <1> QED
    BY <1>1, <1>2, <1>3 DEF ExtentsGrow, FileShape

\* A step that leaves the extents alone.
LEMMA NotAppended ==
    ASSUME ContentInv, UNCHANGED <<store, extents>>
    PROVE  ExtentsGrow /\ FileShape'
  <1>1. extents \in Seq(Seq(Seq(Nat))) /\ (store = "fs" => Len(extents) <= 1)
    BY DEF ContentInv, PagesInv
  <1>2. Grows(extents, extents)
    BY <1>1, GrowsSelf
  <1> QED
    BY <1>1, <1>2 DEF ExtentsGrow, FileShape

----------------------------------------------------------------------------
(* The steps: what is written.                                             *)

LEMMA PutBlobHolds ==
    ASSUME ContentInv, PagesInv', NEW n \in 1 .. MaxLen, PutBlob(n)
    PROVE  ContentInv'
  <1>1. n \in Nat \ {0} /\ MaxLen \in Nat
    BY Bounds
  <1>2. AppendExtent(n) /\ UNCHANGED <<store, staged, upload, reader>>
    BY DEF PutBlob
  <1>3. /\ ExtentsGrow /\ FileShape'
        /\ NewChunk(n) \in Chunks /\ NewChunk(n).count = n
        /\ Stored(extents', NewChunk(n)) /\ UnitsOf(extents', NewChunk(n)) = Payload(n)
        /\ Payload(n) \in Seq(Nat) /\ Len(Payload(n)) = n
    BY <1>1, <1>2, Appended
  <1>4. PICK ext, d, c, pay, after : /\ ext = extents' /\ d = doc' /\ c = NewChunk(n) /\ pay = Payload(n)
                                     /\ after = bytes'
    OBVIOUS
  <1>5. d.type = "block" /\ d.len = n /\ d.persistency = <<c>> /\ d.blocks = <<>>
    BY <1>4 DEF PutBlob, NoBlob
  <1>6. \A p \in Positions : p < n => after[p] = pay[p + 1]
    BY <1>4 DEF PutBlob
  <1>7. ext \in Seq(Seq(Seq(Nat))) /\ Stored(ext, c) /\ c \in Chunks /\ UnitsOf(ext, c) = pay /\ Len(pay) = n
    BY <1>3, <1>4 DEF ExtentsGrow
  <1>8. AllStored(ext, <<c>>) /\ Content(ext, <<c>>) = pay
    BY <1>7, ContentOfOne
  <1>9. ASSUME NEW k \in 1 .. n
        PROVE  pay[k] = after[k - 1]
    <2>1. PICK p : p = k - 1
      OBVIOUS
    <2>2. p \in Positions /\ p < n /\ p + 1 = k
      BY <1>1, <2>1 DEF Positions
    <2> QED
      BY <1>6, <2>1, <2>2
  <1>10. Matches(ext, <<c>>, n, after)
    BY <1>1, <1>7, <1>8, <1>9 DEF Matches
  <1>11. Len(d.persistency) <= 1 /\ d.len \in 0 .. MaxLen
    BY <1>1, <1>5
  <1>12. AllStored(ext, d.blocks)
    BY <1>5, NoContent
  <1>13. DocHolds(ext, d, after)
    BY <1>5, <1>8, <1>10, <1>11, <1>12, Zenon DEF DocHolds
  <1>14. DocIsHeld'
    BY <1>4, <1>13 DEF DocIsHeld
  <1> QED
    BY <1>2, <1>3, <1>14, StagedKept, UploadKept, ReaderKept, ContentInvParts

LEMMA StageBlockHolds ==
    ASSUME ContentInv, PagesInv', NEW n \in 1 .. MaxLen, StageBlock(n)
    PROVE  ContentInv'
  <1>1. n \in Nat \ {0}
    BY Bounds
  <1>2. AppendExtent(n) /\ UNCHANGED <<store, doc, upload, reader, bytes>> /\ staged' = Append(staged, NewChunk(n))
    BY DEF StageBlock
  <1>3. ExtentsGrow /\ FileShape' /\ NewChunk(n) \in Chunks /\ Stored(extents', NewChunk(n))
    BY <1>1, <1>2, Appended
  <1>4. AllStored(extents, staged)
    BY DEF ContentInv
  <1>5. AllStored(extents', staged)
    BY <1>3, <1>4, GrowsKeepsAll DEF ExtentsGrow
  <1>6. AllStored(extents', Append(staged, NewChunk(n)))
    BY <1>3, <1>5, ContentAppend DEF ExtentsGrow
  <1>7. StagedHolds'
    BY <1>2, <1>6 DEF StagedHolds
  <1> QED
    BY <1>2, <1>3, <1>7, DocKept, UploadKept, ReaderKept, ContentInvParts

LEMMA AppendBlockHolds ==
    ASSUME ContentInv, PagesInv', NEW n \in 1 .. MaxLen, AppendBlock(n)
    PROVE  ContentInv'
  <1>1. n \in Nat \ {0} /\ MaxLen \in Nat
    BY Bounds
  <1>2. AppendExtent(n) /\ UNCHANGED <<store, staged, upload, reader>>
    BY DEF AppendBlock
  <1>3. /\ ExtentsGrow /\ FileShape'
        /\ NewChunk(n) \in Chunks /\ NewChunk(n).count = n
        /\ Stored(extents', NewChunk(n)) /\ UnitsOf(extents', NewChunk(n)) = Payload(n)
        /\ Payload(n) \in Seq(Nat) /\ Len(Payload(n)) = n
    BY <1>1, <1>2, Appended
  <1>4. PICK ext, c, pay, after, len, old : /\ ext = extents' /\ c = NewChunk(n) /\ pay = Payload(n)
                                            /\ after = bytes' /\ len = doc.len /\ old = doc.blocks
    OBVIOUS
  <1>5. /\ DocHolds(extents, doc, bytes) /\ DocShape /\ doc.type = "append" /\ len + n <= MaxLen
        /\ doc' = [doc EXCEPT !.blocks = Append(@, NewChunk(n)), !.len = @ + n]
        /\ bytes' = Written(doc.len, Payload(n))
    BY <1>4 DEF ContentInv, PagesInv, AppendBlock
  <1>6. PICK d : d = doc'
    OBVIOUS
  <1>7. /\ d.type = "append" /\ d.len = len + n /\ d.persistency = doc.persistency
        /\ d.blocks = Append(old, c)
    BY <1>4, <1>5, <1>6 DEF DocShape
  <1>8. /\ AllStored(extents, old) /\ doc.persistency = <<>> /\ len \in 0 .. MaxLen
        /\ Len(Content(extents, old)) = len
        /\ Matches(extents, IF old = <<>> THEN doc.persistency ELSE old, len, bytes)
    <2>1. doc.type # "page"
      BY <1>5
    <2> QED
      BY <1>4, <1>5, <2>1 DEF DocHolds
  <1>9. \A k \in 1 .. len : Content(extents, old)[k] = bytes[k - 1]
    BY <1>8 DEF Matches
  <1>10. PICK C : C = Content(ext, old)
    OBVIOUS
  <1>11. /\ AllStored(ext, old) /\ C \in Seq(Nat) /\ Len(C) = len
         /\ \A k \in 1 .. len : C[k] = bytes[k - 1]
    <2>1. ext \in Seq(Seq(Seq(Nat))) /\ AllStored(ext, old) /\ C = Content(extents, old)
      BY <1>3, <1>4, <1>8, <1>10, GrowsKeepsAll DEF ExtentsGrow
    <2>2. C \in Seq(Nat)
      BY <1>10, <2>1, PiecesType
    <2> QED
      BY <1>8, <1>9, <2>1, <2>2
  <1>12. AllStored(ext, Append(old, c)) /\ Content(ext, Append(old, c)) = C \o pay
    BY <1>3, <1>4, <1>10, <1>11, ContentAppend DEF ExtentsGrow
  <1>13. /\ Len(C \o pay) = len + n
         /\ \A k \in 1 .. len : (C \o pay)[k] = C[k]
         /\ \A k \in 1 .. n : (C \o pay)[len + k] = pay[k]
    <2>1. C \in Seq(Nat) /\ pay \in Seq(Nat) /\ Len(C) = len /\ Len(pay) = n
      BY <1>3, <1>4, <1>11
    <2>2. /\ Len(C \o pay) = Len(C) + Len(pay)
          /\ \A k \in 1 .. Len(C) : (C \o pay)[k] = C[k]
          /\ \A k \in 1 .. Len(pay) : (C \o pay)[Len(C) + k] = pay[k]
      BY <2>1, ConcatParts
    <2> QED
      BY <2>1, <2>2
  <1>14. \A p \in Positions : after[p] = IF len <= p /\ p < len + n THEN pay[p - len + 1] ELSE bytes[p]
    BY <1>3, <1>4, <1>5 DEF Written
  <1>15. len \in Nat /\ n \in Nat /\ len + n <= MaxLen
    BY <1>1, <1>5, <1>8
  <1>16. ASSUME NEW k \in 1 .. len + n
         PROVE  (C \o pay)[k] = after[k - 1]
    <2>1. PICK p : p = k - 1
      OBVIOUS
    <2>2. p \in Positions
      BY <1>1, <1>15, <2>1 DEF Positions
    <2>3. CASE k <= len
      <3>1. k \in 1 .. len /\ ~(len <= p)
        BY <1>15, <2>1, <2>3
      <3>2. after[p] = bytes[p]
        BY <1>14, <2>2, <3>1
      <3> QED
        BY <1>11, <1>13, <2>1, <3>1, <3>2
    <2>4. CASE ~(k <= len)
      <3>1. PICK j : j = k - len
        OBVIOUS
      <3>2. j \in 1 .. n /\ len + j = k /\ len <= p /\ p < len + n /\ p - len + 1 = j
        BY <1>15, <2>1, <2>4, <3>1
      <3>3. after[p] = pay[j]
        BY <1>14, <2>2, <3>2
      <3>4. (C \o pay)[k] = pay[j]
        BY <1>13, <3>2
      <3> QED
        BY <2>1, <3>3, <3>4
    <2> QED
      BY <2>3, <2>4
  <1>17. Append(old, c) # <<>>
    <2>1. old \in Seq(Chunks) /\ c \in Chunks
      BY <1>3, <1>4, <1>11 DEF AllStored
    <2>2. PICK m : m = Append(old, c)
      OBVIOUS
    <2>3. Len(m) = Len(old) + 1 /\ Len(old) \in Nat /\ m \in Seq(Chunks)
      BY <2>1, <2>2
    <2>4. m # <<>>
      BY <2>3
    <2> QED
      BY <2>2, <2>4
  <1>18. Matches(ext, Append(old, c), len + n, after)
    BY <1>12, <1>13, <1>15, <1>16 DEF Matches
  <1>19. /\ AllStored(ext, d.persistency) /\ Len(d.persistency) <= 1 /\ d.persistency = <<>>
    BY <1>7, <1>8, NoContent
  <1>20. d.len \in 0 .. MaxLen /\ Len(Content(ext, d.blocks)) = d.len /\ AllStored(ext, d.blocks)
    BY <1>7, <1>12, <1>13, <1>15
  <1>21. Matches(ext, IF d.blocks = <<>> THEN d.persistency ELSE d.blocks, d.len, after)
    BY <1>7, <1>17, <1>18
  <1>22. DocHolds(ext, d, after)
    BY <1>7, <1>19, <1>20, <1>21 DEF DocHolds
  <1>23. DocIsHeld'
    BY <1>4, <1>6, <1>22 DEF DocIsHeld
  <1> QED
    BY <1>2, <1>3, <1>23, StagedKept, UploadKept, ReaderKept, ContentInvParts

\* The units of the blocks of a list, one after the other.
LEMMA ListContent ==
    ASSUME extents \in Seq(Seq(Seq(Nat))), NEW list, AllStored(extents, list)
    PROVE  FlattenSeq([i \in DOMAIN list |-> ReadExtent(list[i])]) = Content(extents, list)
  <1>1. list \in Seq(Chunks) /\ DOMAIN list = 1 .. Len(list)
    BY DEF AllStored
  <1>2. ASSUME NEW i \in 1 .. Len(list)
        PROVE  ReadExtent(list[i]) = UnitsOf(extents, list[i])
    <2>1. PICK c : c = list[i]
      OBVIOUS
    <2>2. Stored(extents, c)
      BY <2>1 DEF AllStored
    <2>3. PICK r, u : r = ReadExtent(c) /\ u = UnitsOf(extents, c)
      OBVIOUS
    <2>4. r \in Seq(Nat) /\ Len(r) = c.count /\ \A k \in 1 .. c.count : r[k] = UnitAt(extents, c, k)
      BY <2>2, <2>3, ReadExtentReads
    <2>5. u \in Seq(Nat) /\ Len(u) = c.count /\ \A k \in 1 .. c.count : u[k] = UnitAt(extents, c, k)
      BY <2>2, <2>3, StoredUnits
    <2>6. r = u
      BY <2>4, <2>5, SeqEqual
    <2> QED
      BY <2>1, <2>3, <2>6
  <1>3. [i \in DOMAIN list |-> ReadExtent(list[i])] = Pieces(extents, list)
    BY <1>1, <1>2, Zenon DEF Pieces
  <1> QED
    BY <1>3 DEF Content

LEMMA CommitBlockListHolds ==
    ASSUME ContentInv, PagesInv', NEW k \in 0 .. MaxBlocks, NEW list \in [1 .. k -> Blocks],
           CommitBlockList(list)
    PROVE  ContentInv'
  <1>1. UNCHANGED <<store, extents, upload, reader>> /\ staged' = <<>>
    BY DEF CommitBlockList
  <1>2. ExtentsGrow /\ FileShape'
    BY <1>1, NotAppended
  <1>3. StagedHolds'
    BY <1>1, NoContent DEF StagedHolds
  <1>4. /\ DocHolds(extents, doc, bytes) /\ DocShape /\ extents \in Seq(Seq(Seq(Nat)))
        /\ AllStored(extents, staged)
    BY DEF ContentInv, PagesInv
  <1>5. AllStored(extents, doc.blocks) /\ AllStored(extents, doc.persistency) /\ Len(doc.persistency) <= 1
    BY <1>4 DEF DocHolds
  <1>6. \A c \in Blocks : c \in Chunks /\ Stored(extents, c)
    <2>1. \A s : AllStored(extents, s) => \A i \in DOMAIN s : s[i] \in Chunks /\ Stored(extents, s[i])
      BY DEF AllStored
    <2> QED
      BY <1>4, <1>5, <2>1 DEF Blocks
  <1>7. AllStored(extents, list)
    <2>1. k \in Nat /\ \A i \in 1 .. k : list[i] \in Chunks /\ Stored(extents, list[i])
      BY <1>6, BlobContentAssumption
    <2>2. list = [i \in 1 .. k |-> list[i]]
      OBVIOUS
    <2>3. list \in Seq(Chunks) /\ Len(list) = k
      BY <2>1, <2>2
    <2> QED
      BY <2>1, <2>3 DEF AllStored
  <1>8. PICK len, units : /\ len = Total(list)
                          /\ units = FlattenSeq([i \in DOMAIN list |-> ReadExtent(list[i])])
    OBVIOUS
  <1>9. /\ len <= MaxLen
        /\ doc' = [doc EXCEPT !.type = "block", !.len = len, !.md5 = FALSE, !.blocks = list]
        /\ bytes' = [p \in Positions |-> IF p < len THEN units[p + 1] ELSE 0]
    BY <1>8 DEF CommitBlockList, Total
  <1>10. units = Content(extents, list) /\ len = Len(units) /\ units \in Seq(Nat)
    <2>1. units = Content(extents, list)
      BY <1>4, <1>7, <1>8, ListContent
    <2>2. len = Len(Content(extents, list))
      BY <1>4, <1>7, <1>8, TotalIsLength
    <2>3. Content(extents, list) \in Seq(Nat)
      BY <1>4, <1>7, PiecesType
    <2> QED
      BY <2>1, <2>2, <2>3
  <1>11. len \in Nat /\ MaxLen \in Nat
    BY <1>10, Bounds
  <1>12. PICK d, after : d = doc' /\ after = bytes'
    OBVIOUS
  <1>13. d.type = "block" /\ d.len = len /\ d.persistency = doc.persistency /\ d.blocks = list
    BY <1>4, <1>9, <1>12 DEF DocShape
  <1>14. Matches(extents, IF list = <<>> THEN d.persistency ELSE list, len, after)
    <2>1. CASE list = <<>>
      <3>1. len = 0
        BY <1>10, <2>1, NoContent
      <3>2. Content(extents, d.persistency) \in Seq(Nat)
        BY <1>4, <1>5, <1>13, PiecesType
      <3> QED
        BY <2>1, <3>1, <3>2 DEF Matches
    <2>2. CASE list # <<>>
      <3>1. ASSUME NEW j \in 1 .. len
            PROVE  units[j] = after[j - 1]
        <4>1. PICK p : p = j - 1
          OBVIOUS
        <4>2. p \in Positions /\ p < len /\ p + 1 = j
          BY <1>9, <1>11, <4>1 DEF Positions
        <4>3. after[p] = units[p + 1]
          BY <1>9, <1>12, <4>2
        <4> QED
          BY <4>1, <4>2, <4>3
      <3> QED
        BY <1>10, <1>11, <2>2, <3>1 DEF Matches
    <2> QED
      BY <2>1, <2>2
  <1>15. d.len \in 0 .. MaxLen
    BY <1>9, <1>11, <1>13
  <1>16. DocHolds(extents, d, after)
    BY <1>5, <1>7, <1>13, <1>14, <1>15 DEF DocHolds
  <1>17. DocIsHeld'
    BY <1>1, <1>12, <1>16 DEF DocIsHeld
  <1> QED
    BY <1>1, <1>2, <1>3, <1>17, UploadKept, ReaderKept, ContentInvParts

----------------------------------------------------------------------------
(* The steps: empty blobs and pages.                                       *)

LEMMA CreateEmptyHolds ==
    ASSUME ContentInv, PagesInv', NEW type, NEW len \in 0 .. MaxLen, CreateEmpty(type, len),
           type = "page" \/ (type = "append" /\ len = 0)
    PROVE  ContentInv'
  <1>1. UNCHANGED <<store, extents, staged, upload, reader>>
    BY DEF CreateEmpty
  <1>2. ExtentsGrow /\ FileShape'
    BY <1>1, NotAppended
  <1>3. PICK d, after : d = doc' /\ after = bytes'
    OBVIOUS
  <1>4. d.type = type /\ d.len = len /\ d.persistency = <<>> /\ d.blocks = <<>> /\ d.ranges = <<>>
    BY <1>3 DEF CreateEmpty, NoBlob
  <1>5. AllStored(extents, <<>>) /\ Content(extents, <<>>) = <<>> /\ Len(<<>>) = 0
    BY NoContent
  <1>6. RangesHeld(extents, <<>>, after)
    BY DEF RangesHeld
  <1>7. type # "page" => Matches(extents, <<>>, len, after)
    BY <1>5 DEF Matches
  <1>8. DocHolds(extents, d, after)
    BY <1>4, <1>5, <1>6, <1>7 DEF DocHolds
  <1>9. DocIsHeld'
    BY <1>1, <1>3, <1>8 DEF DocIsHeld
  <1> QED
    BY <1>1, <1>2, <1>9, StagedKept, UploadKept, ReaderKept, ContentInvParts

LEMMA PutEmptyBlobHolds ==
    ASSUME ContentInv, PagesInv', PutEmptyBlob
    PROVE  ContentInv'
  <1>1. UNCHANGED <<store, extents, staged, upload, reader>>
    BY DEF PutEmptyBlob
  <1>2. ExtentsGrow /\ FileShape'
    BY <1>1, NotAppended
  <1>3. PICK d, after : d = doc' /\ after = bytes'
    OBVIOUS
  <1>4. d.type = "block" /\ d.len = 0 /\ d.persistency = <<>> /\ d.blocks = <<>> /\ d.ranges = <<>>
    BY <1>3 DEF PutEmptyBlob, NoBlob
  <1>5. AllStored(extents, <<>>) /\ Content(extents, <<>>) = <<>> /\ Len(<<>>) = 0
    BY NoContent
  <1>6. Matches(extents, <<>>, 0, after)
    BY <1>5 DEF Matches
  <1>7. 0 \in 0 .. MaxLen
    BY Bounds
  <1>8. DocHolds(extents, d, after)
    BY <1>4, <1>5, <1>6, <1>7 DEF DocHolds
  <1>9. DocIsHeld'
    BY <1>1, <1>3, <1>8 DEF DocIsHeld
  <1> QED
    BY <1>1, <1>2, <1>9, StagedKept, UploadKept, ReaderKept, ContentInvParts

LEMMA UploadPagesHolds ==
    ASSUME ContentInv, PagesInv', NEW start \in Positions, NEW end \in start .. MaxLen - 1,
           UploadPages(start, end)
    PROVE  ContentInv'
  <1>1. PICK n : n = end - start + 1
    OBVIOUS
  <1>2. n \in Nat \ {0} /\ start \in Nat /\ end \in Int
    BY <1>1, Bounds
  <1>3. /\ AppendExtent(n) /\ UNCHANGED <<store, doc, staged, reader, bytes>>
        /\ upload' = [phase |-> "stored", start |-> start, end |-> end,
                      chunk |-> NewChunk(n), units |-> Payload(n)]
    BY <1>1 DEF UploadPages
  <1>4. /\ ExtentsGrow /\ FileShape' /\ NewChunk(n).count = n
        /\ Stored(extents', NewChunk(n)) /\ UnitsOf(extents', NewChunk(n)) = Payload(n)
    BY <1>2, <1>3, Appended
  <1>5. PICK ext, c, pay, u : ext = extents' /\ c = NewChunk(n) /\ pay = Payload(n) /\ u = upload'
    OBVIOUS
  <1>6. u.start = start /\ u.end = end /\ u.chunk = c /\ u.units = pay
    BY <1>3, <1>5
  <1>7. \A k \in 1 .. c.count : pay[k] = UnitAt(ext, c, k)
    BY <1>4, <1>5, StoredUnits DEF ExtentsGrow
  <1>8. UploadHolds(ext, u)
    BY <1>1, <1>4, <1>5, <1>6, <1>7 DEF UploadHolds
  <1>9. UploadIsHeld'
    BY <1>5, <1>8 DEF UploadIsHeld
  <1> QED
    BY <1>3, <1>4, <1>9, StagedKept, DocKept, ReaderKept, ContentInvParts

\* A merge keeps pieces of the old ranges, where the content stays, around the new one.
LEMMA MergeHeld ==
    ASSUME NEW ext, NEW R, NEW content, PagesTidy(R, content), RangesHeld(ext, R, content),
           NEW a \in Positions, NEW b \in Positions, a <= b, NEW c \in Chunks, NEW after, NEW units,
           Stored(ext, c), c.count = b - a + 1, Len(units) = b - a + 1,
           \A k \in 1 .. c.count : UnitAt(ext, c, k) = units[k],
           \A p \in Positions : after[p] = IF a <= p /\ p < a + Len(units) THEN units[p - a + 1]
                                           ELSE content[p]
    PROVE  RangesHeld(ext, MergeRange(R, a, b, c), after)
  <1>1. PICK l, h, M, r : /\ l = 0 /\ h = MaxLen - 1 /\ M = MergeRange(R, a, b, c)
                          /\ r = PageRange(a, b, c)
    OBVIOUS
  <1>2. /\ a \in Int /\ b \in Int /\ l \in Int /\ h \in Int /\ l <= a /\ b <= h
        /\ Positions = l .. h /\ Tidy(R, l, h)
    BY <1>1, Bounds DEF Positions, PagesTidy
  <1>3. R \in Seq(Ranges) /\ Len(R) <= Infinity /\ Infinity \in Nat
    <2>1. R \in Seq(Ranges) /\ Len(R) \in Nat
      BY <1>2, TidyRange
    <2>2. Tidy(R, 0, MaxLen - 1)
      BY DEF PagesTidy
    <2>3. Len(R) <= MaxLen
      BY <2>2, Bounds, TidyLength
    <2> QED
      BY <2>1, <2>3, Bounds
  <1>4. Merged(M, R, l, h, a, b, c)
    BY <1>1, <1>2, <1>3, MergeRangeCovers
  <1>5. PICK P, Q : /\ M = P \o <<r>> \o Q
                    /\ Tidy(P, l, a - 1) /\ Tidy(Q, b + 1, h)
                    /\ PiecesOf(P, R) /\ PiecesOf(Q, R)
    BY <1>1, <1>4 DEF Merged
  <1>6. RangesHeld(ext, P, after)
    <2>1. PICK e : e = a - 1
      OBVIOUS
    <2>2. e \in Int /\ Tidy(P, l, e)
      BY <1>2, <1>5, <2>1
    <2>3. RangesHeld(ext, P, content)
      BY <1>2, <1>3, <1>5, <2>2, PiecesHeld
    <2>4. \A p \in l .. e : after[p] = content[p]
      <3> SUFFICES ASSUME NEW p \in l .. e
                   PROVE  after[p] = content[p]
        OBVIOUS
      <3>1. p \in Positions /\ ~(a <= p)
        BY <1>2, <2>1
      <3> QED
        BY <3>1
    <2> QED
      BY <1>2, <2>2, <2>3, <2>4, HeldElsewhere
  <1>7. RangesHeld(ext, Q, after)
    <2>1. PICK e : e = b + 1
      OBVIOUS
    <2>2. e \in Int /\ Tidy(Q, e, h)
      BY <1>2, <1>5, <2>1
    <2>3. RangesHeld(ext, Q, content)
      BY <1>2, <1>3, <1>5, <2>2, PiecesHeld
    <2>4. \A p \in e .. h : after[p] = content[p]
      <3> SUFFICES ASSUME NEW p \in e .. h
                   PROVE  after[p] = content[p]
        OBVIOUS
      <3>1. p \in Positions /\ ~(p < a + Len(units))
        BY <1>2, <2>1
      <3> QED
        BY <3>1
    <2> QED
      BY <1>2, <2>2, <2>3, <2>4, HeldElsewhere
  <1>8. r.start = a /\ r.end = b /\ r.persistency = c /\ r \in Ranges
    BY <1>1, <1>2 DEF PageRange, Ranges
  <1>9. RangeHeld(ext, r, after)
    <2>1. ASSUME NEW p \in a .. b
          PROVE  UnitAt(ext, c, p - a + 1) = after[p]
      <3>1. PICK k : k = p - a + 1
        OBVIOUS
      <3>2. k \in 1 .. b - a + 1 /\ p \in Positions /\ a <= p /\ p < a + Len(units)
        BY <1>2, <3>1
      <3>3. after[p] = units[k]
        BY <3>1, <3>2
      <3> QED
        BY <3>1, <3>2, <3>3
    <2> QED
      BY <1>8, <2>1 DEF RangeHeld, Wide
  <1>10. PICK m, n : m = Len(P) /\ n = Len(Q)
    OBVIOUS
  <1>11. P \in Seq(Ranges) /\ Q \in Seq(Ranges) /\ m \in Nat /\ n \in Nat
    <2>1. P \in Seq(Ranges) /\ Q \in Seq(Ranges)
      BY <1>5 DEF Tidy
    <2> QED
      BY <1>10, <2>1
  <1>12. /\ Len(M) = m + 1 + n
         /\ \A i \in 1 .. m : M[i] = P[i]
         /\ M[m + 1] = r
         /\ \A i \in 1 .. n : M[m + 1 + i] = Q[i]
    BY <1>5, <1>8, <1>10, <1>11
  <1> SUFFICES ASSUME NEW i \in 1 .. Len(M)
               PROVE  RangeHeld(ext, M[i], after)
    BY <1>1 DEF RangesHeld
  <1>13. CASE i <= m
    <2>1. i \in 1 .. m
      BY <1>11, <1>13
    <2> QED
      BY <1>6, <1>10, <1>12, <2>1 DEF RangesHeld
  <1>14. CASE i = m + 1
    BY <1>9, <1>12, <1>14
  <1>15. CASE i > m + 1
    <2>1. PICK j : j = i - (m + 1)
      OBVIOUS
    <2>2. j \in 1 .. n /\ m + 1 + j = i
      BY <1>11, <1>12, <1>15, <2>1
    <2>3. M[i] = Q[j]
      BY <1>12, <2>2
    <2> QED
      BY <1>7, <1>10, <2>2, <2>3 DEF RangesHeld
  <1> QED
    BY <1>11, <1>13, <1>14, <1>15

\* What a clear leaves is pieces of the old ranges, where the content stays.
LEMMA ClearHeld ==
    ASSUME NEW ext, NEW R, NEW content, PagesTidy(R, content), RangesHeld(ext, R, content),
           NEW a \in Positions, NEW b \in Int, a <= b, NEW after,
           \A p \in Positions : after[p] = IF a <= p /\ p <= b THEN 0 ELSE content[p]
    PROVE  RangesHeld(ext, ClearRange(R, a, b), after)
  <1>1. PICK l, h, M : l = 0 /\ h = MaxLen - 1 /\ M = ClearRange(R, a, b)
    OBVIOUS
  <1>2. /\ a \in Int /\ l \in Int /\ h \in Int /\ l <= a /\ a <= h
        /\ Positions = l .. h /\ Tidy(R, l, h)
    BY <1>1, Bounds DEF Positions, PagesTidy
  <1>3. R \in Seq(Ranges) /\ Len(R) <= Infinity /\ Infinity \in Nat
    <2>1. R \in Seq(Ranges) /\ Len(R) \in Nat
      BY <1>2, TidyRange
    <2>2. Tidy(R, 0, MaxLen - 1)
      BY DEF PagesTidy
    <2>3. Len(R) <= MaxLen
      BY <2>2, Bounds, TidyLength
    <2> QED
      BY <2>1, <2>3, Bounds
  <1>4. /\ Tidy(M, l, h) /\ PiecesOf(M, R)
        /\ \A p \in Int : InCover(M, p) <=> InCover(R, p) /\ ~(a <= p /\ p <= b)
    BY <1>1, <1>2, <1>3, ClearRangeCovers
  <1>5. RangesHeld(ext, M, content)
    BY <1>2, <1>3, <1>4, PiecesHeld
  <1>6. ASSUME NEW p \in l .. h, InCover(M, p)
        PROVE  after[p] = content[p]
    <2>1. p \in Positions /\ p \in Int
      BY <1>2
    <2>2. ~(a <= p /\ p <= b)
      BY <1>4, <1>6, <2>1
    <2> QED
      BY <2>1, <2>2
  <1> QED
    BY <1>1, <1>2, <1>4, <1>5, <1>6, HeldElsewhere

\* A page blob whose ranges and length change.
LEMMA PageDocHeld ==
    ASSUME ContentInv, doc.type = "page", UNCHANGED extents, NEW len \in 0 .. MaxLen, NEW R,
           doc' = [doc EXCEPT !.len = len, !.ranges = R], RangesHeld(extents, R, bytes')
    PROVE  DocIsHeld'
  <1>1. DocHolds(extents, doc, bytes) /\ DocShape
    BY DEF ContentInv, PagesInv
  <1>2. PICK d, after : d = doc' /\ after = bytes'
    OBVIOUS
  <1>3. /\ d.type = "page" /\ d.len = len /\ d.ranges = R
        /\ d.blocks = doc.blocks /\ d.persistency = doc.persistency
    BY <1>1, <1>2 DEF DocShape
  <1>4. DocHolds(extents, d, after)
    BY <1>1, <1>2, <1>3 DEF DocHolds
  <1> QED
    BY <1>2, <1>4 DEF DocIsHeld

LEMMA MergePagesHolds ==
    ASSUME ContentInv, PagesInv', MergePages
    PROVE  ContentInv'
  <1>1. UNCHANGED <<store, extents, staged, reader>> /\ upload # Idle /\ upload' = Idle
    BY DEF MergePages
  <1>2. ExtentsGrow /\ FileShape' /\ UploadIsHeld'
    BY <1>1, NotAppended DEF UploadIsHeld
  <1>3. CASE doc.type # "page"
    <2>1. UNCHANGED <<doc, bytes>>
      BY <1>3 DEF MergePages
    <2> QED
      BY <1>1, <1>2, <2>1, StagedKept, DocKept, ReaderKept, ContentInvParts
  <1>4. CASE doc.type = "page"
    <2>1. PICK a, b, c, units : /\ a = upload.start /\ b = upload.end
                                /\ c = upload.chunk /\ units = upload.units
      OBVIOUS
    <2>2. PICK R, len, M : R = doc.ranges /\ len = doc.len /\ M = MergeRange(doc.ranges, a, b, c)
      OBVIOUS
    <2>3. /\ doc' = [doc EXCEPT !.ranges = MergeRange(@, a, b, c)]
          /\ bytes' = Written(a, units)
      BY <1>4, <2>1 DEF MergePages
    <2>4. /\ UploadShape /\ UploadHolds(extents, upload) /\ DocShape /\ PagesTidy(R, bytes)
          /\ len \in 0 .. MaxLen /\ DocHolds(extents, doc, bytes)
      BY <1>1, <1>4, <2>2 DEF ContentInv, PagesInv
    <2>5. /\ a \in Positions /\ b \in Positions /\ a <= b /\ c \in Chunks
          /\ Len(units) = b - a + 1 /\ Stored(extents, c) /\ c.count = b - a + 1
          /\ \A k \in 1 .. c.count : UnitAt(extents, c, k) = units[k]
      BY <2>1, <2>4 DEF UploadShape, UploadHolds
    <2>6. RangesHeld(extents, R, bytes)
      BY <1>4, <2>2, <2>4 DEF DocHolds
    <2>7. PICK after : after = bytes'
      OBVIOUS
    <2>8. \A p \in Positions : after[p] = IF a <= p /\ p < a + Len(units) THEN units[p - a + 1]
                                           ELSE bytes[p]
      BY <2>3, <2>7 DEF Written
    <2>9. RangesHeld(extents, MergeRange(R, a, b, c), after)
      BY <2>4, <2>5, <2>6, <2>8, MergeHeld
    <2>10. doc' = [doc EXCEPT !.len = len, !.ranges = M] /\ RangesHeld(extents, M, bytes')
      <3>1. doc' = [doc EXCEPT !.len = len, !.ranges = M]
        BY <2>2, <2>3, <2>4 DEF DocShape
      <3> QED
        BY <2>2, <2>7, <2>9, <3>1
    <2>11. DocIsHeld'
      BY <1>1, <1>4, <2>4, <2>10, PageDocHeld
    <2> QED
      BY <1>1, <1>2, <2>11, StagedKept, ReaderKept, ContentInvParts
  <1> QED
    BY <1>3, <1>4

LEMMA ClearPagesHolds ==
    ASSUME ContentInv, PagesInv', NEW start \in Positions, NEW end \in Ends(start), ClearPages(start, end)
    PROVE  ContentInv'
  <1>1. start \in Nat /\ end \in Int /\ start <= end
    BY Bounds DEF Ends, Infinity
  <1>2. /\ doc.type = "page" /\ UNCHANGED <<store, extents, staged, upload, reader>>
        /\ doc' = [doc EXCEPT !.ranges = ClearRange(@, start, end)]
        /\ bytes' = [p \in Positions |-> IF start <= p /\ p <= end THEN 0 ELSE bytes[p]]
    BY DEF ClearPages
  <1>3. ExtentsGrow /\ FileShape'
    BY <1>2, NotAppended
  <1>4. PICK R, len, M, after : /\ R = doc.ranges /\ len = doc.len
                                /\ M = ClearRange(doc.ranges, start, end) /\ after = bytes'
    OBVIOUS
  <1>5. /\ DocShape /\ PagesTidy(R, bytes) /\ len \in 0 .. MaxLen /\ RangesHeld(extents, R, bytes)
    BY <1>2, <1>4 DEF ContentInv, PagesInv, DocHolds
  <1>6. \A p \in Positions : after[p] = IF start <= p /\ p <= end THEN 0 ELSE bytes[p]
    BY <1>2, <1>4
  <1>7. RangesHeld(extents, ClearRange(R, start, end), after)
    BY <1>1, <1>5, <1>6, ClearHeld
  <1>8. doc' = [doc EXCEPT !.len = len, !.ranges = M]
    BY <1>2, <1>4, <1>5 DEF DocShape
  <1>9. DocIsHeld'
    BY <1>2, <1>4, <1>5, <1>7, <1>8, PageDocHeld
  <1> QED
    BY <1>2, <1>3, <1>9, StagedKept, UploadKept, ReaderKept, ContentInvParts

LEMMA ResizeHolds ==
    ASSUME ContentInv, PagesInv', NEW len \in 0 .. MaxLen, Resize(len)
    PROVE  ContentInv'
  <1>1. PICK old, R, M, after :
            /\ old = doc.len /\ R = doc.ranges /\ after = bytes'
            /\ M = IF doc.len > len THEN ClearRange(doc.ranges, len, doc.len - 1) ELSE doc.ranges
    OBVIOUS
  <1>2. /\ doc.type = "page" /\ UNCHANGED <<store, extents, staged, upload, reader>>
        /\ doc' = [doc EXCEPT !.len = len,
                              !.ranges = IF doc.len > len THEN ClearRange(@, len, doc.len - 1) ELSE @]
        /\ bytes' = [p \in Positions |-> IF len <= p /\ p < doc.len THEN 0 ELSE bytes[p]]
    BY DEF Resize
  <1>3. ExtentsGrow /\ FileShape'
    BY <1>2, NotAppended
  <1>4. /\ DocShape /\ PagesTidy(R, bytes) /\ old \in 0 .. MaxLen /\ RangesHeld(extents, R, bytes)
    BY <1>1, <1>2 DEF ContentInv, PagesInv, DocHolds
  <1>5. doc' = [doc EXCEPT !.len = len, !.ranges = M]
    BY <1>1, <1>2, <1>4 DEF DocShape
  <1>6. \A p \in Positions : after[p] = IF len <= p /\ p < old THEN 0 ELSE bytes[p]
    BY <1>1, <1>2
  <1>7. RangesHeld(extents, M, after)
    <2>1. MaxLen \in Nat
      BY Bounds
    <2>2. CASE old > len
      <3>1. PICK e : e = old - 1
        OBVIOUS
      <3>2. len \in Positions /\ e \in Int /\ len <= e
        BY <1>4, <2>1, <2>2, <3>1 DEF Positions
      <3>3. \A p \in Positions : after[p] = IF len <= p /\ p <= e THEN 0 ELSE bytes[p]
        <4>1. \A p \in Positions : p < old <=> p <= e
          BY <1>4, <3>1, Bounds
        <4> QED
          BY <1>6, <4>1
      <3>4. RangesHeld(extents, ClearRange(R, len, e), after)
        BY <1>4, <3>2, <3>3, ClearHeld
      <3> QED
        BY <1>1, <2>2, <3>1, <3>4
    <2>3. CASE ~(old > len)
      <3>1. \A p \in Positions : ~(len <= p /\ p < old)
        BY <1>4, <2>1, <2>3, Bounds
      <3>2. \A p \in Positions : after[p] = bytes[p]
        BY <1>6, <3>1
      <3>3. PICK l, h : l = 0 /\ h = MaxLen - 1
        OBVIOUS
      <3>4. l \in Int /\ h \in Int /\ Tidy(R, l, h) /\ Positions = l .. h
        BY <1>4, <2>1, <3>3 DEF PagesTidy, Positions
      <3>5. \A p \in l .. h : InCover(R, p) => after[p] = bytes[p]
        BY <3>2, <3>4
      <3>6. RangesHeld(extents, R, after)
        BY <1>4, <3>4, <3>5, HeldElsewhere
      <3> QED
        BY <1>1, <2>3, <3>6
    <2> QED
      BY <2>2, <2>3
  <1>8. DocIsHeld'
    BY <1>1, <1>2, <1>5, <1>7, PageDocHeld
  <1> QED
    BY <1>2, <1>3, <1>8, StagedKept, UploadKept, ReaderKept, ContentInvParts

----------------------------------------------------------------------------
(* The steps: downloads.                                                   *)

LEMMA DownloadHolds ==
    ASSUME ContentInv, PagesInv', NEW range \in Asked, Download(range[1], range[2])
    PROVE  ContentInv'
  <1>1. PICK start, end, last, len : /\ start = range[1] /\ end = range[2]
                                     /\ last = RangeEnd(doc, range[2]) /\ len = doc.len
    OBVIOUS
  <1>2. start \in Nat /\ end \in Nat /\ start <= end
    <2>1. range \in Nat \X Nat /\ range[1] <= range[2]
      BY BlobContentAssumption
    <2> QED
      BY <1>1, <2>1
  <1>3. PICK then : then = [p \in 1 .. last - start + 1 |-> bytes[start + p - 1]]
    OBVIOUS
  <1>4. PICK getter : getter = BodyGetter(doc, start, last)
    OBVIOUS
  <1>5. /\ start <= len /\ UNCHANGED <<store, extents, doc, staged, upload, bytes>>
        /\ reader' = [phase |-> "hash", start |-> start, end |-> last,
                      hash |-> last - start + 1 # doc.len \/ ~doc.md5,
                      body |-> <<>>, getter |-> getter, then |-> then]
    <2>1. CASE DownloadPageBlob(start, end)
      <3>1. /\ doc.type = "page" /\ RangeAllowed(doc, start, end)
            /\ StartDownload(start, last, PageBodyGetter(doc, start, last))
        BY <1>1, <2>1 DEF DownloadPageBlob
      <3>2. getter = PageBodyGetter(doc, start, last)
        BY <1>4, <3>1 DEF BodyGetter
      <3> QED
        BY <1>1, <1>3, <3>1, <3>2 DEF RangeAllowed, StartDownload
    <2>2. CASE DownloadBlockBlobOrAppendBlob(start, end)
      <3>1. /\ doc.type # "page" /\ RangeAllowed(doc, start, end)
            /\ StartDownload(start, last, BlockBodyGetter(doc, start, last))
        BY <1>1, <2>2 DEF DownloadBlockBlobOrAppendBlob
      <3>2. getter = BlockBodyGetter(doc, start, last)
        BY <1>4, <3>1 DEF BodyGetter
      <3> QED
        BY <1>1, <1>3, <3>1, <3>2 DEF RangeAllowed, StartDownload
    <2> QED
      BY <1>1, <2>1, <2>2 DEF Download
  <1>6. /\ DocHolds(extents, doc, bytes) /\ (doc.type = "page" => PagesTidy(doc.ranges, bytes))
        /\ len \in Nat /\ extents \in Seq(Seq(Seq(Nat)))
    BY <1>1 DEF ContentInv, PagesInv, DocHolds
  <1>7. last \in Int /\ start <= last + 1 /\ last + 1 <= len
    <2>1. last = IF end + 1 >= len THEN len - 1 ELSE end
      BY <1>1 DEF RangeEnd
    <2> QED
      BY <1>2, <1>5, <1>6, <2>1
  <1>8. GetterHolds(extents, getter, then)
    <2>1. last + 1 <= doc.len
      BY <1>1, <1>7
    <2> QED
      BY <1>2, <1>3, <1>4, <1>6, <1>7, <2>1, DocGetter
  <1>9. ExtentsGrow /\ FileShape'
    BY <1>5, NotAppended
  <1>10. PICK r : r = reader'
    OBVIOUS
  <1>11. /\ r = [phase |-> r.phase, start |-> r.start, end |-> r.end, hash |-> r.hash,
                 body |-> r.body, getter |-> r.getter, then |-> r.then]
         /\ r.phase = "hash" /\ r.getter = getter /\ r.then = then
    BY <1>5, <1>10
  <1>12. ReaderIsHeld'
    BY <1>5, <1>8, <1>10, <1>11 DEF ReaderIsHeld, ReaderHolds, ReaderShape
  <1> QED
    BY <1>5, <1>9, <1>12, StagedKept, DocKept, UploadKept, ContentInvParts

LEMMA ReadHashHolds ==
    ASSUME ContentInv, PagesInv', ReadHash
    PROVE  ContentInv'
  <1>1. /\ reader.phase = "hash" /\ UNCHANGED <<store, extents, doc, staged, upload, bytes>>
        /\ reader' = [reader EXCEPT !.phase = IF reader.hash THEN "body" ELSE "answer",
                                    !.body = Body(reader.getter)]
    BY DEF ReadHash
  <1>2. reader # Idle
    BY <1>1 DEF Idle
  <1>3. ReaderShape /\ GetterHolds(extents, reader.getter, reader.then) /\ extents \in Seq(Seq(Seq(Nat)))
    BY <1>2 DEF ContentInv, PagesInv, ReaderHolds
  <1>4. Body(reader.getter) = reader.then
    BY <1>3, BodyReads
  <1>5. PICK r, phase : r = reader' /\ phase = IF reader.hash THEN "body" ELSE "answer"
    OBVIOUS
  <1>6. phase \in {"body", "answer"}
    BY <1>5
  <1>7. /\ r = [phase |-> r.phase, start |-> r.start, end |-> r.end, hash |-> r.hash,
                body |-> r.body, getter |-> r.getter, then |-> r.then]
        /\ r.phase = phase /\ r.getter = reader.getter /\ r.then = reader.then /\ r.body = reader.then
    BY <1>1, <1>3, <1>4, <1>5 DEF ReaderShape
  <1>8. ReaderIsHeld'
    BY <1>1, <1>3, <1>5, <1>6, <1>7 DEF ReaderIsHeld, ReaderHolds, ReaderShape
  <1>9. ExtentsGrow /\ FileShape'
    BY <1>1, NotAppended
  <1> QED
    BY <1>1, <1>8, <1>9, StagedKept, DocKept, UploadKept, ContentInvParts

LEMMA ReadBodyHolds ==
    ASSUME ContentInv, PagesInv', ReadBody
    PROVE  ContentInv'
  <1>1. /\ reader.phase = "body" /\ UNCHANGED <<store, extents, doc, staged, upload, bytes>>
        /\ reader' = [reader EXCEPT !.phase = IF Body(reader.getter) = reader.body THEN "answer" ELSE "mixed",
                                    !.body = Body(reader.getter)]
    BY DEF ReadBody
  <1>2. reader # Idle
    BY <1>1 DEF Idle
  <1>3. /\ ReaderShape /\ GetterHolds(extents, reader.getter, reader.then)
        /\ extents \in Seq(Seq(Seq(Nat))) /\ reader.body = reader.then
    BY <1>1, <1>2 DEF ContentInv, PagesInv, ReaderHolds
  <1>4. Body(reader.getter) = reader.then
    BY <1>3, BodyReads
  <1>5. PICK r : r = reader'
    OBVIOUS
  <1>6. reader' = [reader EXCEPT !.phase = "answer", !.body = reader.then]
    BY <1>1, <1>3, <1>4
  <1>7. /\ r = [phase |-> r.phase, start |-> r.start, end |-> r.end, hash |-> r.hash,
                body |-> r.body, getter |-> r.getter, then |-> r.then]
        /\ r.phase = "answer" /\ r.getter = reader.getter /\ r.then = reader.then /\ r.body = reader.then
    BY <1>3, <1>5, <1>6 DEF ReaderShape
  <1>8. ReaderIsHeld'
    BY <1>1, <1>3, <1>5, <1>7 DEF ReaderIsHeld, ReaderHolds, ReaderShape
  <1>9. ExtentsGrow /\ FileShape'
    BY <1>1, NotAppended
  <1> QED
    BY <1>1, <1>8, <1>9, StagedKept, DocKept, UploadKept, ContentInvParts

LEMMA AnswerDownloadHolds ==
    ASSUME ContentInv, PagesInv', AnswerDownload
    PROVE  ContentInv'
  <1>1. UNCHANGED <<store, extents, doc, staged, upload, bytes>> /\ reader' = Idle
    BY DEF AnswerDownload
  <1>2. ExtentsGrow /\ FileShape' /\ ReaderIsHeld'
    BY <1>1, NotAppended DEF ReaderIsHeld
  <1> QED
    BY <1>1, <1>2, StagedKept, DocKept, UploadKept, ContentInvParts

----------------------------------------------------------------------------
(* The theorems.                                                           *)

LEMMA ContentInvInit ==
    ContentInit => ContentInv
  <1> SUFFICES ASSUME ContentInit
               PROVE  ContentInv
    OBVIOUS
  <1>1. PagesInv
    BY ContentInitInv
  <1>2. /\ extents = <<>> /\ staged = <<>> /\ upload = Idle /\ reader = Idle
        /\ doc.type = "none" /\ doc.len = 0 /\ doc.blocks = <<>> /\ doc.persistency = <<>>
    BY DEF ContentInit, NoBlob
  <1>3. AllStored(extents, <<>>) /\ Content(extents, <<>>) = <<>> /\ Len(<<>>) = 0
    BY NoContent
  <1>4. Matches(extents, <<>>, 0, bytes)
    BY <1>3 DEF Matches
  <1>5. 0 \in 0 .. MaxLen
    BY Bounds
  <1>6. DocHolds(extents, doc, bytes)
    BY <1>2, <1>3, <1>4, <1>5 DEF DocHolds
  <1> QED
    BY <1>1, <1>2, <1>3, <1>6 DEF ContentInv

LEMMA ContentInvStep ==
    ContentInv /\ [ContentNext]_contentVars => ContentInv'
  <1> SUFFICES ASSUME ContentInv, [ContentNext]_contentVars
               PROVE  ContentInv'
    OBVIOUS
  <1>0. PagesInv'
    BY ContentStep DEF ContentInv
  <1>1. CASE UNCHANGED contentVars
    <2>1. UNCHANGED <<store, extents, doc, staged, upload, reader, bytes>>
      BY <1>1 DEF contentVars
    <2>2. ExtentsGrow /\ FileShape'
      BY <2>1, NotAppended
    <2> QED
      BY <1>0, <2>1, <2>2, StagedKept, DocKept, UploadKept, ReaderKept, ContentInvParts
  <1>2. ASSUME NEW n \in 1 .. MaxLen, PutBlob(n) \/ StageBlock(n) \/ AppendBlock(n)
        PROVE  ContentInv'
    BY <1>0, <1>2, PutBlobHolds, StageBlockHolds, AppendBlockHolds
  <1>3. ASSUME NEW k \in 0 .. MaxBlocks, NEW list \in [1 .. k -> Blocks], CommitBlockList(list)
        PROVE  ContentInv'
    BY <1>0, <1>3, CommitBlockListHolds
  <1>4. CASE CreateEmpty("append", 0)
    <2>1. 0 \in 0 .. MaxLen
      BY Bounds
    <2> QED
      BY <1>0, <1>4, <2>1, CreateEmptyHolds
  <1>11. CASE PutEmptyBlob
    BY <1>0, <1>11, PutEmptyBlobHolds
  <1>5. ASSUME NEW len \in 0 .. MaxLen, CreateEmpty("page", len) \/ Resize(len)
        PROVE  ContentInv'
    BY <1>0, <1>5, CreateEmptyHolds, ResizeHolds
  <1>6. ASSUME NEW start \in Positions, NEW end \in start .. MaxLen - 1, UploadPages(start, end)
        PROVE  ContentInv'
    BY <1>0, <1>6, UploadPagesHolds
  <1>7. CASE MergePages
    BY <1>0, <1>7, MergePagesHolds
  <1>8. ASSUME NEW start \in Positions, NEW end \in Ends(start), ClearPages(start, end)
        PROVE  ContentInv'
    BY <1>0, <1>8, ClearPagesHolds
  <1>9. ASSUME NEW range \in Asked, Download(range[1], range[2])
        PROVE  ContentInv'
    BY <1>0, <1>9, DownloadHolds
  <1>10. CASE ReadHash \/ ReadBody \/ AnswerDownload
    BY <1>0, <1>10, ReadHashHolds, ReadBodyHolds, AnswerDownloadHolds
  <1> QED
    BY <1>1, <1>2, <1>3, <1>4, <1>5, <1>6, <1>7, <1>8, <1>9, <1>10, <1>11 DEF ContentNext

LEMMA ContentInvReads ==
    ContentInv => ContentIsLastWrites
  <1> SUFFICES ASSUME ContentInv, NEW start \in 0 .. doc.len - 1, NEW end \in start .. doc.len - 1
               PROVE  Body(BodyGetter(doc, start, end))
                          = [p \in 1 .. end - start + 1 |-> bytes[start + p - 1]]
    BY DEF ContentIsLastWrites
  <1>1. /\ DocHolds(extents, doc, bytes) /\ (doc.type = "page" => PagesTidy(doc.ranges, bytes))
        /\ extents \in Seq(Seq(Seq(Nat))) /\ doc.len \in Nat
    BY DEF ContentInv, PagesInv, DocHolds
  <1>2. start \in Nat /\ end \in Int /\ start <= end + 1 /\ end + 1 <= doc.len
    BY <1>1
  <1>3. PICK g, then : /\ g = BodyGetter(doc, start, end)
                       /\ then = [p \in 1 .. end - start + 1 |-> bytes[start + p - 1]]
    OBVIOUS
  <1>4. GetterHolds(extents, g, then)
    BY <1>1, <1>2, <1>3, DocGetter
  <1>5. Body(g) = then
    BY <1>1, <1>4, BodyReads
  <1> QED
    BY <1>3, <1>5

LEMMA ContentInvAnswers ==
    ContentInv => DownloadIsOneVersion
  <1> SUFFICES ASSUME ContentInv, reader.phase \in {"answer", "mixed"}
               PROVE  reader.phase = "answer" /\ reader.body = reader.then
    BY DEF DownloadIsOneVersion
  <1>1. reader # Idle
    BY DEF Idle
  <1> QED
    BY <1>1 DEF ContentInv, ReaderHolds

\* In every reachable state a range of the blob reads as the units last written
\* to its positions: what mergeRange(), clearRange(), resizePageBlob(),
\* commitBlockList() and appendBlock() made of the document, readExtents() of
\* either store reads back.
THEOREM ContentWrittenLast ==
    ContentSpec => []ContentIsLastWrites
  <1> QED
    BY ContentInvInit, ContentInvStep, ContentInvReads, PTL DEF ContentSpec

\* A download answers with the content that the blob had when downloadBlob()
\* read the document, and reads it twice the same, whatever is written to the
\* document, or takes its place, before bodyGetter() reads the extents.
THEOREM DownloadAnswersOneVersion ==
    ContentSpec => []DownloadIsOneVersion
  <1> QED
    BY ContentInvInit, ContentInvStep, ContentInvAnswers, PTL DEF ContentSpec

=============================================================================
