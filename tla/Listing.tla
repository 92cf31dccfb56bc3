------------------------------ MODULE Listing ------------------------------
(* Listing what a store holds, page by page, while other requests create   *)
(* and delete: containers, blobs (flat, by hierarchy, by tags), queues,    *)
(* tables and entities.  A client asks for a page, gets items and a marker *)
(* and asks on with the marker until there is none.                        *)
(*                                                                         *)
(* The items are those the query's account, container, prefix and include  *)
(* parameters select; an item outside of them is as good as absent.  Names *)
(* are numbers in the order of the strings they stand for; 0 is the empty  *)
(* string, the marker of the first request and of the last answer.         *)
EXTENDS Integers, SequencesExt

CONSTANTS
    Items,
    Name,          \* the name of an item; snapshots share one
    Key,           \* <<PartitionKey, RowKey>>, if it is an entity
    Foldings,      \* item |-> its BlobPrefix under a delimiter, 0 without one
    Wheres,        \* the sets of items that conditions on tags select
    Listers,       \* the listings that clients ask for
    Limit,         \* the largest page, 5000 (tables: 1000) in the code
    Isolated,      \* the SQL reads of a transaction see one snapshot
    InOrder,       \* TRUE: queues are created in the order of their names
    AllMatch,      \* TRUE: the tags of all blobs match, in the Loki store
    MaxIds,        \* bound on $loki
    Unlimited      \* no maxresults parameter

ASSUME ItemsAssumption ==
    /\ IsFiniteSet(Items) /\ Items \subseteq Int
    /\ Name \in [Items -> Nat \ {0}]
    /\ Key \in [Items -> (Nat \ {0}) \X Nat]
    /\ Foldings \subseteq [Items -> Nat]
    /\ Wheres \subseteq SUBSET Items
ASSUME LimitAssumption == Limit \in Nat \ {0} /\ MaxIds \in Nat

VARIABLES
    ids,           \* item |-> its $loki, 0 if there is no such item
    created,       \* the last $loki
    scan,          \* what the client asks for and has been told
    page           \* the page that a request is filling, or NoPage

vars == <<ids, created, scan, page>>

Present == {i \in Items : ids[i] > 0}
Flat == [i \in Items |-> 0]

\* Documents sorted by name or by key; equal ones keep some order.
SortedBy(docs, Precedes(_, _)) ==
    [k \in 1..Cardinality(docs) |->
        CHOOSE i \in docs : Cardinality({j \in docs : Precedes(j, i)}) = k - 1]
NameBefore(i, j) == Name[i] < Name[j] \/ (Name[i] = Name[j] /\ i < j)
KeyBefore(i, j) ==
    \/ Key[i][1] < Key[j][1]
    \/ Key[i][1] = Key[j][1] /\ Key[i][2] < Key[j][2]
Sorted(docs) == SortedBy(docs, NameBefore)
SortedByKey(docs) == SortedBy(docs, KeyBefore)
LimitTo(docs, n) == SubSeq(docs, 1, IF n < Len(docs) THEN n ELSE Len(docs))

----------------------------------------------------------------------------
(***************************************************************************)
(* The listings that read once.  Each reads one document more than asked   *)
(* for: a store of names continues behind the last item it returned, a     *)
(* store of tables or entities at the first it did not return.             *)
(***************************************************************************)
ListContainers(marker, max) ==
    LET docs == LimitTo(Sorted({i \in Present : Name[i] > marker}), max + 1)
    IN  IF Len(docs) <= max THEN [items |-> docs, marker |-> 0]
        ELSE [items |-> Front(docs), marker |-> Name[docs[Len(docs) - 1]]]

\* Without a marker the SQL query has no condition on the name.
SqlListContainers(marker, max) ==
    LET where == {i \in Present : marker # 0 => Name[i] > marker}
        docs == LimitTo(Sorted(where), max + 1)
    IN  IF Len(docs) <= max THEN [items |-> docs, marker |-> 0]
        ELSE [items |-> Front(docs), marker |-> Name[docs[Len(docs) - 1]]]

\* Queues are sorted by name but the marker is a $loki.
ListQueues(marker, max) ==
    LET docs == LimitTo(Sorted({i \in Present : ids[i] > marker}), max + 1)
    IN  IF Len(docs) <= max THEN [items |-> docs, marker |-> 0]
        ELSE [items |-> Front(docs), marker |-> ids[Last(docs)] - 1]

\* Faulty variant: the marker is the last table that was returned.
QueryTableFromLast(marker, max) ==
    LET docs == LimitTo(Sorted({i \in Present : Name[i] >= marker}), max + 1)
    IN  IF Len(docs) <= max THEN [items |-> docs, marker |-> 0]
        ELSE [items |-> Front(docs), marker |-> Name[docs[Len(docs) - 1]]]

QueryTable(marker, max) ==
    LET docs == LimitTo(Sorted({i \in Present : Name[i] >= marker}), max + 1)
    IN  IF Len(docs) <= max THEN [items |-> docs, marker |-> 0]
        ELSE [items |-> Front(docs), marker |-> Name[Last(docs)]]

\* The marker of entities is a key, NextPartitionKey and NextRowKey.
QueryTableEntities(nextPartitionKey, nextRowKey, max) ==
    LET docs == LimitTo(
                    SortedByKey({i \in Present :
                        \/ Key[i][1] > nextPartitionKey
                        \/ /\ Key[i][1] = nextPartitionKey
                           /\ Key[i][2] >= nextRowKey}),
                    max + 1)
    IN  IF Len(docs) <= max
        THEN [items |-> docs, marker |-> 0, rowMarker |-> 0]
        ELSE [items |-> Front(docs), marker |-> Key[Last(docs)][1],
              rowMarker |-> Key[Last(docs)][2]]

----------------------------------------------------------------------------
(***************************************************************************)
(* PageWithDelimiter and FilterBlobPage: a page that is filled by several  *)
(* reads.  isFull: only a BlobPrefix it has can be added; isExhausted:     *)
(* nothing can.                                                            *)
(***************************************************************************)
EmptyPage(view) ==
    [blobItems |-> <<>>, blobPrefixes |-> {}, latestMarker |-> 0,
     isFull |-> FALSE, isExhausted |-> FALSE, offset |-> 0, added |-> 0,
     view |-> view]
NoPage == EmptyPage({})

updateFull(p, max) ==
    [p EXCEPT !.isFull = Len(p.blobItems) + Cardinality(p.blobPrefixes) = max]

addItem(p, i, max) ==
    LET q == updateFull(IF p.isFull THEN p
                        ELSE [p EXCEPT !.blobItems = Append(@, i),
                                       !.added = @ + 1,
                                       !.latestMarker = Name[i]], max)
    IN  [q EXCEPT !.isExhausted = q.isFull]

addPrefix(p, i, prefix, max) ==
    IF p.isFull /\ prefix \notin p.blobPrefixes
    THEN [p EXCEPT !.isExhausted = TRUE]
    ELSE updateFull([p EXCEPT !.blobPrefixes = @ \cup {prefix},
                              !.added = @ + 1,
                              !.latestMarker = Name[i]], max)

\* Faulty variant: the marker moves past an item that was not added.
addAlwaysMarks(p, i) ==
    IF p.isExhausted THEN p
    ELSE IF scan.folding[i] = 0
    THEN [addItem(p, i, scan.max) EXCEPT !.latestMarker = Name[i]]
    ELSE [addPrefix(p, i, scan.folding[i], scan.max)
             EXCEPT !.latestMarker = Name[i]]

add(p, i) ==
    IF p.isExhausted THEN p
    ELSE IF scan.folding[i] = 0 THEN addItem(p, i, scan.max)
    ELSE addPrefix(p, i, scan.folding[i], scan.max)

\* FilterBlobPage knows no delimiter.
addFiltered(p, i) == IF p.isExhausted THEN p ELSE addItem(p, i, scan.max)

processList(p, docs) ==
    LET q == [p EXCEPT !.added = 0]
    IN  IF scan.lister \in {"blobs", "sqlBlobs"} THEN FoldLeft(add, q, docs)
        ELSE FoldLeft(addFiltered, q, docs)

\* readPage of the four listings: by name behind the marker, as many as
\* asked for, from an offset.  The Loki store drops blobs whose tags do not
\* match after that limit, the SQL store drops them from the filled page.
FromOffset(docs, offset) ==
    LimitTo(SubSeq(docs, offset + 1, Len(docs)), scan.max)

ListBlobs(view, offset) ==
    FromOffset(Sorted({i \in view : Name[i] > scan.marker}), offset)

FilterBlobs(view, offset) ==
    Sorted(scan.where \cap
           Range(FromOffset(Sorted({i \in view : Name[i] > scan.marker}), offset)))

SqlListBlobs(view, offset) ==
    FromOffset(Sorted({i \in view : scan.marker # 0 => Name[i] > scan.marker}),
               offset)

SqlFilterBlobs(view, offset) ==
    FromOffset(Sorted({i \in view : scan.marker # 0 => Name[i] > scan.marker}),
               offset)

readPage(view, offset) ==
    CASE scan.lister = "blobs" -> ListBlobs(view, offset)
      [] scan.lister = "filterBlobs" -> FilterBlobs(view, offset)
      [] scan.lister = "sqlBlobs" -> SqlListBlobs(view, offset)
      [] OTHER -> SqlFilterBlobs(view, offset)

----------------------------------------------------------------------------
(***************************************************************************)
(* The handlers.                                                           *)
(***************************************************************************)
\* What the client keeps of an answer; the count of an item is capped.
Answer(items, prefixes, marker, rowMarker) ==
    /\ scan' = [scan EXCEPT
          !.listed = [i \in Items |->
              IF i \notin items THEN @[i]
              ELSE IF @[i] < 2 THEN @[i] + 1 ELSE 2],
          !.prefixes = @ \cup prefixes,
          !.marker = marker,
          !.rowMarker = rowMarker,
          !.state = IF marker = 0 THEN "done" ELSE "ask"]
    /\ UNCHANGED <<ids, created>>

\* maxresults of the four services.
ContainerResults(asked) == IF asked = Unlimited THEN Limit ELSE asked
BlobResults(asked) == IF asked = Unlimited \/ asked > Limit THEN Limit
                      ELSE asked
QueueResults(asked) == IF asked = Unlimited THEN Limit ELSE asked
QueueResultsInRange(asked) == asked = Unlimited \/ asked <= Limit
TableResults(asked) == IF asked = Unlimited THEN Limit ELSE asked
EntityResults(asked) == IF asked = Unlimited \/ asked > Limit THEN Limit
                        ELSE asked

ListContainersSegment ==
    /\ scan.state = "ask"
    /\ LET max == ContainerResults(scan.asked)
       IN  \/ /\ scan.lister = "containers"
              /\ LET r == ListContainers(scan.marker, max)
                 IN  Answer(Range(r.items), {}, r.marker, 0)
           \/ /\ scan.lister = "sqlContainers"
              /\ LET r == SqlListContainers(scan.marker, max)
                 IN  Answer(Range(r.items), {}, r.marker, 0)
    /\ UNCHANGED page

ListQueuesSegment ==
    /\ scan.state = "ask"
    /\ scan.lister = "queues"
    /\ IF QueueResultsInRange(scan.asked)
       THEN LET r == ListQueues(scan.marker, QueueResults(scan.asked))
            IN  Answer(Range(r.items), {}, r.marker, 0)
       ELSE /\ scan' = [scan EXCEPT !.state = "refused"]
            /\ UNCHANGED <<ids, created>>
    /\ UNCHANGED page

QueryTables ==
    /\ scan.state = "ask"
    /\ scan.lister = "tables"
    /\ LET r == QueryTable(scan.marker, TableResults(scan.asked))
       IN  Answer(Range(r.items), {}, r.marker, 0)
    /\ UNCHANGED page

QueryEntities ==
    /\ scan.state = "ask"
    /\ scan.lister = "entities"
    /\ LET r == QueryTableEntities(scan.marker, scan.rowMarker,
                                   EntityResults(scan.asked))
       IN  Answer(Range(r.items), {}, r.marker, r.rowMarker)
    /\ UNCHANGED page

StartPage ==
    /\ scan' = [scan EXCEPT !.state = "read", !.max = BlobResults(scan.asked)]
    /\ page' = EmptyPage(Present)
    /\ UNCHANGED <<ids, created>>

ListBlobFlatSegment ==
    /\ scan.state = "ask"
    /\ scan.lister \in {"blobs", "sqlBlobs"}
    /\ scan.folding = Flat
    /\ StartPage

ListBlobHierarchySegment ==
    /\ scan.state = "ask"
    /\ scan.lister \in {"blobs", "sqlBlobs"}
    /\ scan.folding # Flat
    /\ StartPage

FilterBlobsSegment ==
    /\ scan.state = "ask"
    /\ scan.lister \in {"filterBlobs", "sqlFilterBlobs"}
    /\ StartPage

\* One round of fill().  In the Loki store no other request runs between
\* two rounds; what a SQL transaction sees there is up to its isolation.
Fill ==
    /\ scan.state = "read"
    /\ LET view == IF scan.lister \in {"sqlBlobs", "sqlFilterBlobs"}
                      /\ ~Isolated THEN Present ELSE page.view
           docs == readPage(view, page.offset)
           p == processList(page, docs)
           unsorted == /\ ~page.isExhausted
                       /\ docs # <<>>
                       /\ Name[Head(docs)] < page.latestMarker
           items == IF scan.lister = "sqlFilterBlobs"
                    THEN Range(p.blobItems) \cap scan.where
                    ELSE Range(p.blobItems)
       IN  IF unsorted
           THEN /\ scan' = [scan EXCEPT !.state = "refused"]
                /\ page' = NoPage
                /\ UNCHANGED <<ids, created>>
           ELSE IF docs = <<>> \/ p.added < scan.max
           THEN /\ Answer(items, p.blobPrefixes,
                          IF docs # <<>> /\ p.added < Len(docs)
                          THEN p.latestMarker ELSE 0, 0)
                /\ page' = NoPage
           ELSE /\ page' = [p EXCEPT !.offset = @ + p.added]
                /\ UNCHANGED <<ids, created, scan>>

----------------------------------------------------------------------------
(***************************************************************************)
(* Other requests, and the client.                                         *)
(***************************************************************************)
\* Only the listing of queues looks at $loki: elsewhere it is 1.
CreateItem(i) ==
    /\ ids[i] = 0
    /\ created < MaxIds
    /\ scan.lister = "queues" /\ InOrder => \A j \in Present : NameBefore(j, i)
    /\ created' = IF scan.lister = "queues" THEN created + 1 ELSE created
    /\ ids' = [ids EXCEPT ![i] =
                  IF scan.lister = "queues" THEN created' ELSE 1]
    /\ UNCHANGED <<scan, page>>

DeleteItem(i) ==
    /\ ids[i] > 0
    /\ ids' = [ids EXCEPT ![i] = 0]
    /\ scan' = [scan EXCEPT !.throughout = @ \ {i}]
    /\ UNCHANGED <<created, page>>

Scan(lister, asked, folding, where) ==
    [state |-> "none", lister |-> lister, asked |-> asked, max |-> Limit,
     folding |-> folding, where |-> where, marker |-> 0, rowMarker |-> 0,
     listed |-> [i \in Items |-> 0], prefixes |-> {}, throughout |-> {}]

StartScan ==
    /\ scan.state = "none"
    /\ scan' = [scan EXCEPT !.state = "ask", !.throughout = Present]
    /\ UNCHANGED <<ids, created, page>>

Init ==
    /\ ids = [i \in Items |-> 0]
    /\ created = 0
    /\ \E l \in Listers, n \in {Unlimited} \cup 1..(Limit + 1) :
         \E f \in Foldings, w \in Wheres :
            /\ f # Flat => l \in {"blobs", "sqlBlobs"}
            /\ w # Items => \/ l = "sqlFilterBlobs"
                            \/ l = "filterBlobs" /\ ~AllMatch
            /\ scan = Scan(l, n, f, w)
    /\ page = NoPage

Serve ==
    \/ ListContainersSegment \/ ListQueuesSegment \/ QueryTables
    \/ QueryEntities \/ ListBlobFlatSegment \/ ListBlobHierarchySegment
    \/ FilterBlobsSegment \/ Fill

Next ==
    \/ StartScan
    \/ Serve
    \/ \E i \in Items : CreateItem(i) \/ DeleteItem(i)

Spec == Init /\ [][Next]_vars

----------------------------------------------------------------------------
(***************************************************************************)
(* Properties.                                                             *)
(***************************************************************************)

\* A client that has followed the markers to the end has been told exactly
\* once of every item that was there all the time, or of its prefix,
\* whatever was created and deleted between the pages.
ListedExactlyOnce ==
    scan.state = "done" =>
        \A i \in scan.throughout \cap scan.where :
           IF scan.folding[i] = 0 THEN scan.listed[i] = 1
           ELSE scan.folding[i] \in scan.prefixes

\* Following the markers comes to an end: the marker of an answer lies
\* behind the one that was sent, so no answer leads back to a page that the
\* client has had.
MarkersAdvance ==
    [][(scan.state # "none" /\ scan'.state = "ask") =>
         \/ scan'.marker > scan.marker
         \/ scan'.marker = scan.marker /\ scan'.rowMarker > scan.rowMarker
       ]_<<scan.state, scan.marker, scan.rowMarker, scan.listed>>
=============================================================================
