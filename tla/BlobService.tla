---------------------------- MODULE BlobService ----------------------------
(***************************************************************************)
(* What a blob metadata store promises its clients, whatever it keeps the  *)
(* blobs in: a set of containers and, in each, committed blobs and their   *)
(* snapshots.  A write gives one base blob a new version under a new etag  *)
(* and touches nothing else; a snapshot is a copy of the base blob at that *)
(* moment and never changes until it is deleted; a blob is not deleted     *)
(* while it has snapshots unless they go too; a container takes all it     *)
(* holds with it.  Staged blocks and uncommitted blobs are not visible.    *)
(***************************************************************************)
CONSTANTS
    Containers, Names,
    Times,      \* snapshot ids; 0 is the base blob
    Etags,
    Views       \* what a client can read of a blob

VARIABLES
    containers, \* the containers that exist
    objects,    \* the committed blobs and snapshots
    used        \* the etags given out so far

vars == <<containers, objects, used>>

Of(c, n) == {o \in objects : o.c = c /\ o.n = n}
Base(c, n) == {o \in Of(c, n) : o.s = 0}
Snapshots(c, n) == Of(c, n) \ Base(c, n)

Init == containers = {} /\ objects = {} /\ used = {}

CreateContainer(c) ==
    /\ c \notin containers
    /\ containers' = containers \cup {c}
    /\ UNCHANGED <<objects, used>>

DeleteContainer(c) ==
    /\ c \in containers
    /\ containers' = containers \ {c}
    /\ objects' = {o \in objects : o.c # c}
    /\ UNCHANGED used

\* A blob is created or changed, or an etag is spent on an
\* uncommitted blob, which is not visible.
Write(c, n) ==
    /\ c \in containers
    /\ \E e \in Etags \ used :
          /\ used' = used \cup {e}
          /\ \/ \E o \in objects' :
                   /\ o.c = c /\ o.n = n /\ o.s = 0 /\ o.etag = e /\ o.view \in Views
                   /\ objects' = (objects \ Base(c, n)) \cup {o}
             \/ UNCHANGED objects
    /\ UNCHANGED containers

Snapshot(c, n, t) ==
    /\ \E b \in Base(c, n) : objects' = objects \cup {[b EXCEPT !.s = t]}
    /\ UNCHANGED <<containers, used>>

Delete(c, n) ==
    /\ objects' \in {objects \ Of(c, n), objects \ Snapshots(c, n)}
                    \cup {{o \in objects : ~(o \in Of(c, n) /\ o.s = t)} : t \in Times}
    /\ UNCHANGED <<containers, used>>

Next ==
    \/ \E c \in Containers : CreateContainer(c) \/ DeleteContainer(c)
    \/ \E c \in Containers, n \in Names :
          \/ Write(c, n)
          \/ Delete(c, n)
          \/ \E t \in Times : Snapshot(c, n, t)

Spec == Init /\ [][Next]_vars
=============================================================================
