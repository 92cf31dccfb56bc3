------------------------------ MODULE MCBlobGC ------------------------------
(* The collector over a few extents, blobs and requests.                   *)
EXTENDS BlobGC, TLC

CONSTANTS d1, d2

\* The names of the documents in the order of the listing, and a version in
\* which two documents (of two containers, say) have the same name.
DistinctNames == d1 :> 1 @@ d2 :> 2
SameNames == d1 :> 1 @@ d2 :> 1

Symmetry == Permutations(Reqs) \cup Permutations(Extents)
=============================================================================
