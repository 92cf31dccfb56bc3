-------------------------- MODULE MCBlobHandlers --------------------------
\* Ids a lease id is compared with are all written in lower case here.
EXTENDS BlobHandlers, TLC

MCLowercase == [id \in LeaseIds |-> id]
\* All ids decode to one length.
MCIdLength == [id \in BlockIds |-> 1]

Symmetry == Permutations(Names) \cup Permutations(Data)
=============================================================================
