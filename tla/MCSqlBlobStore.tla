--------------------------- MODULE MCSqlBlobStore ---------------------------
\* Ids a lease id is compared with are all written in lower case here.
EXTENDS SqlBlobStore, TLC

MCLowercase == [id \in LeaseIds |-> id]

Symmetry == Permutations(Data)
=============================================================================
