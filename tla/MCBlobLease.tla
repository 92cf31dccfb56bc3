---------------------------- MODULE MCBlobLease ----------------------------
(* Model values for BlobLease: two proposed ids that differ in case only    *)
(* (a, A), one generated id (u).                                            *)
EXTENDS BlobLease

CONSTANTS a, A, u

MCLeaseIds == {a, A, u}
MCUuids == {u}
MCLowercase == [id \in MCLeaseIds |-> IF id = A THEN a ELSE id]
\* -1 is the infinite lease; 1 is out of the range 2 .. 3.
MCDurations == {-1, 1, 2, 3}
\* 2 is the largest valid period; -1 and 3 are out of range.
MCBreakPeriods == {None, -1, 0, 2, 3}
MCOps == AllOps
=============================================================================
