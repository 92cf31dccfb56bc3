------------------------- MODULE MCFSExtentStore -------------------------
(* Instances of FSExtentStore: two slots, so that the fall-back to slot 0   *)
(* happens with the other slot in use, and more jobs than slots.            *)
EXTENDS FSExtentStore, TLC

Symmetry == Permutations(Jobs) \cup Permutations(Extents)
==========================================================================
