---------------------------- MODULE MCTableStore ----------------------------
EXTENDS TableStore, TLC

Symmetry == Permutations(Keys) \cup Permutations(Tables) \cup Permutations(Props)
=============================================================================
