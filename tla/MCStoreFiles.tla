---------------------------- MODULE MCStoreFiles ----------------------------
(* Instances of StoreFiles for TLC.                                        *)
EXTENDS StoreFiles, TLC
Symmetric == Permutations(Jobs) \cup Permutations(Processes)
=============================================================================
