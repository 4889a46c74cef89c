--------------------------- MODULE MCJobLifecycle ---------------------------
(* Instances of JobLifecycle for TLC.                                      *)
EXTENDS JobLifecycle, TLC

(* Workers and clients are interchangeable, and so are Jobs: nothing in    *)
(* the module orders ids.                                                  *)
Symmetry == Permutations(Workers) \cup Permutations(Clients)
                \cup Permutations(Jobs)
=============================================================================
