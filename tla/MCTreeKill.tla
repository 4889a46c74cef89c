----------------------------- MODULE MCTreeKill -----------------------------
(* Instances of TreeKill for TLC.                                          *)
EXTENDS TreeKill, TLC

CONSTANTS w, b, g

(* A worker, a bash command in its own session, and a child of that.       *)
MCTree == (w :> Adopter) @@ (b :> w) @@ (g :> b)
MCLeads == {w, b}

Symmetry == Permutations(Pids \ {w, b, g})
=============================================================================
