--------------------------- MODULE MCCodexReapers ---------------------------
(* Instances of CodexReapers for TLC.                                      *)
EXTENDS CodexReapers, TLC

CONSTANTS Other

(* All lifecycles but one belong to the same visible session.              *)
MCSessions  == {"visible", "other"}
MCSessionOf == [l \in Lives |-> IF l = Other THEN "other" ELSE "visible"]

(* SessionStart comes twice in a lifecycle of the visible session.         *)
MCMaxStarts == [l \in Lives |-> IF l = Other THEN 1 ELSE 2]

Symmetry == Permutations(Lives \ {Other}) \cup Permutations(Jobs)
=============================================================================
