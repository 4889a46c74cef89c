------------------------------ MODULE MCCalls -------------------------------
(* Instances of Calls for TLC: the more servers, the fewer descendants.    *)
EXTENDS Calls, TLC

MCDescendants == 0 :> 2 @@ 1 :> 1 @@ 2 :> 0
=============================================================================
