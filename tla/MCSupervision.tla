---------------------------- MODULE MCSupervision ---------------------------
(* Instances of Supervision for TLC.                                       *)
EXTENDS Supervision, TLC

CONSTANT BridgeBound, OperatorBound

(* The Bridge polls with a long bound, the operators with a short one.     *)
MCBound == [p \in Pollers |-> IF p = Bridge THEN BridgeBound ELSE OperatorBound]
=============================================================================
