------------------------------ MODULE MCLadder ------------------------------
(* Instances of Ladder for TLC.                                            *)
EXTENDS Ladder, TLC
=============================================================================
