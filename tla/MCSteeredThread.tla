-------------------------- MODULE MCSteeredThread ---------------------------
(* Instances of SteeredThread for TLC.                                     *)
EXTENDS SteeredThread
=============================================================================
