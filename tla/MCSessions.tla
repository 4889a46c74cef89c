----------------------------- MODULE MCSessions -----------------------------
(* Instances of Sessions for TLC.                                          *)
EXTENDS Sessions, TLC

CONSTANTS First, Second, s1, s2

(* The first process hosts two sessions, one of which a second process may *)
(* resume; every other process is a shell.                                 *)
MCHosts == [c \in Claudes |-> IF c = First THEN {s1, s2}
                              ELSE IF c = Second THEN {s1} ELSE {}]
=============================================================================
