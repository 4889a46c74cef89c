----------------------------- MODULE JobContract ----------------------------
(***************************************************************************)
(* What the Job store promises to whoever dispatches a Job, with no        *)
(* processes, locks or pids in it: a Job is worked on by one worker at a   *)
(* time, work on it starts only while it is active, it is settled once,    *)
(* and it disappears only when settled.                                    *)
(*                                                                         *)
(* It does NOT promise that nobody works on a settled Job: a verdict may   *)
(* land over a worker that is still running.                               *)
(***************************************************************************)
CONSTANTS Jobs, Workers

VARIABLES phase, executors

Verdicts == {"completed", "failed", "cancelled", "interrupted"}
Phases   == {"none", "active", "dropped"} \cup Verdicts

Init == /\ phase = [j \in Jobs |-> "none"]
        /\ executors = [j \in Jobs |-> {}]

Create(j) ==
    /\ phase[j] = "none"
    /\ phase' = [phase EXCEPT ![j] = "active"]
    /\ UNCHANGED executors

(* The only way into a Job: it is active and nobody is in it.              *)
Begin(j, w) ==
    /\ phase[j] = "active"
    /\ executors[j] = {}
    /\ executors' = [executors EXCEPT ![j] = {w}]
    /\ UNCHANGED phase

Leave(j, w) ==
    /\ w \in executors[j]
    /\ executors' = [executors EXCEPT ![j] = @ \ {w}]
    /\ UNCHANGED phase

(* One verdict per Job; the worker's own comes as it leaves.               *)
Settle(j, verdict) ==
    /\ phase[j] = "active"
    /\ phase' = [phase EXCEPT ![j] = verdict]
    /\ \/ UNCHANGED executors
       \/ verdict \in {"completed", "failed"} /\ executors' = [executors EXCEPT ![j] = {}]

Drop(D) ==
    /\ D # {}
    /\ \A j \in D : phase[j] \in Verdicts
    /\ phase' = [j \in Jobs |-> IF j \in D THEN "dropped" ELSE phase[j]]
    /\ UNCHANGED executors

Next ==
    \/ \E j \in Jobs :
        \/ Create(j)
        \/ \E w \in Workers : Begin(j, w) \/ Leave(j, w)
        \/ \E verdict \in Verdicts : Settle(j, verdict)
    \/ \E D \in SUBSET Jobs : Drop(D)

Spec == Init /\ [][Next]_<<phase, executors>>
=============================================================================
