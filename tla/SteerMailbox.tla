---------------------------- MODULE SteerMailbox ----------------------------
(***************************************************************************)
(* What steering promises, with no files, crashes or replays in it: the    *)
(* worker's model reads a growing list of steers, each of which was queued *)
(* before, and none twice.  Nothing says that a queued steer is read: the  *)
(* Job may end first.                                                      *)
(***************************************************************************)
EXTENDS Naturals, SequencesExt

CONSTANT Steers

VARIABLES queued, delivered

Init == /\ queued = {}
        /\ delivered = <<>>

Enqueue(n) ==
    /\ n \notin queued
    /\ queued' = queued \cup {n}
    /\ UNCHANGED delivered

(* One request carries a batch.                                            *)
Deliver(batch) ==
    /\ ToSet(batch) \subseteq queued \ ToSet(delivered)
    /\ delivered' = delivered \o batch
    /\ UNCHANGED queued

Next ==
    \/ \E n \in Steers : Enqueue(n)
    \/ \E S \in SUBSET Steers : \E batch \in SetToSeqs(S) : Deliver(batch)

Spec == Init /\ [][Next]_<<queued, delivered>>
=============================================================================
