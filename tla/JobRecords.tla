----------------------------- MODULE JobRecords -----------------------------
(***************************************************************************)
(* The Job record of a workspace store and the questions every verb asks   *)
(* of it (src/chinamax/state.py).  A record is one JSON file, always read  *)
(* whole and replaced whole under `state.lock`, so it is a TLA+ record and *)
(* a store is a function from Job ids to records.                          *)
(*                                                                         *)
(* Abstractions, all of data:                                              *)
(*  - a worker PROCESS (pid together with its start time) is one element   *)
(*    of Workers, used for one process only: pid reuse is what             *)
(*    `pidStartTime` defends against, and the pair never recurs;           *)
(*  - `updatedAt` is kept as the one bit the code derives from it, whether *)
(*    the last refresh is older than STALE_GRACE_S;                        *)
(*  - `completedAt` is the rank of the terminal write among all of them.   *)
(***************************************************************************)
EXTENDS Naturals, FiniteSets

CONSTANTS Jobs,      \* Job ids; an id is never issued twice
          Workers,   \* worker processes, as (pid, start time) identities
          None,      \* an absent pid
          Keep       \* PRUNE_KEEP: finished Jobs kept per workspace

ASSUME FiniteAssumption == IsFiniteSet(Jobs)
ASSUME NoneAssumption   == None \notin Workers \cup Jobs
ASSUME KeepAssumption   == Keep \in Nat

ActiveStatuses   == {"queued", "running"}
TerminalStatuses == {"completed", "failed", "cancelled", "interrupted"}
FinishedStatuses == TerminalStatuses
Statuses         == ActiveStatuses \cup TerminalStatuses

(* What the file of an id can be besides a readable record: not created    *)
(* yet, the empty file of an O_EXCL reservation, or unlinked by a prune.   *)
FileStates == Statuses \cup {"absent", "reserved", "dropped"}

Record == [status      : FileStates,
           pid         : Workers \cup {None},
           root        : Jobs,
           stale       : BOOLEAN,
           completedAt : Nat]

(* An id nobody has reserved.  Its lineage root is the Job itself.         *)
NewFile(j) == [status |-> "absent", pid |-> None, root |-> j,
               stale |-> FALSE, completedAt |-> 0]

Readable(r)     == r.status \in Statuses
StoredActive(r) == r.status \in ActiveStatuses

(* Provably gone: a record that names no pid proves nothing.               *)
WorkerGone(r, alive) == r.pid # None /\ r.pid \notin alive

(* What-if: grading only `running`, the slip the docstring of              *)
(* `effective_status` warns of.                                            *)
EffectiveStatusOfRunning(r, alive) ==
    IF r.status = "running" /\ WorkerGone(r, alive) /\ r.stale
    THEN "interrupted" ELSE r.status

(* The read-side grade: `interrupted` is derived, never stored, for an     *)
(* active record whose worker is gone and whose heartbeat has aged out.    *)
EffectiveStatus(r, alive) ==
    IF StoredActive(r) /\ WorkerGone(r, alive) /\ r.stale
    THEN "interrupted" ELSE r.status

IsActive(r, alive) == EffectiveStatus(r, alive) \in ActiveStatuses

(* `JobStore.update`: compare-and-swap on the stored status.  Every touch  *)
(* refreshes `updatedAt`.                                                  *)
Touched(r) == [r EXCEPT !.stale = FALSE]
CasUpdate(r, expect, new) == IF r.status \in expect THEN Touched(new) ELSE r

Settled(r, status, rank) == [r EXCEPT !.status = status, !.completedAt = rank]

(* What-if: a claim that looks at the status alone.                        *)
ClaimableByStatus(r, alive) == r.status \in ActiveStatuses

(* `JobStore.claim`: who may take a record.                                *)
Claimable(r, alive) ==
    \/ r.status = "queued"
    \/ r.status \in ActiveStatuses /\ WorkerGone(r, alive)

(* The finished Jobs a prune drops: those with Keep finished Jobs settled  *)
(* after them.  The STORED status decides, so a crashed Job is not among   *)
(* them.                                                                   *)
FinishedJobs(rec) == {j \in Jobs : rec[j].status \in FinishedStatuses}
Prunable(rec) ==
    {j \in FinishedJobs(rec) :
        Cardinality({k \in FinishedJobs(rec) :
                        rec[k].completedAt > rec[j].completedAt}) >= Keep}

(* The store after a prune.  Of a dropped record only the status is real,  *)
(* the file is gone; pid and root stay as history.                         *)
Unlinked(r) == [status |-> "dropped", pid |-> r.pid, root |-> r.root,
                stale |-> FALSE, completedAt |-> 0]
Pruned(rec) ==
    [j \in Jobs |-> IF j \in Prunable(rec) THEN Unlinked(rec[j]) ELSE rec[j]]

(* What-if: the guard looks at the first Job of the lineage only.          *)
LineageRootQuiet(rec, alive, root) == ~IsActive(rec[root], alive)

(* The resume guard, evaluated under the lock.  A bare resume refuses      *)
(* while ANY Job is active, an explicit one while its own lineage is.      *)
NothingActive(rec, alive) == \A k \in Jobs : ~IsActive(rec[k], alive)
LineageQuiet(rec, alive, root) ==
    \A k \in Jobs : rec[k].root = root => ~IsActive(rec[k], alive)

(* The Job whose Thread a resume continues: readable, not reaped, with a   *)
(* Thread.  The bare form picks only among Jobs that are not active.       *)
ResumeSource(rec, alive, threads, src, bare) ==
    /\ Readable(rec[src])
    /\ rec[src].status # "interrupted"
    /\ src \in threads
    /\ IF bare THEN NothingActive(rec, alive)
               ELSE LineageQuiet(rec, alive, rec[src].root)
=============================================================================
