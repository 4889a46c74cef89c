---------------------------- MODULE JobLifecycle ----------------------------
(***************************************************************************)
(* The life of the Jobs of one workspace: every process that writes a Job  *)
(* record, interleaved at the granularity of the store lock.               *)
(*                                                                         *)
(*   client  a CLI process running `task`, `resume`, `cancel` or a reap    *)
(*   worker  a detached `task-worker` process, with its heartbeat thread   *)
(*                                                                         *)
(* One action is one critical section of `state.lock`, or one effect       *)
(* outside it that another process can see (a reservation, a spawn, a      *)
(* kill, a lock-free read).  A process may die between any two of them.    *)
(***************************************************************************)
EXTENDS JobRecords

CONSTANTS Clients,        \* CLI processes that run one verb after another
          AllowRelaunch,  \* whether `task-worker` is started again by hand
          AllowClientCrash \* whether a CLI process may be killed mid-verb

ASSUME SwitchAssumption == AllowRelaunch \in BOOLEAN /\ AllowClientCrash \in BOOLEAN

VARIABLES rec,      \* Job id -> its record file
          threads,  \* Job ids whose transcript is non-empty
          worker,   \* worker process -> where it is and for which Job
          client,   \* CLI process -> where it is, its target, what it read
          clock     \* how many terminal writes there have been
vars == <<rec, threads, worker, client, clock>>

-----------------------------------------------------------------------------
WorkerPCs == {"unborn", "starting", "claimed", "looping", "pruning", "gone"}
ClientPCs == {"idle", "creating", "spawning", "recording", "pruning",
              "killing", "writing"}

(* A process with nothing on its mind: no Job, no pid read.                *)
WorkerAt(pc) == [pc |-> pc, job |-> None]
ClientAt(pc) == [pc |-> pc, job |-> None, seen |-> None, verb |-> "none"]

(* What-if: the verb's own name stored as the status.                      *)
VerdictByName(verb) == verb

(* The verbs that end a Job, and the status each of them writes.           *)
EndingVerbs == {"cancel", "reap_session", "reap_orphans"}
Verdict(verb) == IF verb = "reap_orphans" THEN "interrupted" ELSE "cancelled"

TypeOK ==
    /\ rec \in [Jobs -> Record]
    /\ threads \subseteq Jobs
    /\ worker \in [Workers -> [pc : WorkerPCs, job : Jobs \cup {None}]]
    /\ client \in [Clients -> [pc : ClientPCs, job : Jobs \cup {None},
                               seen : Workers \cup {None},
                               verb : {"none"} \cup EndingVerbs]]
    /\ clock \in Nat

Alive == {w \in Workers : worker[w].pc \notin {"unborn", "gone"}}
Executing(w, j) == /\ worker[w].pc \in {"claimed", "looping"}
                   /\ worker[w].job = j
Active(j) == IsActive(rec[j], Alive)

Init == /\ rec = [j \in Jobs |-> NewFile(j)]
        /\ threads = {}
        /\ worker = [w \in Workers |-> WorkerAt("unborn")]
        /\ client = [c \in Clients |-> ClientAt("idle")]
        /\ clock = 0

-----------------------------------------------------------------------------
(* `task`.  The id is reserved by an O_EXCL create, without the lock.      *)
TaskReserve(c, j) ==
    /\ client[c].pc = "idle"
    /\ rec[j].status = "absent"
    /\ rec' = [rec EXCEPT ![j].status = "reserved"]
    /\ client' = [client EXCEPT ![c] = [ClientAt("creating") EXCEPT !.job = j]]
    /\ UNCHANGED <<threads, worker, clock>>

TaskCreate(c) ==
    LET j == client[c].job IN
    /\ client[c].pc = "creating"
    /\ rec' = [rec EXCEPT ![j] = Touched([@ EXCEPT !.status = "queued"])]
    /\ client' = [client EXCEPT ![c].pc = "spawning"]
    /\ UNCHANGED <<threads, worker, clock>>

(* `resume`: guard, source, Thread copy and record in ONE critical         *)
(* section.  The new Job joins the lineage of its source.                  *)
ResumeCreate(c, src, j, bare) ==
    /\ client[c].pc = "idle"
    /\ rec[j].status = "absent"
    /\ ResumeSource(rec, Alive, threads, src, bare)
    /\ rec' = [rec EXCEPT ![j] = [NewFile(j) EXCEPT !.status = "queued",
                                                    !.root = rec[src].root]]
    /\ threads' = threads \cup {j}
    /\ client' = [client EXCEPT ![c] = [ClientAt("spawning") EXCEPT !.job = j]]
    /\ UNCHANGED <<worker, clock>>

(* `_spawn_worker`: Popen, or a failure before any child exists.           *)
SpawnWorker(c, w) ==
    /\ client[c].pc = "spawning"
    /\ worker[w].pc = "unborn"
    /\ worker' = [worker EXCEPT ![w] = [pc |-> "starting", job |-> client[c].job]]
    /\ client' = [client EXCEPT ![c] = [@ EXCEPT !.pc = "recording", !.seen = w]]
    /\ UNCHANGED <<rec, threads, clock>>

SpawnFails(c) ==
    LET j == client[c].job IN
    /\ client[c].pc = "spawning"
    /\ rec' = [rec EXCEPT ![j] =
                   CasUpdate(@, {"queued"}, Settled(@, "failed", clock + 1))]
    /\ clock' = IF rec[j].status = "queued" THEN clock + 1 ELSE clock
    /\ client' = [client EXCEPT ![c] = ClientAt("pruning")]
    /\ UNCHANGED <<threads, worker>>

(* What-if: the pid write as a plain write.                                *)
RecordPidAlways(c) ==
    LET j == client[c].job IN
    /\ client[c].pc = "recording"
    /\ rec' = [rec EXCEPT ![j] = [@ EXCEPT !.pid = client[c].seen, !.stale = FALSE]]
    /\ client' = [client EXCEPT ![c] = ClientAt("pruning")]
    /\ UNCHANGED <<threads, worker, clock>>

(* The pid write, which a claim that was faster turns into a no-op.        *)
RecordPid(c) ==
    LET j == client[c].job IN
    /\ client[c].pc = "recording"
    /\ rec' = [rec EXCEPT ![j] =
                   CasUpdate(@, {"queued"}, [@ EXCEPT !.pid = client[c].seen])]
    /\ client' = [client EXCEPT ![c] = ClientAt("pruning")]
    /\ UNCHANGED <<threads, worker, clock>>

ClientPrune(c) ==
    /\ client[c].pc = "pruning"
    /\ rec' = Pruned(rec)
    /\ threads' = threads \ Prunable(rec)
    /\ client' = [client EXCEPT ![c] = ClientAt("idle")]
    /\ UNCHANGED <<worker, clock>>

-----------------------------------------------------------------------------
(* `cancel`, and the reap of a session's or of orphaned Jobs: read the     *)
(* record without the lock, kill the tree of the pid it named, then        *)
(* compare-and-swap the verdict in.  Whose Jobs a reap picks is a matter   *)
(* of sessions, left open here.                                            *)
EndRead(c, j, verb) ==
    /\ client[c].pc = "idle"
    /\ StoredActive(rec[j])
    /\ client' = [client EXCEPT ![c] = [pc |-> "killing", job |-> j,
                                        seen |-> rec[j].pid, verb |-> verb]]
    /\ UNCHANGED <<rec, threads, worker, clock>>

(* `terminate_tree` leaves no survivor: the worker is dead, or was.        *)
Kill(c) ==
    LET w == client[c].seen IN
    /\ client[c].pc = "killing"
    /\ worker' = IF w \in Alive THEN [worker EXCEPT ![w] = WorkerAt("gone")] ELSE worker
    /\ client' = [client EXCEPT ![c] = [@ EXCEPT !.pc = "writing", !.seen = None]]
    /\ UNCHANGED <<rec, threads, clock>>

(* Something outlived SIGKILL: the verb gives up without a verdict.        *)
KillSurvived(c) ==
    /\ client[c].pc = "killing"
    /\ client[c].seen \in Alive
    /\ client' = [client EXCEPT ![c] = ClientAt("idle")]
    /\ UNCHANGED <<rec, threads, worker, clock>>

(* Only `cancel` goes on to prune, and only when its verdict landed.       *)
WriteVerdict(c) ==
    LET j      == client[c].job
        landed == rec[j].status \in ActiveStatuses IN
    /\ client[c].pc = "writing"
    /\ rec' = [rec EXCEPT ![j] =
                   CasUpdate(@, ActiveStatuses,
                             Settled(@, Verdict(client[c].verb), clock + 1))]
    /\ clock' = IF landed THEN clock + 1 ELSE clock
    /\ client' = [client EXCEPT ![c] =
                      ClientAt(IF landed /\ client[c].verb = "cancel"
                               THEN "pruning" ELSE "idle")]
    /\ UNCHANGED <<threads, worker>>

(* The CLI process is killed, or an I/O error ends its verb.               *)
ClientCrash(c) ==
    /\ AllowClientCrash
    /\ client[c].pc # "idle"
    /\ client' = [client EXCEPT ![c] = ClientAt("idle")]
    /\ UNCHANGED <<rec, threads, worker, clock>>

-----------------------------------------------------------------------------
(* `task-worker`: claim or leave.                                          *)
Claim(w) ==
    LET j == worker[w].job IN
    /\ worker[w].pc = "starting"
    /\ IF Claimable(rec[j], Alive)
       THEN /\ rec' = [rec EXCEPT ![j] = Touched([@ EXCEPT !.status = "running",
                                                           !.pid = w])]
            /\ worker' = [worker EXCEPT ![w].pc = "claimed"]
       ELSE /\ worker' = [worker EXCEPT ![w] = WorkerAt("gone")]
            /\ UNCHANGED rec
    /\ UNCHANGED <<threads, client, clock>>

(* The heartbeat starts, then the loop appends the prompt to the Thread.   *)
EnterLoop(w) ==
    /\ worker[w].pc = "claimed"
    /\ worker' = [worker EXCEPT ![w].pc = "looping"]
    /\ threads' = threads \cup {worker[w].job}
    /\ UNCHANGED <<rec, client, clock>>

(* The heartbeat thread, or a throttled progress write.                    *)
Heartbeat(w) ==
    LET j == worker[w].job IN
    /\ worker[w].pc \in {"claimed", "looping"}
    /\ rec' = [rec EXCEPT ![j] = CasUpdate(@, {"running"}, @)]
    /\ UNCHANGED <<threads, worker, client, clock>>

(* What-if: the terminal write as last writer wins.                        *)
TerminalWriteAlways(w, outcome) ==
    LET j == worker[w].job IN
    /\ worker[w].pc = "looping"
    /\ rec' = [rec EXCEPT ![j] = Touched(Settled(@, outcome, clock + 1))]
    /\ clock' = clock + 1
    /\ worker' = [worker EXCEPT ![w] = WorkerAt("pruning")]
    /\ UNCHANGED <<threads, client>>

(* The loop returns its payload, or anything from the configuration on     *)
(* fails; the heartbeat is stopped and joined; then the terminal write.    *)
TerminalWrite(w, outcome) ==
    LET j == worker[w].job IN
    /\ \/ worker[w].pc = "looping"
       \/ worker[w].pc = "claimed" /\ outcome = "failed"
    /\ rec' = [rec EXCEPT ![j] =
                   CasUpdate(@, {"running"}, Settled(@, outcome, clock + 1))]
    /\ clock' = IF rec[j].status = "running" THEN clock + 1 ELSE clock
    /\ worker' = [worker EXCEPT ![w] = WorkerAt("pruning")]
    /\ UNCHANGED <<threads, client>>

WorkerPrune(w) ==
    /\ worker[w].pc = "pruning"
    /\ rec' = Pruned(rec)
    /\ threads' = threads \ Prunable(rec)
    /\ worker' = [worker EXCEPT ![w] = WorkerAt("gone")]
    /\ UNCHANGED <<client, clock>>

(* The process dies: a crash, an outside kill, or an exception that        *)
(* escapes the worker's own failure handler.                               *)
WorkerCrash(w) ==
    /\ w \in Alive
    /\ worker' = [worker EXCEPT ![w] = WorkerAt("gone")]
    /\ UNCHANGED <<rec, threads, client, clock>>

(* `task-worker` run again on a Job, the only way to the reclaim arm.      *)
Relaunch(w, j) ==
    /\ AllowRelaunch
    /\ worker[w].pc = "unborn"
    /\ Readable(rec[j])
    /\ worker' = [worker EXCEPT ![w] = [pc |-> "starting", job |-> j]]
    /\ UNCHANGED <<rec, threads, client, clock>>

(* More than STALE_GRACE_S pass without a refresh of `updatedAt`.  While   *)
(* the worker lives nobody reads that bit, so it is set only afterwards.   *)
GracePasses(j) ==
    /\ StoredActive(rec[j])
    /\ WorkerGone(rec[j], Alive)
    /\ ~rec[j].stale
    /\ rec' = [rec EXCEPT ![j].stale = TRUE]
    /\ UNCHANGED <<threads, worker, client, clock>>

-----------------------------------------------------------------------------
ClientStarts(c) ==
    \E j \in Jobs :
        \/ TaskReserve(c, j)
        \/ \E src \in Jobs, bare \in BOOLEAN : ResumeCreate(c, src, j, bare)
        \/ \E verb \in EndingVerbs : EndRead(c, j, verb)

ClientContinues(c) ==
    \/ TaskCreate(c)
    \/ \E w \in Workers : SpawnWorker(c, w)
    \/ SpawnFails(c)
    \/ RecordPid(c)
    \/ ClientPrune(c)
    \/ Kill(c)
    \/ KillSurvived(c)
    \/ WriteVerdict(c)

WorkerContinues(w) ==
    \/ Claim(w)
    \/ EnterLoop(w)
    \/ WorkerPrune(w)

WorkerLoops(w) ==
    \/ Heartbeat(w)
    \/ \E outcome \in {"completed", "failed"} : TerminalWrite(w, outcome)
    \/ WorkerCrash(w)
    \/ \E j \in Jobs : Relaunch(w, j)

Next ==
    \/ \E c \in Clients : ClientStarts(c) \/ ClientContinues(c) \/ ClientCrash(c)
    \/ \E w \in Workers : WorkerContinues(w) \/ WorkerLoops(w)
    \/ \E j \in Jobs : GracePasses(j)

Spec == Init /\ [][Next]_vars

(* A process that was started goes on to its next step, and time passes.   *)
(* Nothing says that a loop ends, or that anybody runs a verb.             *)
Fairness ==
    /\ \A c \in Clients : WF_vars(ClientContinues(c))
    /\ \A w \in Workers : WF_vars(WorkerContinues(w))
    /\ \A j \in Jobs : WF_vars(GracePasses(j))
FairSpec == Spec /\ Fairness

-----------------------------------------------------------------------------
(* No two live workers ever run the same Job: the claim of                 *)
(* src/chinamax/state.py `JobStore.claim` admits a second worker only over *)
(* the provable death of the first, and no other writer moves the pid of a *)
(* claimed record.                                                         *)
SingleExecutor ==
    \A j \in Jobs, v, w \in Workers :
        Executing(v, j) /\ Executing(w, j) => v = w

(* What the verbs read as a crash is one: a Job graded `interrupted` by    *)
(* `effective_status` has no worker running it, whatever claims, pid       *)
(* writes and relaunches came before.  A resume of it forks no live Thread.*)
InterruptedIsDead ==
    \A j \in Jobs : StoredActive(rec[j]) /\ ~Active(j) =>
                        \A w \in Workers : ~Executing(w, j)

(* A terminal status is the last one: no heartbeat, claim, pid write,      *)
(* cancel or second terminal write replaces it; only a prune removes it.   *)
VerdictIsFinal ==
    [][\A j \in Jobs : rec[j].status \in TerminalStatuses =>
          rec'[j].status \in {rec[j].status, "dropped"}]_vars

(* One Thread lineage has at most one active Job: two resumes, whatever    *)
(* their sources, never both pass the guard of `create_resume`.  (Without  *)
(* relaunches: the reclaim of a crashed Job asks nothing of its lineage.)  *)
LineageExclusive ==
    \A j, k \in Jobs :
        Active(j) /\ Active(k) /\ rec[j].root = rec[k].root => j = k

(* The window in which a dispatcher must not die: the record is there, and *)
(* names no pid yet.                                                       *)
Abandoned(j) ==
    /\ rec[j].status = "queued" /\ rec[j].pid = None
    /\ ~\E c \in Clients : /\ client[c].job = j
                           /\ client[c].pc \in {"spawning", "recording"}

(* A Job is never stranded: one that reads active and stays so is again    *)
(* and again in the hands of a live worker, otherwise the crash path       *)
(* (dead pid, aged heartbeat) has taken it out of the active ones.  The    *)
(* one exception is a Job whose dispatcher was killed before it wrote the  *)
(* pid: nothing proves its worker gone.                                    *)
NoStrandedJob ==
    \A j \in Jobs :
        []<>(~Active(j) \/ (\E w \in Workers : Executing(w, j)) \/ Abandoned(j))

(* "Never write `cancelled` over a Job that was not actually stopped"      *)
(* (src/chinamax/__main__.py, `run_cancel`): a promise the code does not   *)
(* keep, as the bounds of MCJobs_lineage.cfg show.                         *)
CancelledIsStopped ==
    \A j \in Jobs : rec[j].status = "cancelled" =>
                        \A w \in Workers : ~Executing(w, j)

-----------------------------------------------------------------------------
(* What all this implements, with the processes forgotten.                 *)
Contract == INSTANCE JobContract WITH
    phase     <- [j \in Jobs |->
                    CASE rec[j].status \in {"absent", "reserved"} -> "none"
                      [] rec[j].status \in ActiveStatuses -> "active"
                      [] OTHER -> rec[j].status],
    executors <- [j \in Jobs |-> {w \in Workers : Executing(w, j)}]
ImplementsContract == Contract!Spec
=============================================================================
