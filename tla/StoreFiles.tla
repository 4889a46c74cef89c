----------------------------- MODULE StoreFiles -----------------------------
(***************************************************************************)
(* The files of a Job store (src/chinamax/state.py, JobStore): a record    *)
(* and five sidecars per Job, one index, one lock, and the processes of    *)
(* the CLI and of the workers that read and write them.  JobLifecycle      *)
(* treats a critical section as one step; here every file operation is a   *)
(* step, and the reads that take no lock come in between.                  *)
(*                                                                         *)
(* A process does one thing at a time, `now[p]`: the verb, the step it is  *)
(* at, its Job, and what it has read so far.                               *)
(***************************************************************************)
EXTENDS Naturals, Sequences, FiniteSets

CONSTANTS Jobs, Processes, NoJob, NoProcess,
          Keep,      \* PRUNE_KEEP
          MaxLog,    \* lines of a Job's log
          MaxCrashes

ASSUME StoreAssumption ==
    /\ NoJob \notin Jobs /\ NoProcess \notin Processes
    /\ {Keep, MaxLog, MaxCrashes} \subseteq Nat

VARIABLES rec,    \* the record file of each Job
          side,   \* its sidecars
          log,    \* lines in its log
          index,  \* the ids in state.json
          usable, \* whether state.json can be read
          lock,   \* who holds state.lock
          now,    \* what each process is doing
          launched, \* Jobs a worker was started for
          cut,    \* Jobs whose removal a crash cut short
          late,   \* Jobs written to after their record was gone
          torn,   \* whether a crash came between a record and the index
          used,   \* ids ever reserved: none is given twice
          crashes
files == <<rec, side, log>>
ghosts == <<cut, late, torn, used, crashes>>
vars == <<files, index, usable, lock, now, ghosts, launched>>

-----------------------------------------------------------------------------
(* A record is reserved empty, published active, and finished.             *)
Readable(j) == rec[j] \in {"active", "finished"}
Derived == {j \in Jobs : rec[j] # "none"}
Finished == {j \in Jobs : rec[j] = "finished"}
Sidecars == {"log", "spawn", "thread", "result", "steer"}

(* The files of a dropped Job in the order they are removed.               *)
(* What-if: the record is removed last.                                    *)
RecordLast == <<"log", "spawn", "thread", "result", "steer", "record">>
DropOrder == <<"record", "log", "spawn", "thread", "result", "steer">>

(* `seen` ids and `got` records or texts of a reader, `knew` what was there *)
(* when it began; `got` Jobs and `next` file of a prune.                    *)
Idle == [verb |-> "none", at |-> "idle", job |-> NoJob, seen |-> {}, got |-> {},
         knew |-> {}, next |-> 1]
At(p, at) == now[p].at = at
Goes(p, at) == now' = [now EXCEPT ![p].at = at]
Done(p) == now' = [now EXCEPT ![p] = Idle]
Begins(p, verb, at, j) ==
    /\ now[p] = Idle
    /\ now' = [now EXCEPT ![p] = [Idle EXCEPT !.verb = verb, !.at = at, !.job = j]]
(* What-if: the lock excludes nobody.                                      *)
NoLock == TRUE
Free == lock = NoProcess
Take(p) == Free /\ lock' = p

TypeOK ==
    /\ rec \in [Jobs -> {"none", "empty", "active", "finished"}]
    /\ side \in [Jobs -> SUBSET Sidecars] /\ log \in [Jobs -> 0..MaxLog]
    /\ index \subseteq Jobs /\ usable \in BOOLEAN
    /\ lock \in Processes \cup {NoProcess}
    /\ \A p \in Processes : now[p].seen \cup now[p].got \subseteq Jobs
    /\ \A p \in Processes : At(p, "sync") \/ At(p, "drop") => lock = p
    /\ cut \cup late \subseteq used /\ used \subseteq Jobs /\ launched \subseteq Jobs
    /\ torn \in BOOLEAN /\ crashes \in 0..MaxCrashes
    /\ \A j \in Jobs : log[j] > 0 => "log" \in side[j]

Init ==
    /\ rec = [j \in Jobs |-> "none"] /\ side = [j \in Jobs |-> {}]
    /\ log = [j \in Jobs |-> 0]
    /\ index = {} /\ usable \in BOOLEAN
    /\ lock = NoProcess /\ now = [p \in Processes |-> Idle] /\ launched = {}
    /\ cut = {} /\ late = {} /\ torn = FALSE /\ used = {} /\ crashes = 0

-----------------------------------------------------------------------------
(* An id is reserved by creating its record file empty, without the lock   *)
(* for a dispatch, inside it for a resume, whose source needs a Thread.    *)
Reserve(p, j) ==
    /\ j \notin used /\ used' = used \cup {j}
    /\ rec' = [rec EXCEPT ![j] = "empty"]
    /\ UNCHANGED <<side, log, index, usable, cut, late, torn, crashes, launched>>

Task(p, j) == Begins(p, "task", "publish", j) /\ Reserve(p, j) /\ UNCHANGED lock

Resume(p, j) ==
    /\ \E source \in Jobs : Readable(source) /\ "thread" \in side[source]
    /\ Begins(p, "resume", "seed", j) /\ Take(p) /\ Reserve(p, j)

(* A sidecar is written by a process that has its Job's paths in hand; it  *)
(* looks at no record, and is late when the record is gone.                *)
Writes(p, some) ==
    /\ side' = [side EXCEPT ![now[p].job] = @ \cup some]
    /\ late' = IF rec[now[p].job] = "none" THEN late \cup {now[p].job} ELSE late
    /\ UNCHANGED <<rec, index, usable, lock, cut, torn, used, crashes, launched>>

SeedThread(p) ==
    /\ At(p, "seed") /\ Writes(p, {"thread"}) /\ Goes(p, "publish") /\ UNCHANGED log

(* The record is renamed into place, under the lock; the index follows.    *)
Publish(p) ==
    /\ At(p, "publish")
    /\ IF now[p].verb = "resume" THEN lock = p /\ UNCHANGED lock ELSE Take(p)
    /\ rec' = [rec EXCEPT ![now[p].job] = "active"]
    /\ Goes(p, "sync")
    /\ UNCHANGED <<side, log, index, usable, ghosts, launched>>

(* What-if: the index is kept up by adding the id at hand.                 *)
AddedOnly(p) == index \cup ({now[p].job} \ {NoJob})
Rewritten(p) == Derived

(* The index is rewritten when it disagrees, and the lock is released.     *)
(* What comes next depends on the verb.                                    *)
AfterSync(verb) ==
    CASE verb \in {"task", "resume"} -> "steerdir"
      [] verb = "claim"              -> "precreate"
      [] verb \in {"finish", "cancel"} -> "prune"
      [] verb \in {"list", "logs"}   -> "read"
      [] OTHER                       -> "end"
Sync(p) ==
    /\ At(p, "sync")
    /\ index' = Rewritten(p) /\ usable' = TRUE /\ torn' = FALSE
    /\ lock' = NoProcess
    /\ now' = IF AfterSync(now[p].verb) = "end" THEN [now EXCEPT ![p] = Idle]
              ELSE [now EXCEPT ![p] =
                       [now[p] EXCEPT !.at = AfterSync(now[p].verb),
                                      !.seen = IF now[p].verb \in {"list", "logs"} THEN Derived
                                               ELSE @]]
    /\ UNCHANGED <<files, cut, late, used, crashes, launched>>

SteerDir(p) ==
    /\ At(p, "steerdir") /\ Writes(p, {"steer"}) /\ Goes(p, "spawn") /\ UNCHANGED log
Spawn(p) ==
    /\ At(p, "spawn") /\ Writes(p, {"spawn"}) /\ Goes(p, "launch") /\ UNCHANGED log
Launch(p) ==
    /\ At(p, "launch") /\ Goes(p, "prune")
    /\ launched' = launched \cup {now[p].job}
    /\ UNCHANGED <<files, index, usable, lock, ghosts>>

(* A terminal write is a compare-and-swap.                                 *)
Terminal(p) ==
    /\ Take(p)
    /\ IF rec[now[p].job] = "active"
       THEN /\ rec' = [rec EXCEPT ![now[p].job] = "finished"]
            /\ now' = [now EXCEPT ![p] = [@ EXCEPT !.verb = "finish", !.at = "sync"]]
       ELSE /\ UNCHANGED rec
            /\ now' = [now EXCEPT ![p] = [@ EXCEPT !.verb = "finish", !.at = "unlock"]]
    /\ UNCHANGED <<side, log, index, usable, ghosts, launched>>

(* No child came of it: the dispatcher marks the Job failed, or finds it   *)
(* cancelled, and prunes like any other.                                   *)
SpawnFails(p) == (At(p, "spawn") \/ At(p, "launch")) /\ Terminal(p)

-----------------------------------------------------------------------------
(* A worker: the claim, the precreation of its files, its log, its verdict.*)
Claim(p, j) ==
    /\ j \in launched /\ \A q \in Processes : now[q].verb = "work" => now[q].job # j
    /\ rec[j] = "active"
    /\ Begins(p, "claim", "sync", j) /\ Take(p)
    /\ UNCHANGED <<files, index, usable, ghosts, launched>>

Precreate(p) ==
    /\ At(p, "precreate") /\ Writes(p, {"log", "thread", "result", "steer"})
    /\ now' = [now EXCEPT ![p] = [@ EXCEPT !.verb = "work", !.at = "work"]] /\ UNCHANGED log

(* The log's handle is open: a removed log is written to unseen.           *)
WriteLog(p) ==
    /\ At(p, "work") /\ "log" \in side[now[p].job] /\ log[now[p].job] < MaxLog
    /\ log' = [log EXCEPT ![now[p].job] = @ + 1]
    /\ UNCHANGED <<rec, side, index, usable, lock, now, ghosts, launched>>

(* The worker's verdict.                                                   *)
Finish(p) == At(p, "work") /\ Terminal(p)

Unlock(p) ==
    /\ At(p, "unlock") /\ lock' = NoProcess /\ Goes(p, "prune")
    /\ UNCHANGED <<files, index, usable, ghosts, launched>>

(* A cancel; whether its kill reached the worker is left open.  Updates    *)
(* that leave a record active (pid, phase, heartbeat) rewrite what is      *)
(* there and are left out.                                                 *)
Cancel(p, j) ==
    /\ rec[j] = "active" /\ Begins(p, "cancel", "sync", j) /\ Take(p)
    /\ rec' = [rec EXCEPT ![j] = "finished"]
    /\ UNCHANGED <<side, log, index, usable, ghosts, launched>>

-----------------------------------------------------------------------------
(* What-if: the Jobs beyond the bound are dropped whatever their state.    *)
DroppedOfAll(keep) == {D \in SUBSET Derived : Cardinality(D) + keep = Cardinality(Derived)}
(* The finished Jobs beyond the newest `keep`, whichever those are.        *)
Dropped(keep) ==
    IF Cardinality(Finished) <= keep THEN {{}}
    ELSE {D \in SUBSET Finished : Cardinality(D) + keep = Cardinality(Finished)}

(* A prune holds the lock from its reading of the records to the index;    *)
(* with nothing to drop it leaves the index alone.                         *)
Prune(p) ==
    /\ At(p, "prune") /\ Free
    /\ \E D \in Dropped(Keep) :
          IF D = {} THEN Done(p) /\ UNCHANGED lock
          ELSE /\ lock' = p
               /\ now' = [now EXCEPT ![p] = [Idle EXCEPT !.verb = "prune", !.at = "drop", !.got = D]]
    /\ UNCHANGED <<files, index, usable, ghosts, launched>>

(* The next file of a dropped Job is removed; absent ones are passed over. *)
There(j, f) == IF f = "record" THEN rec[j] # "none" ELSE f \in side[j]
Remove(p) ==
    /\ At(p, "drop") /\ now[p].job # NoJob
    /\ LET j == now[p].job
           left == {i \in now[p].next..Len(DropOrder) : There(j, DropOrder[i])}
       IN IF left = {}
          THEN /\ now' = [now EXCEPT ![p] = [now[p] EXCEPT !.got = @ \ {j}, !.job = NoJob,
                                                           !.next = 1]]
               /\ UNCHANGED files
          ELSE LET i == CHOOSE i \in left : \A k \in left : i <= k
                   f == DropOrder[i]
               IN /\ rec' = IF f = "record" THEN [rec EXCEPT ![j] = "none"] ELSE rec
                  /\ side' = [side EXCEPT ![j] = @ \ {f}]
                  /\ log' = IF f = "log" THEN [log EXCEPT ![j] = 0] ELSE log
                  /\ now' = [now EXCEPT ![p].next = i + 1]
    /\ UNCHANGED <<index, usable, lock, ghosts, launched>>

NextDrop(p) ==
    /\ At(p, "drop") /\ now[p].job = NoJob
    /\ IF now[p].got = {} THEN Goes(p, "sync")
       ELSE \E j \in now[p].got : now' = [now EXCEPT ![p].job = j]
    /\ UNCHANGED <<files, index, usable, lock, ghosts, launched>>

-----------------------------------------------------------------------------
(* Readers.  They scan the record files and compare with the index without *)
(* the lock, and rebuild it under the lock when it disagrees.              *)
Scan(p, verb, j) ==
    /\ now[p] = Idle
    /\ now' = [now EXCEPT ![p] =
           [Idle EXCEPT !.verb = verb, !.at = "index", !.job = j, !.seen = Derived,
                        !.knew = IF verb = "list" THEN {k \in Jobs : Readable(k)}
                                 ELSE {k \in {j} : log[k] > 0}]]
    /\ UNCHANGED <<files, index, usable, lock, ghosts, launched>>

List(p) == Scan(p, "list", NoJob)
Logs(p, j) == Scan(p, "logs", j)

(* What-if: an index that can be read is believed.                         *)
BelievesIndex(p) == usable
Agrees(p) == usable /\ index = now[p].seen

ReadIndex(p) ==
    /\ At(p, "index")
    /\ now' = [now EXCEPT ![p] = [now[p] EXCEPT !.at = IF Agrees(p) THEN "read" ELSE "rebuild",
                                                !.seen = IF Agrees(p) THEN index ELSE @]]
    /\ UNCHANGED <<files, index, usable, lock, ghosts, launched>>

Rebuild(p) ==
    /\ At(p, "rebuild") /\ Take(p) /\ Goes(p, "sync")
    /\ UNCHANGED <<files, index, usable, ghosts, launched>>

(* `status` opens the records one by one; an unreadable one is reported as *)
(* malformed.                                                              *)
ReadRecord(p, j) ==
    /\ At(p, "read") /\ now[p].verb = "list" /\ j \in now[p].seen
    /\ now' = [now EXCEPT ![p] = [now[p] EXCEPT !.seen = @ \ {j},
                                                !.got = IF Readable(j) THEN @ \cup {j} ELSE @]]
    /\ UNCHANGED <<files, index, usable, lock, ghosts, launched>>

(* `logs` resolves its Job, reads the log, and the record last, for the    *)
(* exit code.                                                              *)
ReadLog(p) ==
    /\ At(p, "read") /\ now[p].verb = "logs" /\ now[p].job \in now[p].seen
    /\ now' = [now EXCEPT ![p] = [@ EXCEPT !.at = "record",
                                           !.got = {j \in {now[p].job} : log[j] > 0}]]
    /\ UNCHANGED <<files, index, usable, lock, ghosts, launched>>

ReadExitCode(p) ==
    /\ At(p, "record") /\ Readable(now[p].job) /\ Goes(p, "shown")
    /\ UNCHANGED <<files, index, usable, lock, ghosts, launched>>

(* `steer` looks at the record, queues its file and looks again.           *)
Steer(p, j) ==
    /\ rec[j] = "active" /\ Begins(p, "steer", "enqueue", j)
    /\ UNCHANGED <<files, index, usable, lock, ghosts, launched>>
Enqueue(p) ==
    /\ At(p, "enqueue") /\ Writes(p, {"steer"}) /\ Goes(p, "reread") /\ UNCHANGED log
Reread(p) ==
    /\ At(p, "reread") /\ rec[now[p].job] = "active" /\ Goes(p, "queued")
    /\ UNCHANGED <<files, index, usable, lock, ghosts, launched>>

Listed(p) == At(p, "read") /\ now[p].verb = "list" /\ now[p].seen = {}
Unresolved(p) == At(p, "read") /\ now[p].verb = "logs" /\ now[p].job \notin now[p].seen
Refused(p) == \/ At(p, "record") /\ ~Readable(now[p].job)
              \/ At(p, "reread") /\ rec[now[p].job] # "active"
Report(p) ==
    /\ Listed(p) \/ At(p, "shown") \/ At(p, "queued") \/ Unresolved(p) \/ Refused(p)
    /\ Done(p) /\ UNCHANGED <<files, index, usable, lock, ghosts, launched>>

-----------------------------------------------------------------------------
(* A process dies between any two steps; its lock goes with it.            *)
Crash(p) ==
    /\ now[p] # Idle /\ crashes < MaxCrashes
    /\ crashes' = crashes + 1 /\ Done(p)
    /\ lock' = IF lock = p THEN NoProcess ELSE lock
    /\ torn' = (torn \/ At(p, "sync") \/ At(p, "drop"))
    /\ cut' = IF At(p, "drop") /\ now[p].job # NoJob THEN cut \cup {now[p].job} ELSE cut
    /\ UNCHANGED <<files, index, usable, late, used, launched>>

Step(p) ==
    \/ SeedThread(p) \/ Publish(p) \/ Sync(p) \/ SteerDir(p) \/ Spawn(p)
    \/ Launch(p) \/ SpawnFails(p)
    \/ Precreate(p) \/ WriteLog(p) \/ Finish(p) \/ Unlock(p) \/ Prune(p)
    \/ Remove(p) \/ NextDrop(p)
    \/ ReadIndex(p) \/ Rebuild(p) \/ ReadLog(p) \/ ReadExitCode(p)
    \/ Enqueue(p) \/ Reread(p) \/ Report(p) \/ List(p) \/ Crash(p)
    \/ \E j \in Jobs : \/ Task(p, j) \/ Resume(p, j) \/ Claim(p, j) \/ Cancel(p, j)
                       \/ ReadRecord(p, j) \/ Logs(p, j) \/ Steer(p, j)

Next == \E p \in Processes : Step(p)
Spec == Init /\ [][Next]_vars

-----------------------------------------------------------------------------
(* Mutation order is record-then-index under the lock (_sync_index): with  *)
(* the lock free, and no holder dead since the last rewrite, the index is  *)
(* behind the record files by reservations only.                           *)
IndexCatchesUp ==
    Free /\ usable /\ ~torn =>
        index \subseteq Derived /\ \A j \in Derived \ index : rec[j] = "empty"

(* Sidecars without a record are left only by a removal still under way or *)
(* cut short by a crash, and by a process that had the paths in hand when  *)
(* the Job was dropped.                                                    *)
OrphansHaveACause ==
    \A j \in Jobs :
        rec[j] = "none" /\ side[j] # {} =>
            \/ j \in cut \cup late
            \/ \E p \in Processes : At(p, "drop") /\ now[p].job = j

(* A `logs` that succeeds has read the log of a whole Job: whoever removes *)
(* it takes the record first, and `logs` reads the record last             *)
(* (_drop_job: never "reading a half-removed set").                        *)
LogsSeesWholeJob ==
    \A p \in Processes : At(p, "shown") => now[p].knew \subseteq now[p].got

(* A listing misses no Job, and calls none malformed, that was readable    *)
(* from its first look to its last (load_records).                         *)
ListMissesNothing ==
    \A p \in Processes :
        Listed(p) => {j \in now[p].knew : Readable(j)} \subseteq now[p].got

(* A reader that takes no lock is never shown a part: `logs` has a whole   *)
(* Job and a listing every Job (run_logs, load_records).                   *)
ReadersSeeWhole == LogsSeesWholeJob /\ ListMissesNothing

(* Only a finished Job is dropped, never a reservation or an active one,   *)
(* however old its record is when the prune reads it (_prune_locked).      *)
OnlyFinishedAreDropped ==
    [][\A j \in Jobs : rec[j] # "finished" /\ rec[j] # "none" => rec'[j] # "none"]_vars
=============================================================================
