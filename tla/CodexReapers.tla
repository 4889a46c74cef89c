---------------------------- MODULE CodexReapers ----------------------------
(***************************************************************************)
(* Codex sessions end without waiting (src/chinamax/hooks/session_end.py,  *)
(* `run_reap` of __main__.py): the SessionEnd hook starts a detached       *)
(* reaper, one at a time by a lock it does not wait for.  A visible        *)
(* session may be restarted under the same id, also beside a lifecycle     *)
(* that still runs or ends; SessionStart comes again in a lifecycle that   *)
(* is resumed, cleared or compacted.  Each SessionStart mints a token,     *)
(* written into the registration and exported to the dispatches, which     *)
(* write it into the records of their Jobs.                                *)
(***************************************************************************)
EXTENDS FiniteSets, Naturals

CONSTANTS Lives, Sessions, SessionOf,   \* lifecycles and their visible sessions
          Jobs, None,
          MaxStarts                     \* bound: SessionStarts of a lifecycle

ASSUME NoneAssumption == None \notin Lives \cup Jobs \cup (Lives \X Nat)
ASSUME LivesAssumption == SessionOf \in [Lives -> Sessions] /\ MaxStarts \in [Lives -> Nat]

VARIABLES life,      \* lifecycle -> where it is, how many tokens it has minted
          registry,  \* session -> the token of its registration file
          reaper,    \* lifecycle -> the reaper its end has started
          lock,      \* whose reaper holds codex-reaper.lock
          job
vars == <<life, registry, reaper, lock, job>>

-----------------------------------------------------------------------------
Tokens    == Lives \X Nat
Newest(l) == <<l, life[l].minted>>

StoredActive == {"queued", "running"}
NoJob    == [status |-> "none", life |-> None, token |-> None,
             pid |-> FALSE, worker |-> "none"]

(* `seen` and `before` are history: the lifecycles of the session that had *)
(* begun when the hook chose the token, the records there at the listing.  *)
NoReaper == [pc |-> "none", token |-> None, seen |-> {}, before |-> {}, todo |-> {},
             current |-> None, survived |-> {}]

TypeOK ==
    /\ life \in [Lives -> [state : {"new", "running", "closing", "closed"},
                           minted : Nat]]
    /\ registry \in [Sessions -> Tokens \cup {None}]
    /\ reaper \in [Lives -> [pc : {"none", "lock", "list", "reap", "mark", "done", "left"},
                             token : Tokens \cup {None}, seen : SUBSET Lives,
                             before : SUBSET Jobs, todo : SUBSET (Jobs \X BOOLEAN),
                             current : Jobs \cup {None}, survived : SUBSET Jobs]]
    /\ \A l \in Lives : lock = l <=> reaper[l].pc \in {"list", "reap", "mark"}
    /\ job \in [Jobs -> [status : {"none", "starting", "finished", "cancelled"} \cup StoredActive,
                         life : Lives \cup {None}, token : Tokens \cup {None},
                         pid : BOOLEAN, worker : {"none", "alive", "dead"}]]

Init ==
    /\ life = [l \in Lives |-> [state |-> "new", minted |-> 0]]
    /\ registry = [s \in Sessions |-> None]
    /\ reaper = [l \in Lives |-> NoReaper]
    /\ lock = None
    /\ job = [j \in Jobs |-> NoJob]

-----------------------------------------------------------------------------
(* `_codex_session_start`, at the start of a lifecycle and again in it: a  *)
(* fresh token over whatever is registered.  The registration is skipped   *)
(* when the owner process cannot be resolved.                              *)
Start(l) ==
    /\ life[l].state \in {"new", "running"} /\ life[l].minted < MaxStarts[l]
    /\ life' = [life EXCEPT ![l] = [state |-> "running", minted |-> @.minted + 1]]
    /\ \/ registry' = [registry EXCEPT ![SessionOf[l]] = Newest(l)']
       \/ UNCHANGED registry
    /\ UNCHANGED <<reaper, lock, job>>

Close(l) ==
    /\ life[l].state = "running"
    /\ life' = [life EXCEPT ![l].state = "closing"]
    /\ UNCHANGED <<registry, reaper, lock, job>>

(* The host is killed, or no hook runs or gets to its reaper.              *)
Abort(l) ==
    /\ life[l].state \in {"running", "closing"}
    /\ life' = [life EXCEPT ![l].state = "closed"]
    /\ UNCHANGED <<registry, reaper, lock, job>>

(* The SessionEnd hook: the token of the file, else of the environment,    *)
(* which may have none.                                                    *)
EndHook(l) ==
    /\ life[l].state = "closing"
    /\ \E inherited \in {Newest(l), None} :
          LET registered == registry[SessionOf[l]]
              begun == {k \in Lives : SessionOf[k] = SessionOf[l] /\ life[k].state # "new"}
          IN reaper' = [reaper EXCEPT ![l] =
                 [NoReaper EXCEPT !.pc = "lock", !.seen = begun,
                                  !.token = IF registered # None THEN registered
                                            ELSE inherited]]
    /\ life' = [life EXCEPT ![l].state = "closed"]
    /\ UNCHANGED <<registry, lock, job>>

-----------------------------------------------------------------------------
(* `run_reap`: a reaper that finds the lock taken leaves.                  *)
TakeLock(l) ==
    /\ reaper[l].pc = "lock"
    /\ \/ /\ lock = None
          /\ lock' = l
          /\ reaper' = [reaper EXCEPT ![l].pc = "list"]
       \/ /\ lock # None
          /\ reaper' = [reaper EXCEPT ![l].pc = "left"]
          /\ UNCHANGED lock
    /\ UNCHANGED <<life, registry, job>>

(* What-if: the reap selects by the visible session alone.                 *)
OwnsBySession(l, j) ==
    job[j].life # None /\ SessionOf[job[j].life] = SessionOf[l]

(* The session of the record, then its token if the reaper has one.        *)
Owns(l, j) ==
    /\ job[j].life # None /\ SessionOf[job[j].life] = SessionOf[l]
    /\ reaper[l].token \in {None, job[j].token}

Landed == {j \in Jobs : job[j].status \notin {"none", "starting"}}

(* What-if: only claimed Jobs are listed.                                  *)
ListClaimed(l) ==
    /\ reaper[l].pc = "list"
    /\ reaper' = [reaper EXCEPT ![l] =
           [@ EXCEPT !.pc = "reap", !.before = Landed,
                     !.todo = {<<j, job[j].pid>> :
                                  j \in {i \in Jobs : job[i].status = "running" /\ Owns(l, i)}}]]
    /\ UNCHANGED <<life, registry, lock, job>>

List(l) ==
    /\ reaper[l].pc = "list"
    /\ reaper' = [reaper EXCEPT ![l] =
           [@ EXCEPT !.pc = "reap", !.before = Landed,
                     !.todo = {<<j, job[j].pid>> :
                                  j \in {i \in Jobs : job[i].status \in StoredActive /\ Owns(l, i)}}]]
    /\ UNCHANGED <<life, registry, lock, job>>

(* `_reap_record`: stop the worker the listed record names, if any; a Job  *)
(* whose worker survives is reported and left.                             *)
Kill(l) ==
    /\ reaper[l].pc = "reap"
    /\ \E entry \in reaper[l].todo :
          /\ job' = IF entry[2] THEN [job EXCEPT ![entry[1]].worker = "dead"] ELSE job
          /\ reaper' = [reaper EXCEPT ![l] = [reaper[l] EXCEPT !.pc = "mark", !.todo = @ \ {entry},
                                                               !.current = entry[1]]]
    /\ UNCHANGED <<life, registry, lock>>

WorkerSurvives(l) ==
    /\ reaper[l].pc = "reap"
    /\ \E entry \in reaper[l].todo :
          /\ entry[2] /\ job[entry[1]].worker = "alive"
          /\ reaper' = [reaper EXCEPT ![l] = [reaper[l] EXCEPT !.todo = @ \ {entry},
                                                               !.survived = @ \cup {entry[1]}]]
    /\ UNCHANGED <<life, registry, lock, job>>

Mark(l) ==
    /\ reaper[l].pc = "mark"
    /\ LET j == reaper[l].current IN
       job' = IF job[j].status \in StoredActive
              THEN [job EXCEPT ![j].status = "cancelled"] ELSE job
    /\ reaper' = [reaper EXCEPT ![l] = [@ EXCEPT !.pc = "reap", !.current = None]]
    /\ UNCHANGED <<life, registry, lock>>

(* Compare and delete, under the registry's own lock; then let go.         *)
Finish(l) ==
    /\ reaper[l].pc = "reap" /\ reaper[l].todo = {}
    /\ registry' = IF reaper[l].token # None /\ registry[SessionOf[l]] = reaper[l].token
                   THEN [registry EXCEPT ![SessionOf[l]] = None] ELSE registry
    /\ reaper' = [reaper EXCEPT ![l].pc = "done"]
    /\ lock' = None
    /\ UNCHANGED <<life, job>>

-----------------------------------------------------------------------------
(* A command of the lifecycle begins a dispatch - with the token of its    *)
(* environment, if any - and lands its record some time later.             *)
Task(j, l) ==
    /\ job[j].status = "none" /\ life[l].state = "running"
    /\ \E token \in {Newest(l), None} :
          job' = [job EXCEPT ![j] = [NoJob EXCEPT !.status = "starting", !.life = l,
                                                  !.token = token]]
    /\ UNCHANGED <<life, registry, reaper, lock>>

Create(j) ==
    /\ job[j].status = "starting"
    /\ job' = [job EXCEPT ![j].status = "queued"]
    /\ UNCHANGED <<life, registry, reaper, lock>>

Spawn(j) ==
    /\ job[j].status \notin {"none", "starting"} /\ job[j].worker = "none"
    /\ job' = [job EXCEPT ![j].worker = "alive"]
    /\ UNCHANGED <<life, registry, reaper, lock>>

(* The pid lands by the dispatcher's write or the worker's claim; a worker *)
(* whose claim is refused exits.                                           *)
PidLands(j) ==
    /\ job[j].worker = "alive" /\ job[j].status = "queued"
    /\ \E status \in StoredActive :
          job' = [job EXCEPT ![j] = [@ EXCEPT !.pid = TRUE, !.status = status]]
    /\ UNCHANGED <<life, registry, reaper, lock>>

ClaimRefused(j) ==
    /\ job[j].worker = "alive" /\ job[j].status = "cancelled" /\ ~job[j].pid
    /\ job' = [job EXCEPT ![j].worker = "dead"]
    /\ UNCHANGED <<life, registry, reaper, lock>>

WorkerEnds(j) ==
    /\ job[j].worker = "alive" /\ job[j].status = "running"
    /\ \E status \in {"finished", "running"} :
          job' = [job EXCEPT ![j] = [@ EXCEPT !.worker = "dead", !.status = status]]
    /\ UNCHANGED <<life, registry, reaper, lock>>

-----------------------------------------------------------------------------
ReaperSteps(l) == EndHook(l) \/ TakeLock(l) \/ List(l) \/ Kill(l) \/ Mark(l) \/ Finish(l)

Next ==
    \/ \E l \in Lives : \/ Start(l) \/ Close(l) \/ Abort(l)
                        \/ ReaperSteps(l) \/ WorkerSurvives(l)
                        \/ \E j \in Jobs : Task(j, l)
    \/ \E j \in Jobs : Create(j) \/ Spawn(j) \/ PidLands(j) \/ ClaimRefused(j) \/ WorkerEnds(j)

Spec == Init /\ [][Next]_vars

(* Hooks and reapers run on.                                               *)
FairSpec == Spec /\ \A l \in Lives : WF_vars(ReaperSteps(l))

-----------------------------------------------------------------------------
(* A reaper may touch a lifecycle for one of two reasons: it has no token, *)
(* or its token is of that lifecycle, which had begun when its hook ran.   *)
MayTouch(l, k) ==
    \/ reaper[l].token = None
    \/ reaper[l].token[1] = k /\ k \in reaper[l].seen

(* A reaper with a token spares a lifecycle that runs, its Jobs and its    *)
(* registration, unless the hook found that lifecycle's token in the file  *)
(* ("an older detached reaper cannot touch Jobs created by this            *)
(* lifecycle", `_codex_session_start`) - whatever other lifecycles of the  *)
(* session start, start again, run or end beside it.                       *)
RunningLifeIsSpared ==
    [][\A l, k \in Lives :
          (reaper'[l] # reaper[l] /\ life[k].state = "running" /\ ~MayTouch(l, k)) =>
             /\ \A j \in Jobs : job[j].life = k => job'[j] = job[j]
             /\ \A n \in 1..MaxStarts[k] :
                   registry[SessionOf[k]] = <<k, n>> => registry'[SessionOf[k]] = <<k, n>>]_vars

(* When the reaper of a lifecycle is through, a Job of that lifecycle that *)
(* is stored active has one of four causes: the lock was another reaper's; *)
(* the hook's token is not the record's (superseded by a later             *)
(* SessionStart, or never exported); the record landed after the listing;  *)
(* the worker survived and was reported (`run_reap`, `reap_session`).      *)
LeftoversHaveACause ==
    \A l \in Lives, j \in Jobs :
        (/\ reaper[l].pc \in {"done", "left"}
         /\ job[j].life = l /\ job[j].status \in StoredActive)
            => \/ reaper[l].pc = "left"
               \/ reaper[l].token # None /\ job[j].token # reaper[l].token
               \/ reaper[l].pc = "done" /\ j \notin reaper[l].before
               \/ j \in reaper[l].survived

-----------------------------------------------------------------------------
(* A promise the code does not keep: the end of a lifecycle, when its hook *)
(* is delivered, ends its Jobs (CONTEXT.md: "never outlives either when    *)
(* the Host lifecycle is delivered").  Each cause above refutes it under   *)
(* FairSpec.                                                               *)
DeliveredEndStopsJobs ==
    \A l \in Lives :
        reaper[l].pc = "lock" ~>
            (\A j \in Jobs : job[j].life = l => job[j].status \notin StoredActive)
=============================================================================
