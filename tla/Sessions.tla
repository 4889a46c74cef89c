------------------------------ MODULE Sessions ------------------------------
(***************************************************************************)
(* Jobs are owned by Claude sessions (src/chinamax/state.py, the registry  *)
(* and the reaps; src/chinamax/hooks/session_start.py, session_end.py).    *)
(*                                                                         *)
(* A Claude process hosts one session at a time, and a session, new or     *)
(* resumed, is hosted by one process at a time.  The process runs the      *)
(* SessionStart hook when it takes a session (and again on a compaction)   *)
(* and the SessionEnd hook for one that ends, and waits for them; a hook   *)
(* may be killed at its time limit and dies with its process.  Another     *)
(* process does not wait: it may resume a session that is still being      *)
(* reaped.  Jobs are dispatched by commands of a session, which may        *)
(* outlast it.                                                             *)
(***************************************************************************)
EXTENDS FiniteSets, Naturals

CONSTANTS Claudes, Sessions, Jobs, None,
          Hosts,        \* bound: the sessions a process may host
          Budget        \* bound: hooks that are killed and verbs that are run

ASSUME NoneAssumption == None \notin Claudes \cup Sessions \cup Jobs
ASSUME BoundAssumption == Hosts \in [Claudes -> SUBSET Sessions] /\ Budget \in Nat

VARIABLES claude,    \* process -> alive, the session it hosts, registered or not
          hook,      \* process -> the hook it waits for
          registry,  \* session -> the process in its registration file
          job,       \* the records, their workers and who dispatched them
          spent      \* what is spent of that budget
vars == <<claude, hook, registry, job, spent>>

-----------------------------------------------------------------------------
(* `stale` is history: the sessions whose reap or removal the hook had     *)
(* begun when another process registered them.                             *)
NoHook == [pc |-> "none", target |-> None, todo |-> {}, found |-> {}, current |-> None,
           stale |-> {}]
NoJob  == [status |-> "none", session |-> None, pid |-> FALSE, worker |-> "none"]
StoredActive == {"queued", "running"}

TypeOK ==
    /\ claude \in [Claudes -> [alive : BOOLEAN, session : Sessions \cup {None},
                               registered : BOOLEAN]]
    /\ \A c \in Claudes :
          /\ hook[c].pc \in {"none", "register", "predecessors", "predecessor", "list",
                             "reap", "mark", "unlink"}
          /\ hook[c].target \in Sessions \cup {None}
          /\ hook[c].todo \subseteq Jobs \X BOOLEAN
          /\ hook[c].found \subseteq Sessions \X Claudes
          /\ hook[c].current \in Jobs \cup {None}
          /\ hook[c].pc = "mark" <=> hook[c].current # None
          /\ hook[c].stale \subseteq Sessions
    /\ registry \in [Sessions -> Claudes \cup {None}]
    /\ job \in [Jobs -> [status : {"none", "starting", "finished", "cancelled",
                                   "interrupted"} \cup StoredActive,
                         session : Sessions \cup {None},
                         pid : BOOLEAN, worker : {"none", "alive", "dead"}]]
    /\ spent \in 0..Budget

Hosted(s) == \E c \in Claudes : claude[c].alive /\ claude[c].session = s

Init ==
    /\ claude = [c \in Claudes |-> [alive |-> TRUE, session |-> None, registered |-> FALSE]]
    /\ hook = [c \in Claudes |-> NoHook]
    /\ registry = [s \in Sessions |-> None]
    /\ job = [j \in Jobs |-> NoJob]
    /\ spent = 0

-----------------------------------------------------------------------------
(* The host.  A process without a session takes a new one, or resumes one. *)
StartSession(c, s) ==
    /\ claude[c].alive /\ claude[c].session = None /\ hook[c].pc = "none"
    /\ s \in Hosts[c] /\ ~Hosted(s)
    /\ claude' = [claude EXCEPT ![c] = [@ EXCEPT !.session = s, !.registered = FALSE]]
    /\ hook' = [hook EXCEPT ![c] = [NoHook EXCEPT !.pc = "register"]]
    /\ UNCHANGED <<registry, job, spent>>

(* SessionStart fires again in the same session.                           *)
StartAgain(c) ==
    /\ claude[c].alive /\ claude[c].session # None /\ hook[c].pc = "none"
    /\ hook' = [hook EXCEPT ![c] = [NoHook EXCEPT !.pc = "register"]]
    /\ UNCHANGED <<claude, registry, job, spent>>

(* A clean exit or a /clear.                                               *)
EndSession(c) ==
    /\ claude[c].alive /\ claude[c].session # None /\ hook[c].pc = "none"
    /\ claude' = [claude EXCEPT ![c].session = None]
    /\ hook' = [hook EXCEPT ![c] =
                   [NoHook EXCEPT !.pc = "list", !.target = claude[c].session]]
    /\ UNCHANGED <<registry, job, spent>>

(* `reap --orphans` from a shell, a process that hosts no session.         *)
ReapVerb(c) ==
    /\ Hosts[c] = {} /\ hook[c].pc = "none" /\ spent < Budget
    /\ hook' = [hook EXCEPT ![c] = [NoHook EXCEPT !.pc = "list"]]
    /\ spent' = spent + 1
    /\ UNCHANGED <<claude, registry, job>>

ClaudeDies(c) ==
    /\ claude[c].alive /\ Hosts[c] # {}
    /\ claude' = [claude EXCEPT ![c] = [@ EXCEPT !.alive = FALSE, !.session = None]]
    /\ hook' = [hook EXCEPT ![c] = NoHook]
    /\ UNCHANGED <<registry, job, spent>>

(* A time limit strikes a hook that reaps; its first write is quick.       *)
HookTimesOut(c) ==
    /\ hook[c].pc \notin {"none", "register"}
    /\ spent < Budget
    /\ hook' = [hook EXCEPT ![c] = NoHook]
    /\ spent' = spent + 1
    /\ UNCHANGED <<claude, registry, job>>

-----------------------------------------------------------------------------
(* `session_is_alive`                                                      *)
SessionIsAlive(s) == registry[s] # None /\ claude[registry[s]].alive

(* What-if: a session counts as its own predecessor.                       *)
PredecessorsWithSelf(c) == {s \in Sessions : registry[s] = c}
Predecessors(c) == {s \in Sessions : registry[s] = c /\ s # claude[c].session}

Registered(s) == IF registry[s] = None THEN {} ELSE {<<s, registry[s]>>}

(* The sessions a hook reaps, is about to mark a Job of, or has read the   *)
(* registration of.                                                        *)
AtWorkOn(c) ==
    {hook[c].target} \cup {entry[1] : entry \in hook[c].found}
        \cup {job[j].session : j \in Jobs \cap {hook[c].current}}

(* `_register_and_reap`: first the file, then the leftovers of the same    *)
(* process, then the orphans.                                              *)
Register(c) ==
    /\ hook[c].pc = "register"
    /\ registry' = [registry EXCEPT ![claude[c].session] = c]
    /\ claude' = [claude EXCEPT ![c].registered = TRUE]
    /\ hook' = [h \in Claudes |->
                   IF h = c THEN [hook[h] EXCEPT !.pc = "predecessors"]
                   ELSE [hook[h] EXCEPT !.stale = @ \cup (AtWorkOn(h) \cap {claude[c].session})]]
    /\ UNCHANGED <<job, spent>>

ListPredecessors(c) ==
    /\ hook[c].pc = "predecessors"
    /\ hook' = [hook EXCEPT ![c] = [@ EXCEPT !.pc = IF Predecessors(c) = {} THEN "list"
                                                    ELSE "predecessor",
                                             !.found = Predecessors(c) \X {c}]]
    /\ UNCHANGED <<claude, registry, job, spent>>

(* What-if: leftovers of the same process are not looked for.              *)
NoPredecessor(c) ==
    /\ hook[c].pc = "predecessor"
    /\ hook' = [hook EXCEPT ![c] = [@ EXCEPT !.pc = "list", !.target = None,
                                             !.found = {}]]
    /\ UNCHANGED <<claude, registry, job, spent>>

NextPredecessor(c) ==
    /\ hook[c].pc = "predecessor"
    /\ \/ \E entry \in hook[c].found :
             hook' = [hook EXCEPT ![c] = [hook[c] EXCEPT !.pc = "list", !.target = entry[1],
                                                         !.found = @ \ {entry}]]
       \/ /\ hook[c].found = {}
          /\ hook' = [hook EXCEPT ![c] = [@ EXCEPT !.pc = "list", !.target = None]]
    /\ UNCHANGED <<claude, registry, job, spent>>

-----------------------------------------------------------------------------
(* A reap, of one session or (no target) of the orphans: the stored-active *)
(* records are read once, with the pid they hold.                          *)
ListActive(c) ==
    /\ hook[c].pc = "list"
    /\ LET target == hook[c].target
           mine   == {j \in Jobs : /\ job[j].status \in StoredActive
                                   /\ target # None => job[j].session = target}
       IN hook' = [hook EXCEPT ![c] = [@ EXCEPT !.pc = "reap",
                                                !.todo = {<<j, job[j].pid>> : j \in mine}]]
    /\ UNCHANGED <<claude, registry, job, spent>>

(* What-if: a Job without an owner counts as an orphan.                    *)
SparedIfOwned(c, entry) ==
    hook[c].target = None /\ job[entry[1]].session # None
        /\ SessionIsAlive(job[entry[1]].session)

(* The orphan reap passes over Jobs of live sessions, and reports Jobs     *)
(* without an owner unless their worker is provably gone.                  *)
Spared(c, entry) ==
    LET r == job[entry[1]] IN
    /\ hook[c].target = None
    /\ \/ r.session # None /\ SessionIsAlive(r.session)
       \/ r.session = None /\ ~(entry[2] /\ r.worker = "dead")

SpareOne(c) ==
    /\ hook[c].pc = "reap"
    /\ \E entry \in hook[c].todo :
          /\ Spared(c, entry)
          /\ hook' = [hook EXCEPT ![c].todo = @ \ {entry}]
    /\ UNCHANGED <<claude, registry, job, spent>>

(* `_reap_record`: stop the worker the listed record names, if any; give   *)
(* up when it survives.                                                    *)
KillOne(c) ==
    /\ hook[c].pc = "reap"
    /\ \E entry \in hook[c].todo :
          LET j == entry[1] IN
          /\ ~Spared(c, entry)
          /\ job' = IF entry[2] THEN [job EXCEPT ![j].worker = "dead"] ELSE job
          /\ hook' = [hook EXCEPT ![c] = [hook[c] EXCEPT !.pc = "mark", !.todo = @ \ {entry},
                                                         !.current = j]]
    /\ UNCHANGED <<claude, registry, spent>>

WorkerSurvives(c) ==
    /\ hook[c].pc = "reap"
    /\ \E entry \in hook[c].todo :
          /\ ~Spared(c, entry)
          /\ entry[2] /\ job[entry[1]].worker = "alive"
          /\ hook' = [hook EXCEPT ![c].todo = @ \ {entry}]
    /\ UNCHANGED <<claude, registry, job, spent>>

MarkOne(c) ==
    /\ hook[c].pc = "mark"
    /\ LET j       == hook[c].current
           verdict == IF hook[c].target = None THEN "interrupted" ELSE "cancelled"
       IN job' = IF job[j].status \in StoredActive
                 THEN [job EXCEPT ![j].status = verdict] ELSE job
    /\ hook' = [hook EXCEPT ![c] =
                   [hook[c] EXCEPT !.pc = "reap", !.current = None,
                                   !.stale = IF hook[c].target = None THEN {} ELSE hook[c].stale]]
    /\ UNCHANGED <<claude, registry, spent>>

Reaped(c) == hook[c].pc = "reap" /\ hook[c].todo = {}

(* The registration of a session that was reaped goes last.                *)
RemoveRegistration(c) ==
    /\ Reaped(c) /\ hook[c].target # None
    /\ registry' = [registry EXCEPT ![hook[c].target] = None]
    /\ hook' = [hook EXCEPT ![c] =
                   IF claude[c].session = None THEN NoHook
                   ELSE [hook[c] EXCEPT !.pc = "predecessor", !.target = None,
                                        !.stale = hook[c].stale \ {hook[c].target}]]
    /\ UNCHANGED <<claude, job, spent>>

(* `_gc_stale_registrations`: read all files, then unlink those whose      *)
(* process is gone.                                                        *)
ListRegistrations(c) ==
    /\ Reaped(c) /\ hook[c].target = None
    /\ hook' = [hook EXCEPT ![c] = [@ EXCEPT !.pc = "unlink",
                                             !.found = UNION {Registered(s) : s \in Sessions}]]
    /\ UNCHANGED <<claude, registry, job, spent>>

Unlink(c) ==
    /\ hook[c].pc = "unlink"
    /\ \/ \E entry \in hook[c].found :
             /\ registry' = IF claude[entry[2]].alive THEN registry
                            ELSE [registry EXCEPT ![entry[1]] = None]
             /\ hook' = [hook EXCEPT ![c] = [hook[c] EXCEPT !.found = @ \ {entry},
                                                            !.stale = @ \ {entry[1]}]]
       \/ /\ hook[c].found = {}
          /\ hook' = [hook EXCEPT ![c] = NoHook]
          /\ UNCHANGED registry
    /\ UNCHANGED <<claude, job, spent>>

-----------------------------------------------------------------------------
(* A command of the session (or one that lost the session's environment)   *)
(* begins a dispatch, and lands its record some time later.                *)
Task(c, j, s) ==
    /\ claude[c].alive /\ claude[c].session # None /\ claude[c].registered
    /\ s \in {claude[c].session, None}
    /\ job[j].status = "none"
    /\ job' = [job EXCEPT ![j] = [NoJob EXCEPT !.status = "starting", !.session = s]]
    /\ UNCHANGED <<claude, hook, registry, spent>>

Create(j) ==
    /\ job[j].status = "starting"
    /\ job' = [job EXCEPT ![j].status = "queued"]
    /\ UNCHANGED <<claude, hook, registry, spent>>

Spawn(j) ==
    /\ job[j].status # "none" /\ job[j].status # "starting" /\ job[j].worker = "none"
    /\ job' = [job EXCEPT ![j].worker = "alive"]
    /\ UNCHANGED <<claude, hook, registry, spent>>

(* The pid lands by the dispatcher's write or the worker's claim; a worker *)
(* whose claim is refused exits.                                           *)
PidLands(j) ==
    /\ job[j].worker = "alive" /\ job[j].status = "queued"
    /\ \E status \in StoredActive : job' = [job EXCEPT ![j] = [@ EXCEPT !.pid = TRUE,
                                                                        !.status = status]]
    /\ UNCHANGED <<claude, hook, registry, spent>>

ClaimRefused(j) ==
    /\ job[j].worker = "alive" /\ job[j].status \in {"cancelled", "interrupted"}
    /\ ~job[j].pid
    /\ job' = [job EXCEPT ![j].worker = "dead"]
    /\ UNCHANGED <<claude, hook, registry, spent>>

WorkerEnds(j) ==
    /\ job[j].worker = "alive" /\ job[j].status = "running"
    /\ \E status \in {"finished", "running"} :
          job' = [job EXCEPT ![j] = [@ EXCEPT !.worker = "dead", !.status = status]]
    /\ UNCHANGED <<claude, hook, registry, spent>>

-----------------------------------------------------------------------------
HookSteps(c) ==
    \/ Register(c) \/ ListPredecessors(c) \/ NextPredecessor(c)
    \/ ListActive(c) \/ SpareOne(c) \/ KillOne(c) \/ MarkOne(c)
    \/ RemoveRegistration(c) \/ ListRegistrations(c) \/ Unlink(c)

Next ==
    \/ \E c \in Claudes :
          \/ \E s \in Sessions : StartSession(c, s)
          \/ StartAgain(c) \/ EndSession(c) \/ ReapVerb(c) \/ ClaudeDies(c) \/ HookTimesOut(c)
          \/ HookSteps(c) \/ WorkerSurvives(c)
          \/ \E j \in Jobs : Task(c, j, claude[c].session) \/ Task(c, j, None)
    \/ \E j \in Jobs : Create(j) \/ Spawn(j) \/ PidLands(j) \/ ClaimRefused(j) \/ WorkerEnds(j)

Spec == Init /\ [][Next]_vars

(* A process between two sessions starts the next one or exits.            *)
MoveOn(c) == /\ claude[c].session = None
             /\ ClaudeDies(c) \/ \E s \in Sessions : StartSession(c, s)

(* Hooks take their steps, SessionStart comes again while a session lives, *)
(* and a kill does not fail for ever.                                      *)
Fairness ==
    \A c \in {d \in Claudes : Hosts[d] # {}} :
        /\ WF_vars(HookSteps(c) \/ StartAgain(c) \/ MoveOn(c))
        /\ SF_vars(KillOne(c))
FairSpec == Spec /\ Fairness

-----------------------------------------------------------------------------
Hosting(c, s) == s # None /\ claude[c].alive /\ claude[c].session = s

(* While a session is hosted and its registration stands, no hook stops or *)
(* settles one of its Jobs, but for one that had begun to reap the session *)
(* before it was resumed; and no hook stops a live worker whose record     *)
(* names no session ("reported, never killed", `reap_orphans`).            *)
LiveSessionKeepsJobs ==
    [][\A h \in Claudes, j \in Jobs :
          LET s == job[j].session IN
          (hook'[h] # hook[h] /\ job'[j] # job[j]) =>
             /\ \A c \in Claudes : Hosting(c, s) => registry[s] # c \/ s \in hook[h].stale
             /\ s = None => job[j].worker = "dead"]_vars

(* The registration of a session that is hosted goes by nothing but the    *)
(* hook of another process that was at work on the session - reaped it, or *)
(* had read its former registration to collect it - when it was resumed    *)
(* (the ordering note of `_register_and_reap`, `_gc_stale_registrations`). *)
LiveSessionStaysRegistered ==
    [][\A c \in Claudes, s \in Sessions :
          (Hosting(c, s) /\ registry[s] = c /\ registry'[s] # c) =>
             \E h \in Claudes \ {c} : hook'[h] # hook[h] /\ s \in hook[h].stale]_vars

(* A Job never outlives its session: when a session is hosted no more, and *)
(* SessionStart keeps coming somewhere, its Jobs end, also those whose     *)
(* records landed during or after the reap, and those of hooks that were   *)
(* killed halfway (ADR 0004).                                              *)
EndedSessionLeavesNoJob ==
    \A s \in Sessions :
        <>[](~Hosted(s) /\ \E c \in Claudes : claude[c].session # None)
            => <>[](\A j \in Jobs : job[j].session = s => job[j].status \notin StoredActive)

-----------------------------------------------------------------------------
(* A promise the code does not keep: a reap settles a Job only when its    *)
(* claimed worker is stopped, "exactly as `cancel` refuses to write ...    *)
(* over a Job it did not stop" (`ReapResult`).  One process, one session   *)
(* and one Job refute it.                                                  *)
ReapedIsStopped ==
    \A j \in Jobs :
        job[j].status \in {"cancelled", "interrupted"} /\ job[j].pid
            => job[j].worker = "dead"
=============================================================================
