-------------------------- MODULE StoreFiles_proofs -------------------------
(***************************************************************************)
(* Proofs about StoreFiles, for any sets of Jobs and processes, any Keep   *)
(* and any number of crashes.                                              *)
(*                                                                         *)
(* The argument: a record only ever advances (empty, active, finished,     *)
(* gone), whoever takes the step, and an id is used once; so what a        *)
(* process has learned about its Job, or about the records it listed,      *)
(* stays true while others step.  `IInv` says what each process may rely   *)
(* on at each of its steps.                                                *)
(***************************************************************************)
EXTENDS StoreFiles, TLAPS

(* The steps of each verb.                                                 *)
OnPath(r) ==
    \/ r.verb = "none" /\ r.at = "idle"
    \/ r.verb = "task" /\ r.at \in {"publish", "sync", "steerdir", "spawn", "launch",
                                   "prune"}
    \/ r.verb = "resume" /\ r.at \in {"seed", "publish", "sync", "steerdir", "spawn",
                                     "launch", "prune"}
    \/ r.verb = "claim" /\ r.at \in {"sync", "precreate"}
    \/ r.verb = "work" /\ r.at = "work"
    \/ r.verb = "finish" /\ r.at \in {"sync", "unlock", "prune"}
    \/ r.verb = "cancel" /\ r.at \in {"sync", "prune"}
    \/ r.verb = "prune" /\ r.at \in {"drop", "sync"}
    \/ r.verb = "list" /\ r.at \in {"index", "rebuild", "sync", "read"}
    \/ r.verb = "logs" /\ r.at \in {"index", "rebuild", "sync", "read", "record", "shown"}
    \/ r.verb = "steer" /\ r.at \in {"enqueue", "reread", "queued"}

Verbs  == {"none", "task", "resume", "claim", "work", "finish", "cancel", "prune",
           "list", "logs", "steer"}
Places == {"idle", "publish", "sync", "steerdir", "spawn", "launch", "prune", "seed", "precreate",
           "work", "unlock", "drop", "index", "rebuild", "read", "record", "shown",
           "enqueue", "reread", "queued"}
Process == [verb : Verbs, at : Places, job : Jobs \cup {NoJob}, seen : SUBSET Jobs,
            got : SUBSET Jobs, knew : SUBSET Jobs, next : 1..7]

Typed ==
    /\ rec \in [Jobs -> {"none", "empty", "active", "finished"}]
    /\ side \in [Jobs -> SUBSET Sidecars] /\ log \in [Jobs -> 0..MaxLog]
    /\ index \subseteq Jobs /\ usable \in BOOLEAN
    /\ lock \in Processes \cup {NoProcess}
    /\ now \in [Processes -> Process]
    /\ cut \subseteq used /\ late \subseteq used /\ used \subseteq Jobs
    /\ torn \in BOOLEAN /\ crashes \in 0..MaxCrashes

(* A file, of whatever kind, belongs to an id that was reserved.           *)
FilesAreUsed ==
    \A j \in Jobs : /\ rec[j] # "none" \/ side[j] # {} => j \in used
                    /\ log[j] > 0 => "log" \in side[j]

(* Between a critical section's record and its index only its holder can   *)
(* tell them apart.                                                        *)
IndexBehind ==
    usable /\ ~torn /\ (\A p \in Processes : now[p].at \notin {"sync", "drop"}) =>
        index \subseteq Derived /\ \A j \in Derived \ index : rec[j] = "empty"

(* What process p may rely on when it is at r.                             *)
JobVerbs == {"task", "resume", "claim", "work", "finish", "cancel", "steer"}
Holds(r) == \/ r.at \in {"seed", "sync", "unlock", "drop"}
            \/ r.at = "publish" /\ r.verb = "resume"
Gone(j) == rec[j] = "none" /\ j \in used

JobIsUsed(r) == r.verb \in JobVerbs => r.job \in used
LockIsHeld(p, r) == Holds(r) => lock = p
Reserved(r) == r.at \in {"seed", "publish"} => rec[r.job] = "empty"
DropIsSafe(r) ==
    r.at = "drop" =>
        /\ r.got \subseteq used /\ \A j \in r.got : rec[j] \in {"finished", "none"}
        /\ r.job # NoJob => r.job \in r.got
        /\ r.job = NoJob => r.next = 1
        /\ r.next > 1 =>
              /\ rec[r.job] = "none"
              /\ \A i \in 2..(r.next - 1) : DropOrder[i] \in side[r.job] => r.job \in late
LogIsKnown(r) ==
    r.verb = "logs" =>
        /\ r.job \in Jobs /\ r.knew \subseteq {r.job} \cap used
        /\ r.at \in {"index", "rebuild", "sync", "read"} =>
              \A j \in r.knew : log[j] > 0 \/ Gone(j)
        /\ r.at = "record" => r.knew \subseteq r.got \/ Gone(r.job)
        /\ r.at = "shown" => r.knew \subseteq r.got
ListIsKnown(r) ==
    r.verb = "list" =>
        /\ r.knew \subseteq used /\ \A j \in r.knew : rec[j] # "empty"
        /\ r.at = "index" => r.knew \subseteq r.seen
        /\ r.at = "read" => \A j \in r.knew : Readable(j) => j \in r.seen \cup r.got

Sound(p, r) ==
    /\ OnPath(r) /\ JobIsUsed(r) /\ LockIsHeld(p, r) /\ Reserved(r)
    /\ DropIsSafe(r) /\ LogIsKnown(r) /\ ListIsKnown(r)
AllSound == \A p \in Processes : Sound(p, now[p])

(* No two processes are about to publish the same Job.                     *)
Publishing(p) == now[p].at \in {"seed", "publish"}
OnePublisher ==
    \A p, q \in Processes :
        Publishing(p) /\ Publishing(q) /\ now[p].job = now[q].job => p = q

IInv == /\ Typed /\ FilesAreUsed /\ IndexBehind /\ AllSound /\ OnePublisher
        /\ OrphansHaveACause

-----------------------------------------------------------------------------
(* What a step of p does to what the others rely on.                       *)
Advances(j) ==
    \/ rec'[j] = rec[j]
    \/ rec[j] = "empty" /\ rec'[j] = "active"
    \/ rec[j] = "active" /\ rec'[j] = "finished"
    \/ rec[j] = "finished" /\ rec'[j] = "none"

Gentle(p) ==
    /\ used \subseteq used' /\ late \subseteq late'
    /\ lock \notin {p, NoProcess} => lock' = lock /\ \A j \in used : rec'[j] = rec[j]
    /\ \A j \in used :
          /\ Advances(j)
          /\ rec[j] = "empty" /\ rec'[j] # "empty"
                => now[p].at = "publish" /\ now[p].job = j
          /\ rec[j] = "none" => side'[j] \subseteq side[j] \/ j \in late'
          /\ log[j] > 0 => log'[j] > 0 \/ rec'[j] = "none"

Moves(p) ==
    /\ now' \in [Processes -> Process]
    /\ \A q \in Processes : q # p => now'[q] = now[q]

(* A step of p that is gentle leaves the others their grounds.             *)
LEMMA OthersStaySound ==
    ASSUME IInv, NEW p \in Processes, Gentle(p), Moves(p), rec' \in [Jobs -> {"none", "empty", "active", "finished"}],
           NEW q \in Processes, q # p
    PROVE  Sound(q, now[q])'
  <1> DEFINE r == now[q]
  <1>0. now'[q] = r /\ r \in Process /\ Sound(q, r) /\ Typed
    BY DEF IInv, AllSound, Moves, Typed
  <1>a. used \subseteq used' /\ late \subseteq late' /\ used \subseteq Jobs
    BY <1>0 DEF Gentle, Typed
  <1>1. OnPath(r) BY <1>0 DEF Sound
  <1>2. JobIsUsed(r)' BY <1>0, <1>a DEF Sound, JobIsUsed
  <1>3. LockIsHeld(q, r)'
    BY <1>0, StoreAssumption DEF Sound, LockIsHeld, Holds, Gentle
  <1>4. Reserved(r)'
    <2> SUFFICES ASSUME r.at \in {"seed", "publish"} PROVE rec'[r.job] = "empty"
      BY <1>0 DEF Reserved
    <2>1. r.job \in used /\ rec[r.job] = "empty"
      BY <1>0 DEF Sound, OnPath, JobIsUsed, JobVerbs, Reserved
    <2>2. ~(now[p].at = "publish" /\ now[p].job = r.job)
      <3>1. Publishing(q) BY DEF Publishing
      <3>2. OnePublisher BY DEF IInv
      <3> QED BY <3>1, <3>2 DEF OnePublisher, Publishing
    <2> QED BY <2>1, <2>2 DEF Gentle
  <1>5. DropIsSafe(r)'
    <2> SUFFICES ASSUME r.at = "drop" PROVE DropIsSafe(r)'
      BY <1>0 DEF DropIsSafe
    <2>1. lock = q BY <1>0 DEF Sound, LockIsHeld, Holds
    <2>2. \A j \in used : rec'[j] = rec[j] BY <2>1, StoreAssumption DEF Gentle
    <2>3. DropIsSafe(r) BY <1>0 DEF Sound
    <2>4. \A j \in used : rec[j] = "none" => side'[j] \subseteq side[j] \/ j \in late'
      BY DEF Gentle
    <2>5. ASSUME r.next > 1
          PROVE  /\ rec'[r.job] = "none"
                 /\ \A i \in 2..(r.next - 1) : DropOrder[i] \in side'[r.job] => r.job \in late'
      <3>1. r.job \in used /\ rec[r.job] = "none" BY <2>3, <2>5 DEF DropIsSafe
      <3> QED BY <1>a, <2>2, <2>3, <2>4, <2>5, <3>1 DEF DropIsSafe
    <2> QED BY <1>0, <1>a, <2>2, <2>3, <2>5 DEF DropIsSafe
  <1>6. LogIsKnown(r)'
    <2> SUFFICES ASSUME r.verb = "logs" PROVE LogIsKnown(r)'
      BY <1>0 DEF LogIsKnown
    <2>1. LogIsKnown(r) BY <1>0 DEF Sound
    <2>2. \A j \in used : Gone(j) => Gone(j)'
      BY <1>a DEF Gone, Gentle, Advances
    <2>3. \A j \in used : log[j] > 0 \/ Gone(j) => log'[j] > 0 \/ Gone(j)'
      BY <1>a, <2>2 DEF Gone, Gentle
    <2>4. Gone(r.job) => Gone(r.job)' BY <1>0, <2>2 DEF Gone
    <2> QED BY <1>0, <1>a, <2>1, <2>3, <2>4 DEF LogIsKnown
  <1>7. ListIsKnown(r)'
    <2> SUFFICES ASSUME r.verb = "list" PROVE ListIsKnown(r)'
      BY <1>0 DEF ListIsKnown
    <2>1. ListIsKnown(r) BY <1>0 DEF Sound
    <2>2. \A j \in used : rec[j] # "empty" => rec'[j] # "empty" /\ (Readable(j)' => Readable(j))
      BY DEF Gentle, Advances, Readable
    <2> QED BY <1>0, <1>a, <2>1, <2>2 DEF ListIsKnown
  <1> QED BY <1>0, <1>1, <1>2, <1>3, <1>4, <1>5, <1>6, <1>7 DEF Sound

-----------------------------------------------------------------------------
(* What a process turns into is a process.                                 *)
LEMMA MovesTo ==
    ASSUME Typed, NEW p \in Processes, NEW r \in Process, now' = [now EXCEPT ![p] = r]
    PROVE  Moves(p) /\ now'[p] = r
  BY DEF Typed, Moves

LEMMA IdleIsAProcess == Idle \in Process /\ Idle.at = "idle" /\ Idle.verb = "none"
  BY DEF Idle, Process, Verbs, Places

(* The parts of the invariant are enough for the whole.                    *)
FreshPublisher(p) ==
    Publishing(p)' => \/ Publishing(p) /\ now'[p].job = now[p].job
                      \/ now'[p].job \notin used

LEMMA StepKeeps ==
    ASSUME IInv, NEW p \in Processes, Moves(p), Typed', FilesAreUsed', Gentle(p),
           IndexBehind', Sound(p, now[p])', FreshPublisher(p), OrphansHaveACause'
    PROVE  IInv'
  <1>1. Typed /\ AllSound /\ OnePublisher BY DEF IInv
  <1>2. AllSound'
    <2>1. rec' \in [Jobs -> {"none", "empty", "active", "finished"}] BY DEF Typed
    <2> QED BY <2>1, OthersStaySound DEF AllSound
  <1>3. OnePublisher'
    <2>1. ASSUME NEW q \in Processes, q # p, Publishing(q)'
          PROVE  /\ Publishing(q) /\ now'[q].job = now[q].job
                 /\ now[q].job \in used
      <3>1. now'[q] = now[q] BY <2>1 DEF Moves
      <3>2. Publishing(q) BY <2>1, <3>1 DEF Publishing
      <3>3. Sound(q, now[q]) BY <1>1 DEF AllSound
      <3>4. now[q].verb \in JobVerbs
        BY <3>2, <3>3 DEF Sound, OnPath, Publishing, JobVerbs
      <3> QED BY <3>1, <3>2, <3>3, <3>4 DEF Sound, JobIsUsed
    <2>2. ASSUME NEW q \in Processes, q # p, Publishing(q)', Publishing(p)'
          PROVE  now'[q].job # now'[p].job
      <3>1. Publishing(q) /\ now'[q].job = now[q].job /\ now[q].job \in used
        BY <2>1, <2>2
      <3> QED BY <1>1, <2>2, <3>1 DEF FreshPublisher, OnePublisher
    <2> QED BY <1>1, <2>1, <2>2 DEF OnePublisher
  <1> QED BY <1>2, <1>3 DEF IInv

(* A step that touches no file, leaves no critical section and forgets no  *)
(* removal that is still under way.                                        *)
Quiet(p) ==
    /\ UNCHANGED <<files, index, usable, ghosts>>
    /\ lock \notin {p, NoProcess} => lock' = lock
    /\ lock' \in Processes \cup {NoProcess}
    /\ now[p].at \in {"sync", "drop"} => now'[p].at \in {"sync", "drop"}
    /\ now[p].at = "drop" /\ now[p].job # NoJob =>
          \/ now'[p].at = "drop" /\ now'[p].job = now[p].job
          \/ rec[now[p].job] = "none" /\ side[now[p].job] # {} => now[p].job \in late

LEMMA QuietStep ==
    ASSUME IInv, NEW p \in Processes, Moves(p), Quiet(p), Sound(p, now[p])', FreshPublisher(p)
    PROVE  IInv'
  <1> USE DEF files, ghosts, Quiet
  <1>1. Typed /\ FilesAreUsed /\ IndexBehind /\ OrphansHaveACause BY DEF IInv
  <1>2. Typed' BY <1>1 DEF Typed, Moves
  <1>3. FilesAreUsed' BY <1>1 DEF FilesAreUsed
  <1>4. Gentle(p) BY <1>1 DEF Gentle, Advances
  <1>5. IndexBehind'
    <2>1. (\A q \in Processes : now'[q].at \notin {"sync", "drop"}) =>
              \A q \in Processes : now[q].at \notin {"sync", "drop"}
      BY DEF Moves
    <2> QED BY <1>1, <2>1 DEF IndexBehind, Derived
  <1>6. OrphansHaveACause'
    <2> SUFFICES ASSUME NEW j \in Jobs, rec[j] = "none", side[j] # {}, j \notin cut \cup late
                 PROVE  \E q \in Processes : now'[q].at = "drop" /\ now'[q].job = j
      BY DEF OrphansHaveACause, At
    <2>1. PICK q \in Processes : now[q].at = "drop" /\ now[q].job = j
      BY <1>1 DEF OrphansHaveACause, At
    <2>2. CASE q # p BY <2>1, <2>2 DEF Moves
    <2>3. CASE q = p BY <2>1, <2>3, StoreAssumption
    <2> QED BY <2>2, <2>3
  <1> QED BY <1>2, <1>3, <1>4, <1>5, <1>6, StepKeeps

(* A step of a process that writes sidecars of its Job.                    *)
LEMMA WritesStep ==
    ASSUME IInv, NEW p \in Processes, Moves(p), NEW some \in SUBSET Sidecars, Writes(p, some),
           UNCHANGED log, now[p].job \in used, now[p].at \notin {"sync", "drop"},
           Sound(p, now[p])', FreshPublisher(p)
    PROVE  IInv'
  <1> DEFINE k == now[p].job
  <1>1. Typed /\ FilesAreUsed /\ IndexBehind /\ OrphansHaveACause BY DEF IInv
  <1>2. /\ UNCHANGED <<rec, index, usable, lock, cut, torn, used, crashes>>
        /\ late \subseteq late' /\ late' \subseteq used
        /\ side' = [side EXCEPT ![k] = @ \cup some]
        /\ rec[k] = "none" => k \in late'
    BY <1>1 DEF Writes, Typed
  <1>3. k \in Jobs /\ used \subseteq Jobs /\ side \in [Jobs -> SUBSET Sidecars]
    BY <1>1 DEF Typed
  <1>4. side' \in [Jobs -> SUBSET Sidecars]
    BY <1>2, <1>3
  <1>5. \A j \in Jobs : j # k => side'[j] = side[j]
    BY <1>2, <1>3
  <1>6. side[k] \subseteq side'[k]
    BY <1>2, <1>3
  <1>7. Typed' BY <1>1, <1>2, <1>4 DEF Typed, Moves
  <1>8. FilesAreUsed' BY <1>1, <1>2, <1>5, <1>6 DEF FilesAreUsed
  <1>9. Gentle(p) BY <1>1, <1>2, <1>3, <1>5 DEF Gentle, Advances
  <1>10. IndexBehind'
    <2>1. (\A q \in Processes : now'[q].at \notin {"sync", "drop"}) =>
              \A q \in Processes : now[q].at \notin {"sync", "drop"}
      BY DEF Moves
    <2> QED BY <1>1, <1>2, <2>1 DEF IndexBehind, Derived
  <1>11. OrphansHaveACause'
    <2> SUFFICES ASSUME NEW j \in Jobs, rec[j] = "none", side'[j] # {}, j \notin cut \cup late'
                 PROVE  \E q \in Processes : now'[q].at = "drop" /\ now'[q].job = j
      BY <1>2 DEF OrphansHaveACause, At
    <2>1. j # k BY <1>2
    <2>2. PICK q \in Processes : now[q].at = "drop" /\ now[q].job = j
      BY <1>1, <1>2, <1>5, <2>1 DEF OrphansHaveACause, At
    <2>3. q # p BY <2>2
    <2> QED BY <2>2, <2>3 DEF Moves
  <1> QED BY <1>7, <1>8, <1>9, <1>10, <1>11, StepKeeps

-----------------------------------------------------------------------------
(* The steps that touch no file.  Those share one shape: process p turns   *)
(* into r, the lock is kept, taken or given back.                          *)
Fits(r) ==
    /\ OnPath(r) /\ JobIsUsed(r) /\ Reserved(r)
    /\ DropIsSafe(r) /\ LogIsKnown(r) /\ ListIsKnown(r)
LockMoves(p) == \/ UNCHANGED lock
                \/ lock = NoProcess /\ lock' = p
                \/ lock = p /\ lock' = NoProcess

LEMMA OnesOwn ==
    ASSUME IInv, NEW p \in Processes
    PROVE  Typed /\ now \in [Processes -> Process] /\ now[p] \in Process
           /\ Sound(p, now[p]) /\ used \subseteq Jobs
  BY DEF IInv, Typed, AllSound

LEMMA QuietMove ==
    ASSUME IInv, NEW p \in Processes, NEW r \in Process, Moves(p), now'[p] = r,
           UNCHANGED <<files, index, usable, ghosts>>, LockMoves(p),
           Fits(r), Holds(r) => lock' = p, r.at \notin {"seed", "publish"},
           now[p].at \in {"sync", "drop"} => r.at \in {"sync", "drop"},
           now[p].at = "drop" /\ now[p].job # NoJob =>
              \/ r.at = "drop" /\ r.job = now[p].job
              \/ rec[now[p].job] = "none" /\ side[now[p].job] # {} => now[p].job \in late
    PROVE  IInv'
  <1>1. Moves(p) /\ now'[p] = r OBVIOUS
  <1>2. Quiet(p)
    <2>1. lock \in Processes \cup {NoProcess} BY DEF IInv, Typed
    <2> QED BY <1>1, <2>1 DEF Quiet, LockMoves
  <1>3. Sound(p, now[p])'
    <2>1. OnPath(r) /\ JobIsUsed(r) /\ Reserved(r) /\ DropIsSafe(r) /\ LogIsKnown(r) /\ ListIsKnown(r)
      BY DEF Fits
    <2>2. OnPath(now[p])' /\ JobIsUsed(now[p])' /\ Reserved(now[p])'
      BY <1>1, <2>1 DEF OnPath, JobIsUsed, Reserved, files, ghosts
    <2>3. DropIsSafe(now[p])'
      BY <1>1, <2>1 DEF DropIsSafe, files, ghosts
    <2>4. LogIsKnown(now[p])'
      BY <1>1, <2>1 DEF LogIsKnown, Gone, files, ghosts
    <2>5. ListIsKnown(now[p])'
      BY <1>1, <2>1 DEF ListIsKnown, Readable, files, ghosts
    <2>6. LockIsHeld(p, now[p])' BY <1>1 DEF LockIsHeld, Holds
    <2> QED BY <2>2, <2>3, <2>4, <2>5, <2>6 DEF Sound
  <1>4. FreshPublisher(p) BY <1>1 DEF FreshPublisher, Publishing
  <1> QED BY <1>1, <1>2, <1>3, <1>4, QuietStep

LEMMA QuietTo ==
    ASSUME IInv, NEW p \in Processes, NEW r \in Process, now' = [now EXCEPT ![p] = r],
           UNCHANGED <<files, index, usable, ghosts>>, LockMoves(p),
           Fits(r), Holds(r) => lock' = p, r.at \notin {"seed", "publish"},
           now[p].at \in {"sync", "drop"} => r.at \in {"sync", "drop"},
           now[p].at = "drop" => now[p].job = NoJob
    PROVE  IInv'
  <1>1. Moves(p) /\ now'[p] = r BY MovesTo DEF IInv
  <1> QED BY <1>1, QuietMove

LEMMA IdleFits == Fits(Idle)
  BY DEF Fits, Idle, OnPath, JobIsUsed, JobVerbs, Reserved, DropIsSafe, LogIsKnown, ListIsKnown

(* A process that ends, outside any critical section.                      *)
LEMMA DoneKeeps ==
    ASSUME IInv, NEW p \in Processes, Done(p), now[p].at \notin {"sync", "drop"},
           UNCHANGED <<files, index, usable, lock, ghosts>>
    PROVE  IInv'
  <1>1. /\ Idle \in Process /\ now' = [now EXCEPT ![p] = Idle] /\ Fits(Idle)
        /\ Idle.at \notin {"seed", "publish", "sync", "drop"} /\ ~Holds(Idle)
    BY IdleIsAProcess, IdleFits DEF Done, Holds
  <1> QED BY <1>1, QuietTo DEF LockMoves

(* A process that starts on a Job.                                         *)
Started(v, at, j) ==
    [verb |-> v, at |-> at, job |-> j, seen |-> {}, got |-> {}, knew |-> {}, next |-> 1]

LEMMA BeginsStarts ==
    ASSUME NEW p \in Processes, NEW v \in Verbs, NEW at \in Places, NEW j \in Jobs,
           Begins(p, v, at, j)
    PROVE  /\ now' = [now EXCEPT ![p] = Started(v, at, j)] /\ Started(v, at, j) \in Process
           /\ now[p].at = "idle" /\ now[p] = Idle
  <1>1. Started(v, at, j) = [Idle EXCEPT !.verb = v, !.at = at, !.job = j]
    <2>1. [Idle EXCEPT !.verb = v] = Started(v, "idle", NoJob) BY DEF Idle, Started
    <2>2. [Started(v, "idle", NoJob) EXCEPT !.at = at] = Started(v, at, NoJob) BY DEF Started
    <2>3. [Started(v, at, NoJob) EXCEPT !.job = j] = Started(v, at, j) BY DEF Started
    <2> QED BY <2>1, <2>2, <2>3
  <1>2. Started(v, at, j) \in Process BY DEF Started, Process
  <1>3. now[p] = Idle /\ now' = [now EXCEPT ![p] = [Idle EXCEPT !.verb = v, !.at = at, !.job = j]]
    BY DEF Begins
  <1>4. now' = [now EXCEPT ![p] = Started(v, at, j)] BY <1>1, <1>3, Zenon
  <1>5. now[p].at = "idle" BY <1>3, IdleIsAProcess
  <1> QED BY <1>2, <1>3, <1>4, <1>5

(* One that starts on a Job already used, in a place of no reader.         *)
LEMMA BeginsKeeps ==
    ASSUME IInv, NEW p \in Processes, NEW j \in used,
           NEW v \in Verbs, NEW at \in Places,
           \/ v = "claim" /\ at = "sync"
           \/ v = "steer" /\ at = "enqueue",
           Begins(p, v, at, j), UNCHANGED <<files, index, usable, ghosts>>,
           LockMoves(p), at = "sync" => lock' = p
    PROVE  IInv'
  <1> DEFINE r == Started(v, at, j)
  <1>1. j \in Jobs BY OnesOwn
  <1>2. now' = [now EXCEPT ![p] = r] /\ now[p].at = "idle" /\ r \in Process
    BY <1>1, BeginsStarts
  <1>3. r.verb = v /\ r.at = at /\ r.job = j BY DEF Started
  <1>4. Fits(r)
    BY <1>3 DEF Fits, OnPath, JobIsUsed, JobVerbs, Reserved, DropIsSafe, LogIsKnown, ListIsKnown
  <1>5. Holds(r) => lock' = p BY <1>3 DEF Holds
  <1>6. r.at \notin {"seed", "publish"} BY <1>3
  <1> HIDE DEF r
  <1> QED BY <1>2, <1>4, <1>5, <1>6, QuietTo

LEMMA FilesOfUsed ==
    ASSUME IInv, NEW j \in Jobs, rec[j] # "none" \/ side[j] # {} \/ log[j] > 0
    PROVE  j \in used
  BY DEF IInv, FilesAreUsed

LEMMA ClaimKeeps ==
    ASSUME IInv, NEW p \in Processes, NEW j \in Jobs, Claim(p, j)
    PROVE  IInv'
  <1>1. j \in used BY FilesOfUsed DEF Claim
  <1>2. Begins(p, "claim", "sync", j) /\ LockMoves(p) /\ lock' = p
    BY DEF Claim, Take, Free, LockMoves
  <1>3. UNCHANGED <<files, index, usable, ghosts>> BY DEF Claim
  <1>4. "claim" \in Verbs /\ "sync" \in Places BY DEF Verbs, Places
  <1> QED BY <1>1, <1>2, <1>3, <1>4, BeginsKeeps

LEMMA SteerKeeps ==
    ASSUME IInv, NEW p \in Processes, NEW j \in Jobs, Steer(p, j)
    PROVE  IInv'
  <1>1. j \in used BY FilesOfUsed DEF Steer
  <1>2. UNCHANGED <<files, index, usable, ghosts>> /\ LockMoves(p)
    BY DEF Steer, LockMoves
  <1>3. Begins(p, "steer", "enqueue", j) BY DEF Steer
  <1>4. "steer" \in Verbs /\ "enqueue" \in Places BY DEF Verbs, Places
  <1> QED BY <1>1, <1>2, <1>3, <1>4, BeginsKeeps

(* The steps of the readers.                                               *)
LEMMA ReadIndexKeeps ==
    ASSUME IInv, NEW p \in Processes, ReadIndex(p)
    PROVE  IInv'
  <1> DEFINE r == now'[p]
  <1>1. Typed /\ now \in [Processes -> Process] /\ now[p] \in Process /\ Sound(p, now[p])
    BY OnesOwn
  <1>2. /\ now[p].at = "index"
        /\ now[p].verb = "list" \/ now[p].verb = "logs"
    BY <1>1 DEF ReadIndex, At, Sound, OnPath
  <1>3. /\ Moves(p) /\ r \in Process
        /\ r.at \in {"read", "rebuild"} /\ r.seen = now[p].seen /\ r.got = now[p].got
        /\ r.verb = now[p].verb /\ r.job = now[p].job /\ r.knew = now[p].knew
    <2>1. CASE Agrees(p)
      <3>1. now' = [now EXCEPT ![p] = [now[p] EXCEPT !.at = "read", !.seen = index]]
        BY <1>1, <2>1 DEF ReadIndex
      <3>2. index = now[p].seen /\ index \subseteq Jobs BY <1>1, <2>1 DEF Agrees, Typed
      <3> QED BY <1>1, <3>1, <3>2 DEF Moves, Process, Places
    <2>2. CASE ~Agrees(p)
      <3>1. now' = [now EXCEPT ![p] = [now[p] EXCEPT !.at = "rebuild", !.seen = now[p].seen]]
        BY <1>1, <2>2 DEF ReadIndex
      <3> QED BY <1>1, <3>1 DEF Moves, Process, Places
    <2> QED BY <2>1, <2>2
  <1>4. UNCHANGED <<files, index, usable, ghosts>> /\ LockMoves(p) BY DEF ReadIndex, LockMoves
  <1>5. Fits(r)
    <2>1. LogIsKnown(now[p]) /\ ListIsKnown(now[p]) /\ JobIsUsed(now[p]) BY <1>1 DEF Sound
    <2> HIDE DEF r
    <2>2. LogIsKnown(r) BY <1>2, <1>3, <2>1 DEF LogIsKnown
    <2>3. ListIsKnown(r) BY <1>2, <1>3, <2>1 DEF ListIsKnown
    <2> QED BY <1>2, <1>3, <2>2, <2>3
            DEF Fits, OnPath, JobIsUsed, JobVerbs, Reserved, DropIsSafe
  <1> HIDE DEF r
  <1> QED BY <1>2, <1>3, <1>4, <1>5, QuietMove DEF r, Holds

LEMMA ReadRecordKeeps ==
    ASSUME IInv, NEW p \in Processes, NEW j \in Jobs, ReadRecord(p, j)
    PROVE  IInv'
  <1> DEFINE r == now'[p]
  <1>1. Typed /\ now \in [Processes -> Process] /\ now[p] \in Process /\ Sound(p, now[p])
    BY OnesOwn
  <1>2. now[p].at = "read" /\ now[p].verb = "list" BY DEF ReadRecord, At
  <1>3. /\ Moves(p) /\ r \in Process
        /\ r.at = "read" /\ r.seen = now[p].seen \ {j} /\ now[p].got \subseteq r.got
        /\ Readable(j) => j \in r.got
        /\ r.verb = "list" /\ r.knew = now[p].knew
    <2>1. CASE Readable(j)
      <3>1. now' = [now EXCEPT ![p] = [now[p] EXCEPT !.seen = now[p].seen \ {j},
                                                     !.got = now[p].got \cup {j}]]
        BY <2>1 DEF ReadRecord
      <3> QED BY <1>1, <1>2, <3>1 DEF Moves, Process
    <2>2. CASE ~Readable(j)
      <3>1. now' = [now EXCEPT ![p] = [now[p] EXCEPT !.seen = now[p].seen \ {j},
                                                     !.got = now[p].got]]
        BY <2>2 DEF ReadRecord
      <3> QED BY <1>1, <1>2, <2>2, <3>1 DEF Moves, Process
    <2> QED BY <2>1, <2>2
  <1>4. UNCHANGED <<files, index, usable, ghosts>> /\ LockMoves(p) BY DEF ReadRecord, LockMoves
  <1>5. Fits(r)
    <2>1. ListIsKnown(now[p]) BY <1>1 DEF Sound
    <2> HIDE DEF r
    <2>2. ListIsKnown(r) BY <1>2, <1>3, <2>1 DEF ListIsKnown
    <2> QED BY <1>3, <2>2
            DEF Fits, OnPath, JobIsUsed, JobVerbs, Reserved, DropIsSafe, LogIsKnown
  <1> HIDE DEF r
  <1> QED BY <1>2, <1>3, <1>4, <1>5, QuietMove DEF r, Holds

LEMMA ReadLogKeeps ==
    ASSUME IInv, NEW p \in Processes, ReadLog(p)
    PROVE  IInv'
  <1> DEFINE r == now'[p]
  <1>1. Typed /\ now \in [Processes -> Process] /\ now[p] \in Process /\ Sound(p, now[p])
    BY OnesOwn
  <1>2. now[p].at = "read" /\ now[p].verb = "logs" BY DEF ReadLog, At
  <1>3. LogIsKnown(now[p]) /\ now[p].job \in Jobs BY <1>1, <1>2 DEF Sound, LogIsKnown
  <1>4. /\ Moves(p) /\ r \in Process
        /\ r.at = "record" /\ r.got = {j \in {now[p].job} : log[j] > 0}
        /\ r.verb = "logs" /\ r.knew = now[p].knew /\ r.job = now[p].job
    BY <1>1, <1>2, <1>3 DEF ReadLog, Moves, Process, Places
  <1>5. UNCHANGED <<files, index, usable, ghosts>> /\ LockMoves(p) BY DEF ReadLog, LockMoves
  <1>6. Fits(r)
    <2> HIDE DEF r
    <2>1. LogIsKnown(r) BY <1>2, <1>3, <1>4 DEF LogIsKnown
    <2> QED BY <1>4, <2>1
            DEF Fits, OnPath, JobIsUsed, JobVerbs, Reserved, DropIsSafe, ListIsKnown
  <1> HIDE DEF r
  <1> QED BY <1>2, <1>4, <1>5, <1>6, QuietMove DEF r, Holds

(* The steps that only go on, and change nothing else of their process.    *)
LEMMA GoesOn ==
    ASSUME IInv, NEW p \in Processes, NEW at \in Places, Goes(p, at)
    PROVE  /\ Moves(p) /\ now'[p] \in Process
           /\ now'[p].at = at /\ now'[p].verb = now[p].verb /\ now'[p].job = now[p].job
           /\ now'[p].seen = now[p].seen /\ now'[p].got = now[p].got
           /\ now'[p].knew = now[p].knew /\ now'[p].next = now[p].next
  BY OnesOwn DEF Goes, Moves, Process

LEMMA ReadExitCodeKeeps ==
    ASSUME IInv, NEW p \in Processes, ReadExitCode(p)
    PROVE  IInv'
  <1> DEFINE r == now'[p]
  <1>1. Sound(p, now[p]) BY OnesOwn
  <1>2. now[p].at = "record" /\ now[p].verb = "logs" /\ rec[now[p].job] # "none"
    BY <1>1 DEF ReadExitCode, At, Sound, OnPath, Readable
  <1>3. /\ Moves(p) /\ r \in Process /\ r.at = "shown" /\ r.verb = now[p].verb
        /\ r.job = now[p].job /\ r.got = now[p].got /\ r.knew = now[p].knew
    BY GoesOn DEF ReadExitCode, Places
  <1>4. UNCHANGED <<files, index, usable, ghosts>> /\ LockMoves(p)
    BY DEF ReadExitCode, LockMoves
  <1>5. Fits(r)
    <2> HIDE DEF r
    <2>1. LogIsKnown(now[p]) BY <1>1 DEF Sound
    <2>2. LogIsKnown(r) BY <1>2, <1>3, <2>1 DEF LogIsKnown, Gone
    <2> QED BY <1>2, <1>3, <2>2
            DEF Fits, OnPath, JobIsUsed, JobVerbs, Reserved, DropIsSafe, ListIsKnown
  <1> HIDE DEF r
  <1> QED BY <1>2, <1>3, <1>4, <1>5, QuietMove DEF r, Holds

LEMMA RereadKeeps ==
    ASSUME IInv, NEW p \in Processes, Reread(p)
    PROVE  IInv'
  <1> DEFINE r == now'[p]
  <1>1. Sound(p, now[p]) BY OnesOwn
  <1>2. now[p].at = "reread" /\ now[p].verb = "steer" /\ now[p].job \in used
    BY <1>1 DEF Reread, At, Sound, OnPath, JobIsUsed, JobVerbs
  <1>3. /\ Moves(p) /\ r \in Process /\ r.at = "queued" /\ r.verb = now[p].verb
        /\ r.job = now[p].job
    BY GoesOn DEF Reread, Places
  <1>4. UNCHANGED <<files, index, usable, ghosts>> /\ LockMoves(p) BY DEF Reread, LockMoves
  <1>5. Fits(r)
    <2> HIDE DEF r
    <2> QED BY <1>2, <1>3 DEF Fits, OnPath, JobIsUsed, JobVerbs, Reserved, DropIsSafe,
                              LogIsKnown, ListIsKnown
  <1> HIDE DEF r
  <1> QED BY <1>2, <1>3, <1>4, <1>5, QuietMove DEF r, Holds

LEMMA RebuildKeeps ==
    ASSUME IInv, NEW p \in Processes, Rebuild(p)
    PROVE  IInv'
  <1> DEFINE r == now'[p]
  <1>1. Sound(p, now[p]) BY OnesOwn
  <1>2. now[p].at = "rebuild" /\ (now[p].verb = "list" \/ now[p].verb = "logs")
    BY <1>1 DEF Rebuild, At, Sound, OnPath
  <1>3. /\ Moves(p) /\ r \in Process /\ r.at = "sync" /\ r.verb = now[p].verb
        /\ r.job = now[p].job /\ r.got = now[p].got /\ r.knew = now[p].knew
    BY GoesOn DEF Rebuild, Places
  <1>4. UNCHANGED <<files, index, usable, ghosts>> /\ LockMoves(p) /\ lock' = p
    BY DEF Rebuild, LockMoves, Take, Free
  <1>5. Fits(r)
    <2> HIDE DEF r
    <2>1. LogIsKnown(now[p]) /\ ListIsKnown(now[p]) BY <1>1 DEF Sound
    <2>2. LogIsKnown(r) BY <1>2, <1>3, <2>1 DEF LogIsKnown
    <2>3. ListIsKnown(r) BY <1>2, <1>3, <2>1 DEF ListIsKnown
    <2> QED BY <1>2, <1>3, <2>2, <2>3
            DEF Fits, OnPath, JobIsUsed, JobVerbs, Reserved, DropIsSafe
  <1> HIDE DEF r
  <1> QED BY <1>2, <1>3, <1>4, <1>5, QuietMove DEF r, Holds

LEMMA UnlockKeeps ==
    ASSUME IInv, NEW p \in Processes, Unlock(p)
    PROVE  IInv'
  <1> DEFINE r == now'[p]
  <1>1. Sound(p, now[p]) BY OnesOwn
  <1>2. now[p].at = "unlock" /\ now[p].verb = "finish" /\ now[p].job \in used /\ lock = p
    BY <1>1 DEF Unlock, At, Sound, OnPath, JobIsUsed, JobVerbs, LockIsHeld, Holds
  <1>3. /\ Moves(p) /\ r \in Process /\ r.at = "prune" /\ r.verb = now[p].verb
        /\ r.job = now[p].job
    BY GoesOn DEF Unlock, Places
  <1>4. UNCHANGED <<files, index, usable, ghosts>> /\ LockMoves(p)
    BY <1>2 DEF Unlock, LockMoves
  <1>5. Fits(r)
    <2> HIDE DEF r
    <2> QED BY <1>2, <1>3 DEF Fits, OnPath, JobIsUsed, JobVerbs, Reserved, DropIsSafe,
                              LogIsKnown, ListIsKnown
  <1> HIDE DEF r
  <1> QED BY <1>2, <1>3, <1>4, <1>5, QuietMove DEF r, Holds

LEMMA LaunchKeeps ==
    ASSUME IInv, NEW p \in Processes, Launch(p)
    PROVE  IInv'
  <1> DEFINE r == now'[p]
  <1>1. Sound(p, now[p]) BY OnesOwn
  <1>2. now[p].at = "launch" /\ now[p].verb \in {"task", "resume"} /\ now[p].job \in used
    BY <1>1 DEF Launch, At, Sound, OnPath, JobIsUsed, JobVerbs
  <1>3. /\ Moves(p) /\ r \in Process /\ r.at = "prune" /\ r.verb = now[p].verb
        /\ r.job = now[p].job
    BY GoesOn DEF Launch, Places
  <1>4. UNCHANGED <<files, index, usable, ghosts>> /\ LockMoves(p)
    BY <1>2 DEF Launch, LockMoves
  <1>5. Fits(r)
    <2> HIDE DEF r
    <2> QED BY <1>2, <1>3 DEF Fits, OnPath, JobIsUsed, JobVerbs, Reserved, DropIsSafe,
                              LogIsKnown, ListIsKnown
  <1> HIDE DEF r
  <1> QED BY <1>2, <1>3, <1>4, <1>5, QuietMove DEF r, Holds

(* A reader's first look.                                                  *)
LEMMA ScanKeeps ==
    ASSUME IInv, NEW p \in Processes, NEW v, NEW j,
           \/ v = "list" /\ j = NoJob
           \/ v = "logs" /\ j \in Jobs,
           Scan(p, v, j)
    PROVE  IInv'
  <1> DEFINE r == now'[p]
             k == IF v = "list" THEN {i \in Jobs : Readable(i)} ELSE {i \in {j} : log[i] > 0}
  <1>1. Typed /\ FilesAreUsed /\ now \in [Processes -> Process] BY OnesOwn DEF IInv
  <1>2. now[p].at = "idle" BY IdleIsAProcess DEF Scan
  <1>3. k \in SUBSET Jobs OBVIOUS
  <1>4. /\ Moves(p) /\ r \in Process /\ r.at = "index" /\ r.verb = v /\ r.job = j
        /\ r.seen = Derived /\ r.knew = k
    <2> DEFINE t == [verb |-> v, at |-> "index", job |-> j, seen |-> Derived, got |-> {},
                     knew |-> k, next |-> 1]
    <2>1. now' = [now EXCEPT ![p] = [Idle EXCEPT !.verb = v, !.at = "index", !.job = j,
                                                 !.seen = Derived, !.knew = k]]
      BY DEF Scan
    <2>2. [Idle EXCEPT !.verb = v, !.at = "index", !.job = j, !.seen = Derived, !.knew = k] = t
      <3> HIDE DEF k
      <3>1. [Idle EXCEPT !.verb = v] = Started(v, "idle", NoJob) BY DEF Idle, Started
      <3>2. [Started(v, "idle", NoJob) EXCEPT !.at = "index"] = Started(v, "index", NoJob)
        BY DEF Started
      <3>3. [Started(v, "index", NoJob) EXCEPT !.job = j] = Started(v, "index", j)
        BY DEF Started
      <3>4. [[Started(v, "index", j) EXCEPT !.seen = Derived] EXCEPT !.knew = k] = t
        <4> DEFINE u == [verb |-> v, at |-> "index", job |-> j, seen |-> Derived, got |-> {},
                         knew |-> {}, next |-> 1]
        <4>1. [Started(v, "index", j) EXCEPT !.seen = Derived] = u BY DEF Started
        <4>2. [u EXCEPT !.knew = k] = t OBVIOUS
        <4> QED BY <4>1, <4>2, Zenon
      <3> QED BY <3>1, <3>2, <3>3, <3>4, Zenon
    <2>3. t \in Process BY <1>3 DEF Process, Verbs, Places, Derived
    <2>4. now' = [now EXCEPT ![p] = t] BY <2>1, <2>2, Zenon
    <2>5. Moves(p) /\ now'[p] = t BY <1>1, <2>3, <2>4, MovesTo
    <2> QED BY <2>3, <2>5
  <1>5. UNCHANGED <<files, index, usable, ghosts>> /\ LockMoves(p) BY DEF Scan, LockMoves
  <1>6. Fits(r)
    <2> HIDE DEF r
    <2>1. LogIsKnown(r) BY <1>1, <1>4 DEF LogIsKnown, FilesAreUsed
    <2>2. ListIsKnown(r) BY <1>1, <1>4 DEF ListIsKnown, FilesAreUsed, Readable, Derived
    <2> QED BY <1>4, <2>1, <2>2 DEF Fits, OnPath, JobIsUsed, JobVerbs, Reserved, DropIsSafe
  <1> HIDE DEF r
  <1> QED BY <1>2, <1>4, <1>5, <1>6, QuietMove DEF r, Holds

LEMMA ReportKeeps ==
    ASSUME IInv, NEW p \in Processes, Report(p)
    PROVE  IInv'
  <1>1. now[p].at \notin {"sync", "drop"}
    BY DEF Report, Listed, Unresolved, Refused, At
  <1> QED BY <1>1, DoneKeeps DEF Report

-----------------------------------------------------------------------------
(* The prune.                                                              *)
LEMMA PruneKeeps ==
    ASSUME IInv, NEW p \in Processes, Prune(p)
    PROVE  IInv'
  <1>1. Typed /\ FilesAreUsed /\ now \in [Processes -> Process] BY OnesOwn DEF IInv
  <1>2. now[p].at = "prune" /\ lock = NoProcess BY DEF Prune, At, Free
  <1>3. UNCHANGED <<files, index, usable, ghosts>> BY DEF Prune
  <1>4. PICK D \in Dropped(Keep) :
          IF D = {} THEN Done(p) /\ UNCHANGED lock
          ELSE /\ lock' = p
               /\ now' = [now EXCEPT ![p] = [Idle EXCEPT !.verb = "prune", !.at = "drop", !.got = D]]
    BY DEF Prune
  <1>5. CASE D = {} BY <1>2, <1>3, <1>4, <1>5, DoneKeeps
  <1>6. CASE D # {}
    <2> DEFINE r == [verb |-> "prune", at |-> "drop", job |-> NoJob, seen |-> {}, got |-> D,
                     knew |-> {}, next |-> 1]
    <2>1. D \subseteq Finished BY <1>6 DEF Dropped
    <2>2. \A j \in D : j \in used /\ rec[j] = "finished"
      BY <1>1, <2>1 DEF Finished, FilesAreUsed
    <2>3. [Idle EXCEPT !.verb = "prune", !.at = "drop", !.got = D] = r
      <3>1. [Idle EXCEPT !.verb = "prune"] = Started("prune", "idle", NoJob)
        BY DEF Idle, Started
      <3>2. [Started("prune", "idle", NoJob) EXCEPT !.at = "drop"] = Started("prune", "drop", NoJob)
        BY DEF Started
      <3>3. [Started("prune", "drop", NoJob) EXCEPT !.got = D] = r BY DEF Started
      <3> QED BY <3>1, <3>2, <3>3
    <2>4. now' = [now EXCEPT ![p] = r] BY <1>4, <1>6, <2>3, Zenon
    <2>5. r \in Process BY <2>1 DEF Process, Verbs, Places, Finished
    <2>6. Fits(r)
      BY <2>2 DEF Fits, OnPath, JobIsUsed, JobVerbs, Reserved, DropIsSafe, LogIsKnown, ListIsKnown
    <2>7. lock' = p /\ LockMoves(p) BY <1>2, <1>4, <1>6 DEF LockMoves
    <2> QED BY <1>2, <1>3, <2>4, <2>5, <2>6, <2>7, QuietTo
  <1> QED BY <1>5, <1>6

(* A prune's facts about itself.                                           *)
LEMMA Dropping ==
    ASSUME IInv, NEW p \in Processes, now[p].at = "drop"
    PROVE  now[p].verb = "prune" /\ lock = p /\ DropIsSafe(now[p])
  BY OnesOwn DEF Sound, OnPath, LockIsHeld, Holds

LEMMA NextDropKeeps ==
    ASSUME IInv, NEW p \in Processes, NextDrop(p)
    PROVE  IInv'
  <1> DEFINE r == now'[p]
  <1>1. now[p].at = "drop" /\ now[p].job = NoJob BY DEF NextDrop, At
  <1>2. now[p].verb = "prune" /\ lock = p /\ DropIsSafe(now[p]) BY <1>1, Dropping
  <1>3. UNCHANGED <<files, index, usable, ghosts>> /\ LockMoves(p) /\ lock' = p
    BY <1>2 DEF NextDrop, LockMoves
  <1>4. CASE now[p].got = {}
    <2>1. Moves(p) /\ r \in Process /\ r.at = "sync" /\ r.verb = "prune"
      BY <1>1, <1>2, <1>4, GoesOn DEF NextDrop, Places
    <2> HIDE DEF r
    <2>2. Fits(r)
      BY <2>1 DEF Fits, OnPath, JobIsUsed, JobVerbs, Reserved, DropIsSafe, LogIsKnown, ListIsKnown
    <2> QED BY <1>1, <1>3, <2>1, <2>2, QuietMove DEF r
  <1>5. CASE now[p].got # {}
    <2>1. PICK j \in now[p].got : now' = [now EXCEPT ![p].job = j]
      BY <1>5 DEF NextDrop
    <2>2. now \in [Processes -> Process] /\ now[p] \in Process BY OnesOwn
    <2>3. j \in Jobs BY <2>2 DEF Process
    <2>4. /\ Moves(p) /\ r \in Process /\ r.at = "drop" /\ r.verb = "prune" /\ r.job = j
          /\ r.got = now[p].got /\ r.next = now[p].next
      BY <1>1, <1>2, <2>1, <2>2, <2>3 DEF Moves, Process
    <2> HIDE DEF r
    <2>5. DropIsSafe(r) BY <1>1, <1>2, <2>1, <2>4 DEF DropIsSafe
    <2>6. Fits(r)
      BY <2>4, <2>5 DEF Fits, OnPath, JobIsUsed, JobVerbs, Reserved, LogIsKnown, ListIsKnown
    <2> QED BY <1>1, <1>3, <2>4, <2>6, QuietMove DEF r
  <1> QED BY <1>4, <1>5

-----------------------------------------------------------------------------
(* The steps that write sidecars.  A process on a Job of its own relies on *)
(* its Job being used, on the lock, and on its reservation.                *)
LEMMA JobVerbIsSound ==
    ASSUME NEW p \in Processes, now'[p].verb \in JobVerbs, OnPath(now'[p]),
           now'[p].job \in used', Holds(now'[p]) => lock' = p,
           now'[p].at \in {"seed", "publish"} => rec'[now'[p].job] = "empty"
    PROVE  Sound(p, now[p])'
  <1>1. now'[p].at # "drop" /\ now'[p].verb \notin {"list", "logs"}
    BY DEF OnPath, JobVerbs
  <1>2. OnPath(now[p])' BY DEF OnPath
  <1>3. JobIsUsed(now[p])' BY DEF JobIsUsed
  <1>4. LockIsHeld(p, now[p])' BY DEF LockIsHeld, Holds
  <1>5. Reserved(now[p])' BY DEF Reserved
  <1>6. DropIsSafe(now[p])' /\ LogIsKnown(now[p])' /\ ListIsKnown(now[p])'
    BY <1>1 DEF DropIsSafe, LogIsKnown, ListIsKnown
  <1> QED BY <1>2, <1>3, <1>4, <1>5, <1>6 DEF Sound

LEMMA WritesKeeps ==
    ASSUME IInv, NEW p \in Processes, NEW some \in SUBSET Sidecars, Writes(p, some),
           UNCHANGED log, Moves(p), now[p].verb \in JobVerbs, now[p].at \notin {"sync", "drop"},
           now'[p].verb \in JobVerbs, now'[p].job = now[p].job, OnPath(now'[p]),
           Holds(now'[p]) => lock = p,
           Publishing(p)' => Publishing(p)
    PROVE  IInv'
  <1>1. Sound(p, now[p]) BY OnesOwn
  <1>2. now[p].job \in used BY <1>1 DEF Sound, JobIsUsed
  <1>3. UNCHANGED <<rec, lock, used>> BY DEF Writes
  <1>4. now'[p].at \in {"seed", "publish"} => rec'[now'[p].job] = "empty"
    BY <1>1, <1>3 DEF Sound, Reserved, Publishing
  <1>5. Sound(p, now[p])' BY <1>2, <1>3, <1>4, JobVerbIsSound
  <1>6. FreshPublisher(p) BY DEF FreshPublisher
  <1> QED BY <1>1, <1>2, <1>5, <1>6, WritesStep

LEMMA SeedThreadKeeps ==
    ASSUME IInv, NEW p \in Processes, SeedThread(p)
    PROVE  IInv'
  <1>1. Sound(p, now[p]) BY OnesOwn
  <1>2. now[p].at = "seed" /\ now[p].verb = "resume" /\ lock = p
    BY <1>1 DEF SeedThread, At, Sound, OnPath, LockIsHeld, Holds
  <1>3. /\ Moves(p) /\ now'[p].at = "publish" /\ now'[p].verb = "resume"
        /\ now'[p].job = now[p].job
    BY <1>2, GoesOn DEF SeedThread, Places
  <1>4. Writes(p, {"thread"}) /\ UNCHANGED log /\ {"thread"} \in SUBSET Sidecars
    BY DEF SeedThread, Sidecars
  <1>5. OnPath(now'[p]) BY <1>3 DEF OnPath
  <1> QED BY <1>2, <1>3, <1>4, <1>5, WritesKeeps DEF JobVerbs, Publishing

LEMMA SteerDirKeeps ==
    ASSUME IInv, NEW p \in Processes, SteerDir(p)
    PROVE  IInv'
  <1>1. Sound(p, now[p]) BY OnesOwn
  <1>2. now[p].at = "steerdir" /\ now[p].verb \in {"task", "resume"}
    BY <1>1 DEF SteerDir, At, Sound, OnPath
  <1>3. /\ Moves(p) /\ now'[p].at = "spawn" /\ now'[p].verb = now[p].verb
        /\ now'[p].job = now[p].job
    BY GoesOn DEF SteerDir, Places
  <1>4. Writes(p, {"steer"}) /\ UNCHANGED log /\ {"steer"} \in SUBSET Sidecars
    BY DEF SteerDir, Sidecars
  <1>5. OnPath(now'[p]) BY <1>2, <1>3 DEF OnPath
  <1>6. ~Publishing(p)' /\ ~Holds(now'[p]) BY <1>3 DEF Publishing, Holds
  <1>7. now[p].verb \in JobVerbs BY <1>2 DEF JobVerbs
  <1> QED BY <1>2, <1>3, <1>4, <1>5, <1>6, <1>7, WritesKeeps

LEMMA SpawnKeeps ==
    ASSUME IInv, NEW p \in Processes, Spawn(p)
    PROVE  IInv'
  <1>1. Sound(p, now[p]) BY OnesOwn
  <1>2. now[p].at = "spawn" /\ now[p].verb \in {"task", "resume"}
    BY <1>1 DEF Spawn, At, Sound, OnPath
  <1>3. /\ Moves(p) /\ now'[p].at = "launch" /\ now'[p].verb = now[p].verb
        /\ now'[p].job = now[p].job
    BY GoesOn DEF Spawn, Places
  <1>4. Writes(p, {"spawn"}) /\ UNCHANGED log /\ {"spawn"} \in SUBSET Sidecars
    BY DEF Spawn, Sidecars
  <1>5. OnPath(now'[p]) BY <1>2, <1>3 DEF OnPath
  <1>6. ~Publishing(p)' /\ ~Holds(now'[p]) BY <1>3 DEF Publishing, Holds
  <1>7. now[p].verb \in JobVerbs BY <1>2 DEF JobVerbs
  <1> QED BY <1>2, <1>3, <1>4, <1>5, <1>6, <1>7, WritesKeeps

LEMMA EnqueueKeeps ==
    ASSUME IInv, NEW p \in Processes, Enqueue(p)
    PROVE  IInv'
  <1>1. Sound(p, now[p]) BY OnesOwn
  <1>2. now[p].at = "enqueue" /\ now[p].verb = "steer"
    BY <1>1 DEF Enqueue, At, Sound, OnPath
  <1>3. /\ Moves(p) /\ now'[p].at = "reread" /\ now'[p].verb = now[p].verb
        /\ now'[p].job = now[p].job
    BY GoesOn DEF Enqueue, Places
  <1>4. Writes(p, {"steer"}) /\ UNCHANGED log /\ {"steer"} \in SUBSET Sidecars
    BY DEF Enqueue, Sidecars
  <1>5. OnPath(now'[p]) BY <1>2, <1>3 DEF OnPath
  <1>6. ~Publishing(p)' /\ ~Holds(now'[p]) BY <1>3 DEF Publishing, Holds
  <1>7. now[p].verb \in JobVerbs BY <1>2 DEF JobVerbs
  <1> QED BY <1>2, <1>3, <1>4, <1>5, <1>6, <1>7, WritesKeeps

LEMMA PrecreateKeeps ==
    ASSUME IInv, NEW p \in Processes, Precreate(p)
    PROVE  IInv'
  <1>1. Sound(p, now[p]) /\ now \in [Processes -> Process] BY OnesOwn
  <1>2. now[p].at = "precreate" /\ now[p].verb = "claim"
    BY <1>1 DEF Precreate, At, Sound, OnPath
  <1>3. /\ Moves(p) /\ now'[p].at = "work" /\ now'[p].verb = "work"
        /\ now'[p].job = now[p].job
    <2>1. now' = [now EXCEPT ![p] = [@ EXCEPT !.verb = "work", !.at = "work"]] BY DEF Precreate
    <2>2. "work" \in Verbs /\ "work" \in Places BY DEF Verbs, Places
    <2>3. now[p] \in Process BY <1>1
    <2> QED BY <1>1, <2>1, <2>2, <2>3 DEF Moves, Process
  <1>4. DEFINE four == {"log", "thread", "result", "steer"}
  <1>5. Writes(p, four) /\ UNCHANGED log /\ four \in SUBSET Sidecars
    BY DEF Precreate, Sidecars
  <1>6. OnPath(now'[p]) BY <1>3 DEF OnPath
  <1>7. ~Publishing(p)' /\ ~Holds(now'[p]) BY <1>3 DEF Publishing, Holds
  <1>8. now[p].verb \in JobVerbs /\ now'[p].verb \in JobVerbs BY <1>2, <1>3 DEF JobVerbs
  <1> HIDE DEF four
  <1> QED BY <1>2, <1>3, <1>5, <1>6, <1>7, <1>8, WritesKeeps

LEMMA WriteLogKeeps ==
    ASSUME IInv, NEW p \in Processes, WriteLog(p)
    PROVE  IInv'
  <1> DEFINE k == now[p].job
  <1>1. Typed /\ FilesAreUsed /\ IndexBehind /\ OrphansHaveACause /\ Sound(p, now[p])
    BY OnesOwn DEF IInv
  <1>2. /\ now[p].at = "work" /\ now[p].verb = "work" /\ k \in used /\ k \in Jobs
        /\ "log" \in side[k] /\ log[k] < MaxLog
    BY <1>1 DEF WriteLog, At, Sound, OnPath, JobIsUsed, JobVerbs, Typed
  <1>3. log' = [log EXCEPT ![k] = @ + 1] /\ UNCHANGED <<rec, side, index, usable, lock, now, ghosts>>
    BY DEF WriteLog
  <1>4. log' \in [Jobs -> 0..MaxLog]
    <2>1. log[k] + 1 \in 0..MaxLog BY <1>1, <1>2, StoreAssumption DEF Typed
    <2> QED BY <1>1, <1>3, <2>1 DEF Typed
  <1>5. \A j \in Jobs : log[j] > 0 => log'[j] > 0
    BY <1>1, <1>2, <1>3 DEF Typed
  <1>6. Typed' /\ Moves(p) BY <1>1, <1>3, <1>4 DEF Typed, Moves, ghosts
  <1>7. FilesAreUsed'
    <2>1. \A j \in Jobs : log'[j] > 0 => "log" \in side[j]
      BY <1>1, <1>2, <1>3 DEF FilesAreUsed, Typed
    <2> QED BY <1>1, <1>3, <2>1 DEF FilesAreUsed, ghosts
  <1>8. Gentle(p) BY <1>1, <1>3, <1>5 DEF Gentle, Advances, Typed, ghosts
  <1>9. IndexBehind' /\ OrphansHaveACause'
    BY <1>1, <1>3 DEF IndexBehind, OrphansHaveACause, Derived, At, ghosts
  <1>10. Sound(p, now[p])'
    <2>1. now'[p] = now[p] /\ used' = used BY <1>3 DEF ghosts
    <2>2. now'[p].verb \in JobVerbs /\ now'[p].job \in used' /\ OnPath(now'[p])
      BY <1>1, <1>2, <2>1 DEF JobVerbs, Sound
    <2>3. ~Holds(now'[p]) /\ now'[p].at \notin {"seed", "publish"} BY <1>2, <2>1 DEF Holds
    <2> QED BY <2>2, <2>3, JobVerbIsSound
  <1>11. FreshPublisher(p) BY <1>2, <1>3 DEF FreshPublisher, Publishing
  <1> QED BY <1>6, <1>7, <1>8, <1>9, <1>10, <1>11, StepKeeps

-----------------------------------------------------------------------------
(* The steps that write a record inside a critical section.                *)
LEMMA SectionKeeps ==
    ASSUME IInv, NEW p \in Processes, NEW k \in used, NEW x,
           \/ rec[k] = "empty" /\ x = "active" /\ now[p].at = "publish" /\ now[p].job = k
           \/ rec[k] = "active" /\ x = "finished",
           rec' = [rec EXCEPT ![k] = x], UNCHANGED <<side, log, index, usable, ghosts>>,
           lock \in {p, NoProcess}, lock' = p, now[p].at # "drop",
           Moves(p), now'[p].at = "sync", now'[p].verb \in JobVerbs, now'[p].job = k,
           OnPath(now'[p])
    PROVE  IInv'
  <1>1. Typed /\ FilesAreUsed /\ OrphansHaveACause /\ k \in Jobs BY OnesOwn DEF IInv
  <1>2. rec' \in [Jobs -> {"none", "empty", "active", "finished"}] /\ rec'[k] = x
    BY <1>1 DEF Typed
  <1>3. \A j \in Jobs : j # k => rec'[j] = rec[j] BY <1>1 DEF Typed
  <1>4. Typed' BY <1>1, <1>2 DEF Typed, Moves, ghosts
  <1>5. FilesAreUsed' BY <1>1, <1>3 DEF FilesAreUsed, ghosts
  <1>6. Gentle(p)
    <2>1. \A j \in used : Advances(j) BY <1>1, <1>2, <1>3 DEF Advances, Typed
    <2>2. \A j \in used : rec[j] = "empty" /\ rec'[j] # "empty"
                => now[p].at = "publish" /\ now[p].job = j
      BY <1>1, <1>2, <1>3 DEF Typed
    <2> QED BY <1>1, <2>1, <2>2 DEF Gentle, Typed, ghosts
  <1>7. IndexBehind' BY DEF IndexBehind
  <1>8. OrphansHaveACause'
    <2> SUFFICES ASSUME NEW j \in Jobs, rec'[j] = "none", side[j] # {}, j \notin cut \cup late
                 PROVE  \E q \in Processes : now'[q].at = "drop" /\ now'[q].job = j
      BY DEF OrphansHaveACause, At, ghosts
    <2>1. rec[j] = "none" BY <1>2, <1>3
    <2>2. PICK q \in Processes : now[q].at = "drop" /\ now[q].job = j
      BY <1>1, <2>1 DEF OrphansHaveACause, At
    <2>3. q # p BY <2>2
    <2> QED BY <2>2, <2>3 DEF Moves
  <1>9. Sound(p, now[p])' BY JobVerbIsSound DEF ghosts
  <1>10. FreshPublisher(p) BY DEF FreshPublisher, Publishing
  <1> QED BY <1>4, <1>5, <1>6, <1>7, <1>8, <1>9, <1>10, StepKeeps

LEMMA PublishKeeps ==
    ASSUME IInv, NEW p \in Processes, Publish(p)
    PROVE  IInv'
  <1> DEFINE k == now[p].job
  <1>1. Sound(p, now[p]) BY OnesOwn
  <1>2. now[p].at = "publish" /\ now[p].verb \in {"task", "resume"}
    BY <1>1 DEF Publish, At, Sound, OnPath
  <1>3. k \in used /\ rec[k] = "empty"
    BY <1>1, <1>2 DEF Sound, JobIsUsed, JobVerbs, Reserved
  <1>4. lock \in {p, NoProcess} /\ lock' = p BY DEF Publish, Take, Free
  <1>5. rec' = [rec EXCEPT ![k] = "active"] /\ UNCHANGED <<side, log, index, usable, ghosts>>
    BY DEF Publish
  <1>6. Moves(p) /\ now'[p].at = "sync" /\ now'[p].verb = now[p].verb /\ now'[p].job = k
    BY GoesOn DEF Publish, Places
  <1>7. OnPath(now'[p]) /\ now'[p].verb \in JobVerbs BY <1>2, <1>6 DEF OnPath, JobVerbs
  <1> QED BY <1>2, <1>3, <1>4, <1>5, <1>6, <1>7, SectionKeeps

LEMMA CancelKeeps ==
    ASSUME IInv, NEW p \in Processes, NEW j \in Jobs, Cancel(p, j)
    PROVE  IInv'
  <1>1. j \in used /\ rec[j] = "active" BY FilesOfUsed DEF Cancel
  <1>2. "cancel" \in Verbs /\ "sync" \in Places BY DEF Verbs, Places
  <1>3. now' = [now EXCEPT ![p] = Started("cancel", "sync", j)] /\ now[p].at = "idle"
        /\ Started("cancel", "sync", j) \in Process
    BY <1>2, BeginsStarts DEF Cancel
  <1>4. Moves(p) /\ now'[p] = Started("cancel", "sync", j) BY <1>3, OnesOwn, MovesTo
  <1>5. now'[p].at = "sync" /\ now'[p].verb = "cancel" /\ now'[p].job = j
    BY <1>4 DEF Started
  <1>6. OnPath(now'[p]) /\ now'[p].verb \in JobVerbs BY <1>5 DEF OnPath, JobVerbs
  <1>7. /\ lock = NoProcess /\ lock' = p /\ rec' = [rec EXCEPT ![j] = "finished"]
        /\ UNCHANGED <<side, log, index, usable, ghosts>>
    BY DEF Cancel, Take, Free
  <1> QED BY <1>1, <1>3, <1>4, <1>5, <1>6, <1>7, SectionKeeps

(* A terminal write, of a worker or of a dispatcher without a child.       *)
LEMMA TerminalKeeps ==
    ASSUME IInv, NEW p \in Processes, Terminal(p),
           now[p].verb \in {"work", "task", "resume"}, now[p].at \in {"work", "spawn", "launch"}
    PROVE  IInv'
  <1> DEFINE k == now[p].job
             r == now'[p]
  <1>1. Typed /\ Sound(p, now[p]) /\ now \in [Processes -> Process] /\ now[p] \in Process
    BY OnesOwn
  <1>2. k \in used
    BY <1>1 DEF Sound, JobIsUsed, JobVerbs
  <1>3. lock = NoProcess /\ lock' = p /\ UNCHANGED <<side, log, index, usable, ghosts>>
    BY DEF Terminal, Take, Free
  <1>4. CASE rec[k] = "active"
    <2>1. rec' = [rec EXCEPT ![k] = "finished"]
          /\ now' = [now EXCEPT ![p] = [@ EXCEPT !.verb = "finish", !.at = "sync"]]
      BY <1>4 DEF Terminal
    <2>2. "finish" \in Verbs /\ "sync" \in Places BY DEF Verbs, Places
    <2>3. Moves(p) /\ r.at = "sync" /\ r.verb = "finish" /\ r.job = k
      BY <1>1, <2>1, <2>2 DEF Moves, Process
    <2>4. OnPath(r) /\ r.verb \in JobVerbs BY <2>3 DEF OnPath, JobVerbs
    <2> QED BY <1>2, <1>3, <1>4, <2>1, <2>3, <2>4, SectionKeeps
  <1>5. CASE rec[k] # "active"
    <2>1. UNCHANGED rec /\ now' = [now EXCEPT ![p] = [@ EXCEPT !.verb = "finish",
                                                               !.at = "unlock"]]
      BY <1>5 DEF Terminal
    <2>2. "finish" \in Verbs /\ "unlock" \in Places BY DEF Verbs, Places
    <2>3. Moves(p) /\ r \in Process /\ r.at = "unlock" /\ r.verb = "finish" /\ r.job = k
      BY <1>1, <2>1, <2>2 DEF Moves, Process
    <2>4. UNCHANGED <<files, index, usable, ghosts>> /\ LockMoves(p)
      BY <1>3, <2>1 DEF files, LockMoves
    <2> HIDE DEF r
    <2>5. Fits(r)
      BY <1>2, <2>3 DEF Fits, OnPath, JobIsUsed, JobVerbs, Reserved, DropIsSafe,
                        LogIsKnown, ListIsKnown
    <2> QED BY <1>2, <1>3, <2>3, <2>4, <2>5, QuietMove DEF r
  <1> QED BY <1>4, <1>5

LEMMA FinishKeeps ==
    ASSUME IInv, NEW p \in Processes, Finish(p)
    PROVE  IInv'
  <1>1. Sound(p, now[p]) BY OnesOwn
  <1>2. now[p].verb = "work" /\ now[p].at = "work" BY <1>1 DEF Finish, At, Sound, OnPath
  <1> QED BY <1>2, TerminalKeeps DEF Finish

LEMMA SpawnFailsKeeps ==
    ASSUME IInv, NEW p \in Processes, SpawnFails(p)
    PROVE  IInv'
  <1>1. Sound(p, now[p]) BY OnesOwn
  <1>2. now[p].verb \in {"task", "resume"} /\ now[p].at \in {"spawn", "launch"}
    BY <1>1 DEF SpawnFails, At, Sound, OnPath
  <1> QED BY <1>2, TerminalKeeps DEF SpawnFails

(* A reservation: of an id that no file and no process knows.              *)
LEMMA ReserveKeeps ==
    ASSUME IInv, NEW p \in Processes, NEW j \in Jobs, NEW v \in Verbs, NEW at \in Places,
           \/ v = "task" /\ at = "publish" /\ UNCHANGED lock
           \/ v = "resume" /\ at = "seed" /\ Take(p),
           Begins(p, v, at, j), Reserve(p, j)
    PROVE  IInv'
  <1> DEFINE r == Started(v, at, j)
  <1>1. Typed /\ FilesAreUsed /\ IndexBehind /\ OrphansHaveACause BY DEF IInv
  <1>2. now' = [now EXCEPT ![p] = r] /\ r \in Process /\ now[p].at = "idle"
    BY BeginsStarts
  <1>3. Moves(p) /\ now'[p] = r BY <1>1, <1>2, MovesTo
  <1>4. r.verb = v /\ r.at = at /\ r.job = j BY DEF Started
  <1> HIDE DEF r
  <1>5. /\ j \notin used /\ used' = used \cup {j} /\ rec' = [rec EXCEPT ![j] = "empty"]
        /\ UNCHANGED <<side, log, index, usable, cut, late, torn, crashes>>
    BY DEF Reserve
  <1>6. rec[j] = "none" /\ side[j] = {} /\ rec'[j] = "empty"
    BY <1>1, <1>5 DEF FilesAreUsed, Typed
  <1>7. \A k \in Jobs : k # j => rec'[k] = rec[k] BY <1>1, <1>5 DEF Typed
  <1>8. lock' \in {lock, p} /\ (lock' # lock => lock = NoProcess)
    BY DEF Take, Free
  <1>9. Typed'
    <2>1. rec' \in [Jobs -> {"none", "empty", "active", "finished"}] BY <1>1, <1>5 DEF Typed
    <2>2. used' \subseteq Jobs /\ cut' \subseteq used' /\ late' \subseteq used'
      BY <1>1, <1>5 DEF Typed
    <2>3. lock' \in Processes \cup {NoProcess} BY <1>1, <1>8 DEF Typed
    <2> QED BY <1>1, <1>3, <1>5, <2>1, <2>2, <2>3 DEF Typed, Moves
  <1>10. FilesAreUsed' BY <1>1, <1>5, <1>7 DEF FilesAreUsed
  <1>11. Gentle(p)
    <2>1. \A k \in used : rec'[k] = rec[k] BY <1>1, <1>5, <1>7 DEF Typed
    <2> QED BY <1>1, <1>5, <1>8, <2>1 DEF Gentle, Advances, Typed
  <1>12. IndexBehind'
    <2>1. (\A q \in Processes : now'[q].at \notin {"sync", "drop"}) =>
              \A q \in Processes : now[q].at \notin {"sync", "drop"}
      BY <1>2, <1>3 DEF Moves
    <2>2. Derived \subseteq Derived' /\ \A k \in Derived' : k = j \/ k \in Derived
      BY <1>6, <1>7 DEF Derived
    <2> QED BY <1>1, <1>5, <1>6, <1>7, <2>1, <2>2 DEF IndexBehind, Derived
  <1>13. OrphansHaveACause'
    <2> SUFFICES ASSUME NEW k \in Jobs, rec'[k] = "none", side[k] # {}, k \notin cut \cup late
                 PROVE  \E q \in Processes : now'[q].at = "drop" /\ now'[q].job = k
      BY <1>5 DEF OrphansHaveACause, At
    <2>1. rec[k] = "none" BY <1>6, <1>7
    <2>2. PICK q \in Processes : now[q].at = "drop" /\ now[q].job = k
      BY <1>1, <2>1 DEF OrphansHaveACause, At
    <2>3. q # p BY <1>2, <2>2
    <2> QED BY <1>3, <2>2, <2>3 DEF Moves
  <1>14. Sound(p, now[p])'
    <2>1. OnPath(now'[p]) /\ now'[p].verb \in JobVerbs BY <1>3, <1>4 DEF OnPath, JobVerbs
    <2>2. now'[p].job \in used' /\ rec'[now'[p].job] = "empty" BY <1>3, <1>4, <1>5, <1>6
    <2>3. Holds(now'[p]) => lock' = p BY <1>3, <1>4 DEF Holds, Take
    <2> QED BY <2>1, <2>2, <2>3, JobVerbIsSound
  <1>15. FreshPublisher(p) BY <1>3, <1>4, <1>5 DEF FreshPublisher
  <1> QED BY <1>3, <1>9, <1>10, <1>11, <1>12, <1>13, <1>14, <1>15, StepKeeps

LEMMA TaskKeeps ==
    ASSUME IInv, NEW p \in Processes, NEW j \in Jobs, Task(p, j)
    PROVE  IInv'
  <1>1. "task" \in Verbs /\ "publish" \in Places BY DEF Verbs, Places
  <1>2. Begins(p, "task", "publish", j) /\ Reserve(p, j) /\ UNCHANGED lock BY DEF Task
  <1> QED BY <1>1, <1>2, ReserveKeeps

LEMMA ResumeKeeps ==
    ASSUME IInv, NEW p \in Processes, NEW j \in Jobs, Resume(p, j)
    PROVE  IInv'
  <1>1. "resume" \in Verbs /\ "seed" \in Places BY DEF Verbs, Places
  <1>2. Begins(p, "resume", "seed", j) /\ Reserve(p, j) /\ Take(p) BY DEF Resume
  <1> QED BY <1>1, <1>2, ReserveKeeps

-----------------------------------------------------------------------------
(* The end of a critical section.                                          *)
LEMMA SyncKeeps ==
    ASSUME IInv, NEW p \in Processes, Sync(p)
    PROVE  IInv'
  <1> DEFINE r == now'[p]
             v == now[p].verb
  <1>1. Typed /\ FilesAreUsed /\ OrphansHaveACause /\ Sound(p, now[p])
        /\ now \in [Processes -> Process] /\ now[p] \in Process
    BY OnesOwn DEF IInv
  <1>2. now[p].at = "sync" /\ lock = p
    BY <1>1 DEF Sync, At, Sound, LockIsHeld, Holds
  <1>3. v \in {"task", "resume", "claim", "finish", "cancel", "prune", "list", "logs"}
    BY <1>1, <1>2 DEF Sound, OnPath
  <1>4. /\ index' = Derived /\ usable' = TRUE /\ torn' = FALSE /\ lock' = NoProcess
        /\ UNCHANGED <<rec, side, log, cut, late, used, crashes>>
    BY DEF Sync, Rewritten, files
  <1>5. Moves(p) /\ r.at \notin {"sync", "drop", "seed", "publish", "unlock"} /\ Fits(r)
    <2>1. CASE v = "prune"
      <3>1. AfterSync(v) = "end" BY <2>1 DEF AfterSync
      <3>2. now' = [now EXCEPT ![p] = Idle] BY <3>1 DEF Sync
      <3>3. Moves(p) /\ r = Idle BY <1>1, <3>2, IdleIsAProcess, MovesTo
      <3> QED BY <3>3, IdleFits, IdleIsAProcess
    <2>2. CASE v \in {"task", "resume", "claim", "finish", "cancel"}
      <3>1. AfterSync(v) \in {"steerdir", "precreate", "prune"} BY <2>2 DEF AfterSync
      <3>2. now' = [now EXCEPT ![p] = [now[p] EXCEPT !.at = AfterSync(v), !.seen = @]]
        BY <2>2, <3>1 DEF Sync
      <3>3. AfterSync(v) \in Places BY <3>1 DEF Places
      <3>4. /\ Moves(p) /\ r.at = AfterSync(v) /\ r.verb = v /\ r.job = now[p].job
        <4>1. PICK at \in Places : at = AfterSync(v) BY <3>3
        <4>2. now' = [now EXCEPT ![p] = [now[p] EXCEPT !.at = at, !.seen = now[p].seen]]
          BY <3>2, <4>1
        <4> HIDE DEF v
        <4> QED BY <1>1, <4>1, <4>2 DEF Moves, Process, v
      <3>5. OnPath(r) BY <2>2, <3>4 DEF AfterSync, OnPath
      <3>6. JobIsUsed(r) BY <1>1, <3>4 DEF Sound, JobIsUsed
      <3> HIDE DEF r
      <3> QED BY <2>2, <3>1, <3>4, <3>5, <3>6
              DEF Fits, Reserved, DropIsSafe, LogIsKnown, ListIsKnown
    <2>3. CASE v \in {"list", "logs"}
      <3>1. AfterSync(v) = "read" BY <2>3 DEF AfterSync
      <3>2. now' = [now EXCEPT ![p] = [@ EXCEPT !.at = "read", !.seen = Derived]]
        BY <2>3, <3>1 DEF Sync
      <3>3. "read" \in Places /\ Derived \in SUBSET Jobs BY DEF Places, Derived
      <3>4. /\ Moves(p) /\ r.at = "read" /\ r.verb = v /\ r.job = now[p].job
            /\ r.seen = Derived /\ r.got = now[p].got /\ r.knew = now[p].knew
        BY <1>1, <3>2, <3>3 DEF Moves, Process
      <3>5. LogIsKnown(now[p]) /\ ListIsKnown(now[p]) BY <1>1 DEF Sound
      <3>6. now[p].knew \subseteq Jobs BY <1>1 DEF Process
      <3> HIDE DEF r
      <3>7. LogIsKnown(r) BY <1>2, <3>4, <3>5 DEF LogIsKnown
      <3>8. ListIsKnown(r) BY <3>4, <3>5, <3>6 DEF ListIsKnown, Readable, Derived
      <3> QED BY <2>3, <3>4, <3>7, <3>8
              DEF Fits, OnPath, JobIsUsed, JobVerbs, Reserved, DropIsSafe
    <2> QED BY <1>3, <2>1, <2>2, <2>3
  <1> HIDE DEF v
  <1>6. Typed'
    <2>1. Derived \subseteq Jobs BY DEF Derived
    <2> QED BY <1>1, <1>4, <1>5, <2>1 DEF Typed, Moves
  <1>7. FilesAreUsed' BY <1>1, <1>4 DEF FilesAreUsed
  <1>8. Gentle(p) BY <1>2, <1>4 DEF Gentle, Advances
  <1>9. IndexBehind' BY <1>4 DEF IndexBehind, Derived
  <1>10. OrphansHaveACause'
    <2> SUFFICES ASSUME NEW j \in Jobs, rec[j] = "none", side[j] # {}, j \notin cut \cup late
                 PROVE  \E q \in Processes : now'[q].at = "drop" /\ now'[q].job = j
      BY <1>4 DEF OrphansHaveACause, At
    <2>1. PICK q \in Processes : now[q].at = "drop" /\ now[q].job = j
      BY <1>1 DEF OrphansHaveACause, At
    <2>2. q # p BY <1>2, <2>1
    <2> QED BY <1>5, <2>1, <2>2 DEF Moves
  <1>11. Sound(p, now[p])'
    <2>1. OnPath(now[p])' /\ JobIsUsed(now[p])' /\ Reserved(now[p])'
      BY <1>4, <1>5 DEF Fits, OnPath, JobIsUsed, Reserved
    <2>2. DropIsSafe(now[p])' BY <1>5 DEF DropIsSafe
    <2>3. LogIsKnown(now[p])' BY <1>4, <1>5 DEF Fits, LogIsKnown, Gone
    <2>4. ListIsKnown(now[p])' BY <1>4, <1>5 DEF Fits, ListIsKnown, Readable
    <2>5. LockIsHeld(p, now[p])' BY <1>5 DEF LockIsHeld, Holds
    <2> QED BY <2>1, <2>2, <2>3, <2>4, <2>5 DEF Sound
  <1>12. FreshPublisher(p) BY <1>5 DEF FreshPublisher, Publishing
  <1> QED BY <1>5, <1>6, <1>7, <1>8, <1>9, <1>10, <1>11, <1>12, StepKeeps

-----------------------------------------------------------------------------
(* The removal of a Job's files.  The record comes first, and every        *)
(* sidecar follows.                                                        *)
LEMMA DropOrderIs ==
    /\ Len(DropOrder) = 6 /\ DropOrder[1] = "record" /\ DropOrder[2] = "log"
    /\ \A i \in 2..6 : DropOrder[i] \in Sidecars /\ DropOrder[i] # "record"
    /\ \A f \in Sidecars : \E i \in 2..6 : DropOrder[i] = f
  <1>1. /\ Len(DropOrder) = 6 /\ DropOrder[1] = "record" /\ DropOrder[2] = "log"
        /\ DropOrder[3] = "spawn" /\ DropOrder[4] = "thread" /\ DropOrder[5] = "result"
        /\ DropOrder[6] = "steer"
    BY DEF DropOrder
  <1>2. \A i \in 2..6 : i = 2 \/ i = 3 \/ i = 4 \/ i = 5 \/ i = 6 OBVIOUS
  <1>3. \A i \in 2..6 : DropOrder[i] \in Sidecars /\ DropOrder[i] # "record"
    BY <1>1, <1>2 DEF Sidecars
  <1>4. 2 \in 2..6 /\ 3 \in 2..6 /\ 4 \in 2..6 /\ 5 \in 2..6 /\ 6 \in 2..6 OBVIOUS
  <1>5. \A f \in Sidecars : \E i \in 2..6 : DropOrder[i] = f
    BY <1>1, <1>4 DEF Sidecars
  <1> QED BY <1>1, <1>3, <1>5

(* There is a least of some places in the order.                           *)
LEMMA LeastOfSix ==
    ASSUME NEW S \in SUBSET (1..6), S # {}
    PROVE  \E i \in S : \A k \in S : i <= k
  <1>1. \A k \in S : k = 1 \/ k = 2 \/ k = 3 \/ k = 4 \/ k = 5 \/ k = 6 OBVIOUS
  <1>2. 1 \in S \/ 2 \in S \/ 3 \in S \/ 4 \in S \/ 5 \in S \/ 6 \in S BY <1>1
  <1>3. CASE 1 \in S BY <1>1, <1>3
  <1>4. CASE 1 \notin S /\ 2 \in S BY <1>1, <1>4
  <1>5. CASE 1 \notin S /\ 2 \notin S /\ 3 \in S BY <1>1, <1>5
  <1>6. CASE 1 \notin S /\ 2 \notin S /\ 3 \notin S /\ 4 \in S BY <1>1, <1>6
  <1>7. CASE 1 \notin S /\ 2 \notin S /\ 3 \notin S /\ 4 \notin S /\ 5 \in S BY <1>1, <1>7
  <1>8. CASE 1 \notin S /\ 2 \notin S /\ 3 \notin S /\ 4 \notin S /\ 5 \notin S
    BY <1>1, <1>2, <1>8
  <1> QED BY <1>3, <1>4, <1>5, <1>6, <1>7, <1>8

(* Nothing is left of the Job: the prune turns to the next.                *)
LEMMA NothingLeft ==
    ASSUME IInv, NEW p \in Processes, now[p].at = "drop", now[p].job # NoJob,
           \A i \in now[p].next..6 : ~There(now[p].job, DropOrder[i])
    PROVE  rec[now[p].job] = "none" /\ side[now[p].job] # {} => now[p].job \in late
  <1> DEFINE k == now[p].job
  <1>1. DropIsSafe(now[p]) BY Dropping
  <1>2. Typed /\ now[p].next \in 1..7 /\ k \in Jobs
    BY OnesOwn, <1>1, StoreAssumption DEF Process
  <1> SUFFICES ASSUME NEW f \in side[k], k \notin late PROVE FALSE
    BY <1>2 DEF Typed
  <1>3. PICK i \in 2..6 : DropOrder[i] = f BY <1>2, DropOrderIs DEF Typed
  <1>4. There(k, f) BY <1>3, DropOrderIs DEF There
  <1>5. i < now[p].next BY <1>2, <1>3, <1>4
  <1>6. now[p].next > 1 /\ i \in 2..(now[p].next - 1) BY <1>2, <1>5
  <1> QED BY <1>1, <1>3, <1>6 DEF DropIsSafe

LEMMA RemoveKeeps ==
    ASSUME IInv, NEW p \in Processes, Remove(p)
    PROVE  IInv'
  <1> DEFINE k == now[p].job
             n == now[p].next
             left == {i \in n..Len(DropOrder) : There(k, DropOrder[i])}
             r == now'[p]
  <1>1. Typed /\ FilesAreUsed /\ OrphansHaveACause /\ Sound(p, now[p])
        /\ now \in [Processes -> Process] /\ now[p] \in Process
    BY OnesOwn DEF IInv
  <1>2. now[p].at = "drop" /\ k # NoJob /\ UNCHANGED <<index, usable, lock, ghosts>>
    BY DEF Remove, At
  <1>3. now[p].verb = "prune" /\ lock = p /\ DropIsSafe(now[p]) BY <1>2, Dropping
  <1>4. k \in Jobs /\ k \in now[p].got /\ k \in used /\ rec[k] \in {"finished", "none"}
        /\ n \in 1..7
    BY <1>1, <1>2, <1>3 DEF DropIsSafe, Process
  <1>5. left = {i \in n..6 : There(k, DropOrder[i])} BY DropOrderIs
  <1>6. CASE left = {}
    <2>1. /\ now' = [now EXCEPT ![p] = [now[p] EXCEPT !.got = @ \ {k}, !.job = NoJob,
                                                      !.next = 1]]
          /\ UNCHANGED files
      BY <1>6 DEF Remove
    <2>2. /\ Moves(p) /\ r \in Process /\ r.at = "drop" /\ r.verb = "prune" /\ r.job = NoJob
          /\ r.got \subseteq now[p].got /\ r.next = 1
      <3>1. now' = [now EXCEPT ![p] = [now[p] EXCEPT !.got = now[p].got \ {k},
                                                     !.job = NoJob, !.next = 1]]
        BY <2>1
      <3>2. r \in Process
        <4>1. [now[p] EXCEPT !.got = now[p].got \ {k}] \in Process BY <1>1 DEF Process
        <4>2. ASSUME NEW q \in Process
              PROVE  [q EXCEPT !.job = NoJob] \in Process /\ [q EXCEPT !.next = 1] \in Process
          BY DEF Process
        <4>3. r = [[[now[p] EXCEPT !.got = now[p].got \ {k}] EXCEPT !.job = NoJob]
                      EXCEPT !.next = 1]
          BY <1>1, <3>1 DEF Process
        <4> QED BY <4>1, <4>2, <4>3
      <3>3. /\ r.at = "drop" /\ r.verb = "prune" /\ r.job = NoJob
            /\ r.got = now[p].got \ {k} /\ r.next = 1
        BY <1>1, <1>2, <1>3, <3>1 DEF Process
      <3>4. Moves(p) BY <1>1, <3>1, <3>2 DEF Moves
      <3> QED BY <3>2, <3>3, <3>4
    <2>3. rec[k] = "none" /\ side[k] # {} => k \in late
      <3>1. \A i \in n..6 : ~There(k, DropOrder[i]) BY <1>5, <1>6
      <3> QED BY <1>2, <3>1, NothingLeft
    <2>4. UNCHANGED <<files, index, usable, ghosts>> /\ LockMoves(p) /\ lock' = p
      BY <1>2, <1>3, <2>1 DEF LockMoves
    <2> HIDE DEF r
    <2>5. DropIsSafe(r) BY <1>2, <1>3, <2>2 DEF DropIsSafe
    <2>6. Fits(r)
      BY <2>2, <2>5 DEF Fits, OnPath, JobIsUsed, JobVerbs, Reserved, LogIsKnown, ListIsKnown
    <2> QED BY <2>2, <2>3, <2>4, <2>6, QuietMove DEF r
  <1>7. CASE left # {}
    <2> DEFINE i == CHOOSE x \in left : \A y \in left : x <= y
               f == DropOrder[i]
    <2>1. i \in left /\ \A y \in left : i <= y
      <3>1. left \in SUBSET (1..6) BY <1>4, <1>5
      <3> HIDE DEF left
      <3> QED BY <1>7, <3>1, LeastOfSix
    <2>2. /\ rec' = IF f = "record" THEN [rec EXCEPT ![k] = "none"] ELSE rec
          /\ side' = [side EXCEPT ![k] = @ \ {f}]
          /\ log' = IF f = "log" THEN [log EXCEPT ![k] = 0] ELSE log
          /\ now' = [now EXCEPT ![p].next = i + 1]
      BY <1>7 DEF Remove
    <2> HIDE DEF i, left
    <2>3. i \in n..6 /\ i \in 1..6 /\ There(k, f)
      BY <1>4, <1>5, <2>1
    <2>4. /\ Moves(p) /\ r \in Process /\ r.at = "drop" /\ r.verb = "prune" /\ r.job = k
          /\ r.got = now[p].got /\ r.next = i + 1
      <3>1. i + 1 \in 1..7 BY <2>3
      <3> QED BY <1>1, <1>2, <1>3, <2>2, <3>1 DEF Moves, Process
    <2>5. (f = "record") <=> (i = 1) BY <2>3, DropOrderIs
    <2>6. rec'[k] = "none"
      <3>1. CASE i = 1 BY <1>1, <1>4, <2>2, <2>5, <3>1 DEF Typed
      <3>2. CASE i # 1 /\ n > 1 BY <1>2, <1>3, <2>2, <2>5, <3>2 DEF DropIsSafe
      <3>3. CASE i # 1 /\ n = 1
        <4>1. 1 \notin left BY <2>1, <2>3, <3>3
        <4>2. ~There(k, DropOrder[1]) BY <1>5, <3>3, <4>1
        <4>3. rec[k] = "none" BY <4>2, DropOrderIs DEF There
        <4> QED BY <2>2, <2>5, <3>3, <4>3
      <3> QED BY <1>4, <3>1, <3>2, <3>3
    <2>7. \A j \in Jobs : j # k => rec'[j] = rec[j] /\ side'[j] = side[j] /\ log'[j] = log[j]
      BY <1>1, <2>2 DEF Typed
    <2>8. side'[k] = side[k] \ {f} BY <1>1, <1>4, <2>2 DEF Typed
    <2>9. f = "record" => side'[k] = side[k] /\ log' = log
      BY <1>1, <1>4, <2>2, <2>8 DEF Typed, Sidecars
    <2>10. /\ rec' \in [Jobs -> {"none", "empty", "active", "finished"}]
           /\ side' \in [Jobs -> SUBSET Sidecars] /\ log' \in [Jobs -> 0..MaxLog]
      <3>1. 0 \in 0..MaxLog BY StoreAssumption
      <3>2. rec' \in [Jobs -> {"none", "empty", "active", "finished"}] BY <1>1, <2>2 DEF Typed
      <3>3. side' \in [Jobs -> SUBSET Sidecars] BY <1>1, <2>2 DEF Typed
      <3>4. log' \in [Jobs -> 0..MaxLog] BY <1>1, <2>2, <3>1 DEF Typed
      <3> QED BY <3>2, <3>3, <3>4
    <2>11. Typed' BY <1>1, <1>2, <2>4, <2>10 DEF Typed, Moves, ghosts
    <2>12. FilesAreUsed'
      <3>1. log'[k] > 0 => log[k] > 0 /\ f # "log"
        BY <1>1, <1>4, <2>2, <2>10, StoreAssumption DEF Typed
      <3>2. log'[k] > 0 => "log" \in side'[k]
        BY <1>1, <1>4, <2>8, <3>1 DEF FilesAreUsed
      <3> QED BY <1>1, <1>2, <1>4, <2>7, <3>2 DEF FilesAreUsed, ghosts
    <2>13. Gentle(p)
      <3>1. Advances(k) BY <1>4, <2>6 DEF Advances
      <3>2. \A j \in used : Advances(j) BY <1>1, <2>7, <3>1 DEF Advances, Typed
      <3>3. \A j \in used : rec[j] = "none" => side'[j] \subseteq side[j]
        BY <1>1, <2>7, <2>8 DEF Typed
      <3>4. \A j \in used : log[j] > 0 => log'[j] > 0 \/ rec'[j] = "none"
        BY <1>1, <2>6, <2>7 DEF Typed
      <3>5. \A j \in used : rec[j] = "empty" => rec'[j] = "empty"
        BY <1>1, <1>4, <2>7 DEF Typed
      <3> QED BY <1>2, <1>3, <3>2, <3>3, <3>4, <3>5 DEF Gentle, ghosts
    <2>14. IndexBehind' BY <2>4 DEF IndexBehind
    <2>15. OrphansHaveACause'
      <3> SUFFICES ASSUME NEW j \in Jobs, rec'[j] = "none", side'[j] # {}, j \notin cut \cup late
                   PROVE  \E q \in Processes : now'[q].at = "drop" /\ now'[q].job = j
        BY <1>2 DEF OrphansHaveACause, At, ghosts
      <3>1. CASE j = k BY <2>4, <3>1
      <3>2. CASE j # k
        <4>1. PICK q \in Processes : now[q].at = "drop" /\ now[q].job = j
          BY <1>1, <2>7, <3>2 DEF OrphansHaveACause, At
        <4>2. q # p BY <3>2, <4>1
        <4> QED BY <2>4, <4>1, <4>2 DEF Moves
      <3> QED BY <3>1, <3>2
    <2>16. DropIsSafe(now[p])'
      <3>1. \A j \in now[p].got : j \in used /\ rec'[j] \in {"finished", "none"}
        BY <1>1, <1>2, <1>3, <2>6, <2>7 DEF DropIsSafe, Typed
      <3>2. ASSUME NEW m \in 2..i, DropOrder[m] \in side'[k] PROVE k \in late
        <4>1. DropOrder[m] \in side[k] /\ m # i BY <2>8, <3>2
        <4>2. There(k, DropOrder[m]) BY <2>3, <4>1, DropOrderIs DEF There
        <4>3. m < n BY <1>4, <1>5, <2>1, <2>3, <4>1, <4>2
        <4>4. n > 1 /\ m \in 2..(n - 1) BY <1>4, <4>3
        <4> QED BY <1>2, <1>3, <4>1, <4>4 DEF DropIsSafe
      <3>3. (i + 1) - 1 = i BY <2>3
      <3> QED BY <1>2, <1>4, <2>4, <2>6, <3>1, <3>2, <3>3 DEF DropIsSafe, ghosts
    <2>17. Sound(p, now[p])'
      <3>1. OnPath(now[p])' /\ JobIsUsed(now[p])' /\ Reserved(now[p])'
            /\ LogIsKnown(now[p])' /\ ListIsKnown(now[p])'
        BY <2>4 DEF OnPath, JobIsUsed, JobVerbs, Reserved, LogIsKnown, ListIsKnown
      <3>2. LockIsHeld(p, now[p])' BY <1>2, <1>3 DEF LockIsHeld
      <3> QED BY <2>16, <3>1, <3>2 DEF Sound
    <2>18. FreshPublisher(p) BY <2>4 DEF FreshPublisher, Publishing
    <2> QED BY <2>4, <2>11, <2>12, <2>13, <2>14, <2>15, <2>17, <2>18, StepKeeps
  <1> QED BY <1>6, <1>7

(* A death, at any step.                                                   *)
LEMMA CrashKeeps ==
    ASSUME IInv, NEW p \in Processes, Crash(p)
    PROVE  IInv'
  <1>1. Typed /\ FilesAreUsed /\ IndexBehind /\ OrphansHaveACause /\ now[p] \in Process
    BY OnesOwn DEF IInv
  <1>2. /\ UNCHANGED <<files, index, usable, late, used>>
        /\ crashes < MaxCrashes /\ crashes' = crashes + 1
        /\ lock' = IF lock = p THEN NoProcess ELSE lock
        /\ torn' = (torn \/ At(p, "sync") \/ At(p, "drop"))
        /\ cut' = IF At(p, "drop") /\ now[p].job # NoJob THEN cut \cup {now[p].job} ELSE cut
    BY DEF Crash
  <1>3. Moves(p) /\ now'[p] = Idle BY <1>1, IdleIsAProcess, MovesTo DEF Crash, Done
  <1>4. cut' \subseteq used /\ cut \subseteq cut'
    <2>1. now[p].at = "drop" /\ now[p].job # NoJob => now[p].job \in used
      BY Dropping DEF DropIsSafe
    <2> QED BY <1>1, <1>2, <2>1 DEF Typed, At
  <1>5. Typed'
    <2>1. torn' \in BOOLEAN BY <1>1, <1>2, Zenon DEF Typed, At
    <2>2. crashes' \in 0..MaxCrashes BY <1>1, <1>2, StoreAssumption DEF Typed
    <2>3. lock' \in Processes \cup {NoProcess} BY <1>1, <1>2 DEF Typed
    <2> QED BY <1>1, <1>2, <1>3, <1>4, <2>1, <2>2, <2>3 DEF Typed, Moves, files
  <1>6. FilesAreUsed' BY <1>1, <1>2 DEF FilesAreUsed, files
  <1>7. Gentle(p) BY <1>2 DEF Gentle, Advances, files
  <1>8. IndexBehind'
    <2>1. now[p].at \in {"sync", "drop"} => torn' BY <1>2 DEF At
    <2>2. torn => torn' BY <1>2
    <2>3. now[p].at \notin {"sync", "drop"} =>
              ((\A q \in Processes : now'[q].at \notin {"sync", "drop"}) =>
               \A q \in Processes : now[q].at \notin {"sync", "drop"})
      BY <1>3 DEF Moves
    <2> QED BY <1>1, <1>2, <2>1, <2>2, <2>3 DEF IndexBehind, Derived, files
  <1>9. OrphansHaveACause'
    <2> SUFFICES ASSUME NEW j \in Jobs, rec[j] = "none", side[j] # {}, j \notin cut' \cup late
                 PROVE  \E q \in Processes : now'[q].at = "drop" /\ now'[q].job = j
      BY <1>2 DEF OrphansHaveACause, At, files
    <2>1. PICK q \in Processes : now[q].at = "drop" /\ now[q].job = j
      BY <1>1, <1>4 DEF OrphansHaveACause, At
    <2>2. q # p BY <1>2, <2>1, StoreAssumption DEF At
    <2> QED BY <1>3, <2>1, <2>2 DEF Moves
  <1>10. Sound(p, now[p])'
    BY <1>3, IdleIsAProcess DEF Sound, OnPath, JobIsUsed, JobVerbs, LockIsHeld, Holds, Reserved,
                DropIsSafe, LogIsKnown, ListIsKnown
  <1>11. FreshPublisher(p) BY <1>3, IdleIsAProcess DEF FreshPublisher, Publishing
  <1> QED BY <1>3, <1>5, <1>6, <1>7, <1>8, <1>9, <1>10, <1>11, StepKeeps

-----------------------------------------------------------------------------
(* The initial state, and every step.                                      *)
LEMMA InitInv == Init => IInv
  <1> SUFFICES ASSUME Init PROVE IInv
    OBVIOUS
  <1>1. Typed
    <2>1. now \in [Processes -> Process] BY IdleIsAProcess DEF Init
    <2>2. 0 \in 0..MaxLog /\ 0 \in 0..MaxCrashes BY StoreAssumption
    <2> QED BY <2>1, <2>2 DEF Init, Typed
  <1>2. \A p \in Processes : now[p] = Idle BY DEF Init
  <1>3. AllSound
    BY <1>2, IdleIsAProcess DEF AllSound, Sound, OnPath, JobIsUsed, JobVerbs, LockIsHeld,
                Holds, Reserved, DropIsSafe, LogIsKnown, ListIsKnown
  <1>4. OnePublisher BY <1>2, IdleIsAProcess DEF OnePublisher, Publishing
  <1>5. FilesAreUsed /\ IndexBehind /\ OrphansHaveACause
    BY DEF Init, FilesAreUsed, IndexBehind, Derived, OrphansHaveACause
  <1> QED BY <1>1, <1>3, <1>4, <1>5 DEF IInv

LEMMA NextInv == IInv /\ [Next]_vars => IInv'
  <1> SUFFICES ASSUME IInv, [Next]_vars PROVE IInv'
    OBVIOUS
  <1>1. CASE UNCHANGED vars
    BY <1>1 DEF vars, files, ghosts, IInv, Typed, FilesAreUsed, IndexBehind, AllSound, Sound,
                OnPath, JobIsUsed, LockIsHeld, Reserved, DropIsSafe, LogIsKnown, ListIsKnown,
                Gone, Readable, OnePublisher, Publishing, OrphansHaveACause, Derived, At
  <1>2. CASE Next
    <2>1. PICK p \in Processes : Step(p) BY <1>2 DEF Next
    <2>2. CASE SeedThread(p) BY <2>2, SeedThreadKeeps
    <2>3. CASE Publish(p) BY <2>3, PublishKeeps
    <2>4. CASE Sync(p) BY <2>4, SyncKeeps
    <2>5. CASE SteerDir(p) BY <2>5, SteerDirKeeps
    <2>6. CASE Spawn(p) BY <2>6, SpawnKeeps
    <2>7. CASE Precreate(p) BY <2>7, PrecreateKeeps
    <2>8. CASE WriteLog(p) BY <2>8, WriteLogKeeps
    <2>9. CASE Finish(p) BY <2>9, FinishKeeps
    <2>10. CASE Unlock(p) BY <2>10, UnlockKeeps
    <2>11. CASE Prune(p) BY <2>11, PruneKeeps
    <2>12. CASE Remove(p) BY <2>12, RemoveKeeps
    <2>13. CASE NextDrop(p) BY <2>13, NextDropKeeps
    <2>14. CASE ReadIndex(p) BY <2>14, ReadIndexKeeps
    <2>15. CASE Rebuild(p) BY <2>15, RebuildKeeps
    <2>16. CASE ReadLog(p) BY <2>16, ReadLogKeeps
    <2>17. CASE ReadExitCode(p) BY <2>17, ReadExitCodeKeeps
    <2>18. CASE Enqueue(p) BY <2>18, EnqueueKeeps
    <2>19. CASE Reread(p) BY <2>19, RereadKeeps
    <2>20. CASE Report(p) BY <2>20, ReportKeeps
    <2>21. CASE List(p) BY <2>21, ScanKeeps DEF List
    <2>22. CASE Crash(p) BY <2>22, CrashKeeps
    <2>24. CASE Launch(p) BY <2>24, LaunchKeeps
    <2>25. CASE SpawnFails(p) BY <2>25, SpawnFailsKeeps
    <2>23. ASSUME NEW j \in Jobs,
                  \/ Task(p, j) \/ Resume(p, j) \/ Claim(p, j) \/ Cancel(p, j)
                  \/ ReadRecord(p, j) \/ Logs(p, j) \/ Steer(p, j)
           PROVE  IInv'
      <3>1. CASE Task(p, j) BY <3>1, TaskKeeps
      <3>2. CASE Resume(p, j) BY <3>2, ResumeKeeps
      <3>3. CASE Claim(p, j) BY <3>3, ClaimKeeps
      <3>4. CASE Cancel(p, j) BY <3>4, CancelKeeps
      <3>5. CASE ReadRecord(p, j) BY <3>5, ReadRecordKeeps
      <3>6. CASE Logs(p, j) BY <3>6, ScanKeeps DEF Logs
      <3>7. CASE Steer(p, j) BY <3>7, SteerKeeps
      <3> QED BY <2>23, <3>1, <3>2, <3>3, <3>4, <3>5, <3>6, <3>7
    <2> QED BY <2>1, <2>2, <2>3, <2>4, <2>5, <2>6, <2>7, <2>8, <2>9, <2>10, <2>11, <2>12,
               <2>13, <2>14, <2>15, <2>16, <2>17, <2>18, <2>19, <2>20, <2>21, <2>22, <2>23, <2>24, <2>25
            DEF Step
  <1> QED BY <1>1, <1>2

(* A record is taken away by a prune, and from a finished Job only.        *)
LEMMA DropsOnlyFinished ==
    ASSUME IInv, NEW p \in Processes, Step(p), NEW j \in Jobs,
           rec[j] \notin {"finished", "none"}
    PROVE  rec'[j] # "none"
  <1>1. Typed /\ rec[j] \in {"empty", "active"} BY OnesOwn DEF Typed
  <1>2. CASE UNCHANGED rec BY <1>1, <1>2
  <1>3. ASSUME NEW k \in Jobs, Task(p, k) \/ Resume(p, k) \/ Cancel(p, k)
        PROVE  rec'[j] # "none"
    <2>1. \E x \in {"empty", "finished"} : rec' = [rec EXCEPT ![k] = x]
      BY <1>3 DEF Task, Resume, Cancel, Reserve
    <2> QED BY <1>1, <2>1 DEF Typed
  <1>4. CASE Publish(p)
    <2>1. rec' = [rec EXCEPT ![now[p].job] = "active"] BY <1>4 DEF Publish
    <2> QED BY <1>1, <2>1 DEF Typed
  <1>5. CASE Finish(p) \/ SpawnFails(p)
    <2>1. rec' = rec \/ rec' = [rec EXCEPT ![now[p].job] = "finished"]
      BY <1>5 DEF Finish, SpawnFails, Terminal
    <2> QED BY <1>1, <2>1 DEF Typed
  <1>6. CASE Remove(p)
    <2>1. now[p].at = "drop" /\ now[p].job # NoJob BY <1>6 DEF Remove, At
    <2>2. rec[now[p].job] \in {"finished", "none"}
      BY <2>1, Dropping DEF DropIsSafe
    <2>3. rec' = rec \/ rec' = [rec EXCEPT ![now[p].job] = "none"]
      BY <1>6 DEF Remove, files
    <2> QED BY <1>1, <2>2, <2>3 DEF Typed
  <1>7. \/ UNCHANGED rec
        \/ Publish(p) \/ Finish(p) \/ SpawnFails(p) \/ Remove(p)
        \/ \E k \in Jobs : Task(p, k) \/ Resume(p, k) \/ Cancel(p, k)
    <2>1. SeedThread(p) \/ SteerDir(p) \/ Spawn(p) \/ Precreate(p) \/ Enqueue(p) => UNCHANGED rec
      BY DEF SeedThread, SteerDir, Spawn, Precreate, Enqueue, Writes
    <2>2. Sync(p) \/ Launch(p) \/ WriteLog(p) \/ Unlock(p) \/ Prune(p) \/ NextDrop(p) \/ Crash(p)
              => UNCHANGED rec
      BY DEF Sync, Launch, WriteLog, Unlock, Prune, NextDrop, Crash, files
    <2>3. ReadIndex(p) \/ Rebuild(p) \/ ReadLog(p) \/ ReadExitCode(p) \/ Reread(p) \/ Report(p)
              \/ List(p) => UNCHANGED rec
      BY DEF ReadIndex, Rebuild, ReadLog, ReadExitCode, Reread, Report, List, Scan, files
    <2>4. \A k \in Jobs : Claim(p, k) \/ ReadRecord(p, k) \/ Logs(p, k) \/ Steer(p, k)
              => UNCHANGED rec
      BY DEF Claim, ReadRecord, Logs, Scan, Steer, files
    <2> QED BY <2>1, <2>2, <2>3, <2>4 DEF Step
  <1> QED BY <1>2, <1>3, <1>4, <1>5, <1>6, <1>7

(* Workers are started for Jobs.                                           *)
LEMMA LaunchesJobs ==
    IInv /\ launched \subseteq Jobs /\ [Next]_vars => (launched \subseteq Jobs)'
  <1> SUFFICES ASSUME IInv, launched \subseteq Jobs, [Next]_vars PROVE launched' \subseteq Jobs
    OBVIOUS
  <1>1. CASE UNCHANGED vars BY <1>1 DEF vars
  <1>2. ASSUME NEW p \in Processes, Launch(p) PROVE launched' \subseteq Jobs
    <2>1. Sound(p, now[p]) /\ used \subseteq Jobs BY OnesOwn DEF IInv, Typed
    <2>2. now[p].job \in used
      BY <1>2, <2>1 DEF Launch, At, Sound, OnPath, JobIsUsed, JobVerbs
    <2> QED BY <1>2, <2>1, <2>2 DEF Launch
  <1>3. ASSUME NEW p \in Processes, Step(p) PROVE Launch(p) \/ UNCHANGED launched
    <2>1. SeedThread(p) \/ SteerDir(p) \/ Spawn(p) \/ Precreate(p) \/ Enqueue(p)
              => UNCHANGED launched
      BY DEF SeedThread, SteerDir, Spawn, Precreate, Enqueue, Writes
    <2>2. Publish(p) \/ SpawnFails(p) \/ Finish(p) \/ Remove(p) \/ Sync(p) \/ WriteLog(p)
              \/ Unlock(p) \/ Prune(p) \/ NextDrop(p) \/ Crash(p) => UNCHANGED launched
      BY DEF Publish, SpawnFails, Finish, Terminal, Remove, Sync, WriteLog, Unlock, Prune,
             NextDrop, Crash
    <2>3. ReadIndex(p) \/ Rebuild(p) \/ ReadLog(p) \/ ReadExitCode(p) \/ Reread(p) \/ Report(p)
              \/ List(p) => UNCHANGED launched
      BY DEF ReadIndex, Rebuild, ReadLog, ReadExitCode, Reread, Report, List, Scan
    <2>4. \A k \in Jobs : Task(p, k) \/ Resume(p, k) \/ Cancel(p, k) \/ Claim(p, k)
              \/ ReadRecord(p, k) \/ Logs(p, k) \/ Steer(p, k) => UNCHANGED launched
      BY DEF Task, Resume, Reserve, Cancel, Claim, ReadRecord, Logs, Scan, Steer
    <2> QED BY <1>3, <2>1, <2>2, <2>3, <2>4 DEF Step
  <1> QED BY <1>1, <1>2, <1>3 DEF Next

-----------------------------------------------------------------------------
(* What each process relies on stays true, whoever else steps: the         *)
(* invariant behind the theorems below.                                    *)
THEOREM Inductive == Spec => []IInv
  <1>1. Init => IInv BY InitInv
  <1>2. IInv /\ [Next]_vars => IInv' BY NextInv
  <1> QED BY <1>1, <1>2, PTL DEF Spec

(* The types; the holder of a critical section holds the lock, and files   *)
(* belong to ids that were reserved.                                       *)
THEOREM TypeCorrect == Spec => []TypeOK
  <1>1. IInv /\ launched \subseteq Jobs => TypeOK
    <2> SUFFICES ASSUME IInv, launched \subseteq Jobs PROVE TypeOK
      OBVIOUS
    <2>1. Typed /\ FilesAreUsed BY DEF IInv
    <2>2. \A p \in Processes : now[p].seen \cup now[p].got \subseteq Jobs
      BY <2>1 DEF Typed, Process
    <2>3. \A p \in Processes : At(p, "sync") \/ At(p, "drop") => lock = p
      BY OnesOwn DEF At, Sound, LockIsHeld, Holds
    <2>4. \A j \in Jobs : log[j] > 0 => "log" \in side[j] BY <2>1 DEF FilesAreUsed
    <2>5. cut \cup late \subseteq used /\ used \subseteq Jobs BY <2>1 DEF Typed
    <2> QED BY <2>1, <2>2, <2>3, <2>4, <2>5 DEF TypeOK, Typed
  <1>2. Init => launched \subseteq Jobs BY DEF Init
  <1> QED BY <1>1, <1>2, LaunchesJobs, Inductive, PTL DEF Spec

(* With the lock free and no holder dead since the index was last written, *)
(* the index lacks reservations only (_sync_index).                        *)
THEOREM IndexIsBehindByReservations == Spec => []IndexCatchesUp
  <1>1. IInv => IndexCatchesUp
    <2> SUFFICES ASSUME IInv, Free PROVE IndexCatchesUp
      BY DEF IndexCatchesUp
    <2>1. \A p \in Processes : now[p].at \notin {"sync", "drop"}
      BY OnesOwn, StoreAssumption DEF Sound, LockIsHeld, Holds, Free
    <2> QED BY <2>1 DEF IInv, IndexBehind, IndexCatchesUp
  <1> QED BY <1>1, Inductive, PTL

(* Every sidecar without its record has one of two causes: a removal under *)
(* way or cut short, or a writer that came after the drop (_drop_job).     *)
THEOREM OrphansExplained == Spec => []OrphansHaveACause
  <1>1. IInv => OrphansHaveACause BY DEF IInv
  <1> QED BY <1>1, Inductive, PTL

(* The readers that take no lock are shown whole Jobs: `logs` because the  *)
(* record goes first and is read last, a listing because a Job it saw      *)
(* readable can only leave by being dropped (run_logs, load_records).      *)
THEOREM LockFreeReadersSeeWhole == Spec => []ReadersSeeWhole
  <1>1. IInv => ReadersSeeWhole
    <2> SUFFICES ASSUME IInv PROVE ReadersSeeWhole
      OBVIOUS
    <2>1. \A p \in Processes : At(p, "shown") => now[p].knew \subseteq now[p].got
      BY OnesOwn DEF At, Sound, OnPath, LogIsKnown
    <2>2. \A p \in Processes : Listed(p) => {j \in now[p].knew : Readable(j)} \subseteq now[p].got
      BY OnesOwn DEF Listed, At, Sound, ListIsKnown
    <2> QED BY <2>1, <2>2 DEF ReadersSeeWhole, LogsSeesWholeJob, ListMissesNothing
  <1> QED BY <1>1, Inductive, PTL

(* A prune works from records it read under the lock, and no record goes   *)
(* back from finished: a reservation or an active Job is never dropped     *)
(* (_prune_locked).                                                        *)
THEOREM PruneSparesTheUnfinished == Spec => OnlyFinishedAreDropped
  <1>1. IInv /\ [Next]_vars =>
            [\A j \in Jobs : rec[j] # "finished" /\ rec[j] # "none" => rec'[j] # "none"]_vars
    BY DropsOnlyFinished DEF Next
  <1> QED BY <1>1, Inductive, PTL DEF Spec, OnlyFinishedAreDropped
=============================================================================
