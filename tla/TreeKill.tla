------------------------------ MODULE TreeKill ------------------------------
(***************************************************************************)
(* Stopping a worker with everything it started (src/chinamax/state.py,    *)
(* `terminate_tree` on POSIX).  The sweep works on a process table that    *)
(* changes under it: processes fork, exit, are adopted by init, and their  *)
(* pids are used again by strangers.  A read of the whole table is one     *)
(* step.                                                                   *)
(***************************************************************************)
CONSTANTS Pids, Worker,
          Tree,      \* pid -> parent, of the processes at the start
          Leads,     \* those of them that lead a group of their own
          Adopter,     \* the parent of orphans
          Forks,     \* whether processes fork during the sweep
          LateReuse, \* whether a pid is reused between the look and the signal
          Intact     \* whether nobody exits before the sweep looks

ASSUME TreeAssumption ==
    /\ Adopter \notin Pids
    /\ Worker \in DOMAIN Tree /\ DOMAIN Tree \subseteq Pids
    /\ Tree \in [DOMAIN Tree -> DOMAIN Tree \cup {Adopter}]
    /\ Tree[Worker] = Adopter /\ Worker \in Leads
    /\ {Forks, LateReuse, Intact} \subseteq BOOLEAN

VARIABLES proc,      \* the process table
          pc,        \* the sweep
          targets,   \* the pids it is after
          snapshot,  \* the pids of its first look
          groups,    \* the groups it is about to signal
          survivors, \* its result
          struck     \* the strangers it has signalled
treeVars == <<proc, pc, targets, snapshot, groups, survivors, struck>>
sweep == <<pc, targets, snapshot, groups, survivors, struck>>

-----------------------------------------------------------------------------
Process == [state : {"unused", "alive", "dying", "zombie", "dead"}, kin : BOOLEAN,
            parent : Pids \cup {Adopter}, group : Pids, stubborn : BOOLEAN]

TreeTypeOK ==
    /\ proc \in [Pids -> Process]
    /\ pc \in {"snapshot", "term", "terming", "grace", "kill", "killing", "confirm", "done"}
    /\ targets \subseteq Pids /\ snapshot \subseteq Pids
    /\ groups \subseteq Pids /\ survivors \subseteq targets
    /\ struck \subseteq Pids
    /\ groups # {} => pc \in {"terming", "killing"}

Alive(p)  == proc[p].state \in {"alive", "dying"}
Listed(p) == Alive(p) \/ proc[p].state = "zombie"

GroupAtStart[p \in DOMAIN Tree] ==
    IF p \in Leads THEN p ELSE GroupAtStart[Tree[p]]

TreeInit ==
    /\ \E stubborn \in SUBSET DOMAIN Tree :
          proc = [p \in Pids |->
             IF p \in DOMAIN Tree
             THEN [state |-> "alive", kin |-> TRUE, parent |-> Tree[p],
                   group |-> GroupAtStart[p], stubborn |-> p \in stubborn]
             ELSE [state |-> "unused", kin |-> TRUE, parent |-> Adopter,
                   group |-> p, stubborn |-> FALSE]]
    /\ pc = "snapshot"
    /\ targets = {} /\ snapshot = {} /\ groups = {} /\ survivors = {} /\ struck = {}

-----------------------------------------------------------------------------
(* The processes.                                                          *)
Fork(p, c, session) ==
    /\ Forks /\ Alive(p) /\ proc[p].kin /\ proc[c].state = "unused"
    /\ \E stubborn \in BOOLEAN :
          proc' = [proc EXCEPT ![c] = [state |-> "alive", kin |-> TRUE, parent |-> p,
                                       group |-> IF session THEN c ELSE proc[p].group,
                                       stubborn |-> stubborn]]
    /\ UNCHANGED sweep

(* Its children are adopted the instant a process dies; its own pid stays  *)
(* in the table until it is reaped.                                        *)
Exit(p) ==
    /\ Alive(p) /\ proc[p].kin
    /\ ~(Intact /\ pc = "snapshot")
    /\ proc' = [q \in Pids |->
                   IF q = p THEN [proc[p] EXCEPT !.state = "zombie"]
                   ELSE IF proc[q].parent = p THEN [proc[q] EXCEPT !.parent = Adopter]
                   ELSE proc[q]]
    /\ UNCHANGED sweep

Reap(p) ==
    /\ proc[p].state = "zombie"
    /\ proc' = [proc EXCEPT ![p] = [proc[p] EXCEPT !.state = "dead"]]
    /\ UNCHANGED sweep

(* A pid is used again once no process and no group has it.                *)
Reuse(p) ==
    /\ proc[p].state = "dead" /\ proc[p].kin
    /\ \A q \in Pids : Listed(q) => proc[q].group # p
    /\ LateReuse \/ groups = {}
    /\ proc' = [proc EXCEPT ![p] = [state |-> "alive", kin |-> FALSE, parent |-> Adopter,
                                    group |-> p, stubborn |-> TRUE]]
    /\ UNCHANGED sweep

-----------------------------------------------------------------------------
(* `descendants`: the listed processes, and all that is reached from them  *)
(* from parent to child.                                                   *)
Children(S) == {p \in Pids : Listed(p) /\ proc[p].parent \in S}
Descendants(S) ==
    LET closed == {T \in SUBSET Pids : /\ {p \in S : Listed(p)} \subseteq T
                                       /\ Children(T) \subseteq T}
    IN {p \in Pids : \A T \in closed : p \in T}

(* What-if: a pid is trusted without comparing start times.                *)
AnyListed(S) == {p \in S : Listed(p)}

(* The pids that still name the process that was seen, and, as             *)
(* `_alive_targets`, those of them that are no zombies.                    *)
SameProcess(S) == {p \in S : Listed(p) /\ proc[p].kin}
AliveTargets(S) == {p \in SameProcess(S) : Alive(p)}

(* What-if: the second look starts from the worker alone.                  *)
RescanFromWorker == Descendants(AliveTargets(snapshot \cap {Worker}))
Rescan == {p \in Descendants(AliveTargets(snapshot)) : proc[p].kin}

(* A worker that is gone, or whose pid is a stranger's, is left alone.     *)
Snapshot ==
    /\ pc = "snapshot"
    /\ snapshot' = {p \in Descendants({Worker}) : proc[Worker].kin}
    /\ targets' = snapshot'
    /\ pc' = IF targets' = {} THEN "done" ELSE "term"
    /\ UNCHANGED <<proc, groups, survivors, struck>>

(* `_signal_processes` looks up every target's group, then signals the     *)
(* groups one by one.  A zombie still has its group.                       *)
LookUpGroups ==
    /\ pc \in {"term", "kill"}
    /\ groups' = {proc[p].group : p \in SameProcess(targets)}
    /\ pc' = IF pc = "term" THEN "terming" ELSE "killing"
    /\ UNCHANGED <<proc, targets, snapshot, survivors, struck>>

Hit(g)    == {p \in Pids : Alive(p) /\ proc[p].group = g}
Lethal(p) == pc = "killing" \/ ~proc[p].stubborn

SignalGroup ==
    \E g \in groups :
        /\ proc' = [p \in Pids |-> IF p \in Hit(g) /\ Lethal(p)
                                   THEN [proc[p] EXCEPT !.state = "dying"] ELSE proc[p]]
        /\ struck' = struck \cup {p \in Hit(g) : ~proc[p].kin}
        /\ groups' = groups \ {g}
        /\ UNCHANGED <<pc, targets, snapshot, survivors>>

Signalled ==
    /\ pc \in {"terming", "killing"} /\ groups = {}
    /\ pc' = IF pc = "terming" THEN "grace" ELSE "confirm"
    /\ UNCHANGED <<proc, targets, snapshot, groups, survivors, struck>>

(* The grace is over, or everybody is gone: look again.                    *)
LookAgain ==
    /\ pc = "grace"
    /\ targets' = Rescan
    /\ pc' = IF targets' = {} THEN "done" ELSE "kill"
    /\ UNCHANGED <<proc, snapshot, groups, survivors, struck>>

Confirm ==
    /\ pc = "confirm"
    /\ survivors' = AliveTargets(targets)
    /\ pc' = "done"
    /\ UNCHANGED <<proc, targets, snapshot, groups, struck>>

-----------------------------------------------------------------------------
KillSteps == \/ Snapshot \/ LookUpGroups \/ SignalGroup \/ Signalled
             \/ LookAgain \/ Confirm

TreeNext ==
    \/ KillSteps
    \/ \E p \in Pids : Exit(p) \/ Reap(p) \/ Reuse(p)
    \/ \E p, c \in Pids, session \in BOOLEAN : Fork(p, c, session)

TreeSpec == TreeInit /\ [][TreeNext]_treeVars

-----------------------------------------------------------------------------
(* A sweep that reports no survivor has outlived everything it saw first   *)
(* and last ("empty when everything targeted is confirmed gone",           *)
(* `terminate_tree`), also what was adopted meanwhile.                     *)
TargetsAreGone ==
    (pc = "done" /\ survivors = {}) => AliveTargets(snapshot \cup targets) = {}

(* "A recycled pid or pgid is never the target" (`_signal_processes`),     *)
(* unless it is recycled between the look at a group and its signal        *)
(* (LateReuse), where the code does not look again.                        *)
NoStrangerHit == struck = {}

-----------------------------------------------------------------------------
(* A promise the code does not keep once processes fork during the sweep:  *)
(* nothing of the worker's is left at all ("stop a worker's whole process  *)
(* TREE").                                                                 *)
NoDescendantSurvives ==
    (pc = "done" /\ survivors = {}) => \A p \in Pids : ~(Alive(p) /\ proc[p].kin)
=============================================================================
