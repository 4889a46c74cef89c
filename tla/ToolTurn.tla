------------------------------ MODULE ToolTurn ------------------------------
(***************************************************************************)
(* One worker running the tool uses of its assistant turns under the Host  *)
(* policy (loop.py, policy.py, tools/__init__.py): hooks may veto a call   *)
(* or the report, the patch tool commits, and a directory's Memory is      *)
(* shown when the directory is first touched.                              *)
(*                                                                         *)
(* The tool uses of a turn are fixed when it is received; the model picks  *)
(* each when its turn comes, because nothing looks at one before that.     *)
(***************************************************************************)
EXTENDS Patch, FiniteSets

CONSTANTS Dirs,       \* directories of the workspace
          Depth,      \* [Dirs -> Nat]
          Root,       \* the Memory of the first user turn
          DirOf,      \* [Paths -> SUBSET Dirs], those it lies in
          Touches,    \* what a path tool may touch: sets of directories
          PreHooks, PostHooks, StopHooks, \* hooks configured for each event
          MaxTurns, MaxUses, MaxCrashes,
          PatchTurns  \* the turns whose first use may be a patch

ASSUME TurnAssumption ==
    /\ IsFiniteSet(Dirs) /\ Depth \in [Dirs -> Nat]
    /\ DirOf \in [Paths -> SUBSET Dirs] /\ Touches \subseteq SUBSET Dirs
    /\ Root \notin Dirs /\ {"pre", "post"} \cap (Dirs \cup {Root}) = {}
    /\ {PreHooks, PostHooks, StopHooks, MaxTurns, MaxUses,
        MaxCrashes, PatchTurns} \subseteq Nat

VARIABLES step,      \* what the loop does next
          write,     \* the Job's posture
          begun,     \* whether the Thread has its first user turn
          uses,      \* the tools of this turn's uses so far
          touched,   \* the directories the use at hand names
          asides,    \* contexts its PreToolUse hooks gave
          answers,   \* the turn's tool_results: use and success
          texts,     \* the text blocks that follow them: use and content
          payload,   \* the accepted report, 0 for none
          terminalSeen, stopActive,
          injected,  \* Memory the worker believes it has shown
          shown,     \* Memory in the Thread: how often
          objected,  \* uses a hook that ran objected to
          ran,       \* uses whose tool was started
          lost,      \* Memory marked as injected whose block was dropped
          turns, crashes
inTurn == <<uses, answers, texts, payload, terminalSeen, objected, ran>>
atUse == <<touched, asides>>
job == <<write, begun, stopActive, shown, turns, crashes>>
memory == <<injected, lost>>
vars == <<step, inTurn, atUse, job, memory, patchVars>>

-----------------------------------------------------------------------------
Tools == {"path", "other", "mcp", "patch", "report", "badreport"}
Memories == Dirs \cup {Root}
N == Len(uses)

(* What a hook process comes to: it does not match, cannot be spawned or   *)
(* runs out of time, exits with 2, with another error, or with 0 and       *)
(* nothing, a block or a context on stdout; or running it raises.          *)
Outcomes == {"unmatched", "fault", "two", "crash", "silent", "block", "context", "raise"}
Objections == {"two", "block"}

(* Where a chain of hooks ends early, or its length.                       *)
EndsAt(chain, set) ==
    LET at == {i \in 1..Len(chain) : chain[i] \in set}
    IN IF at = {} THEN Len(chain) + 1 ELSE CHOOSE i \in at : \A k \in at : i <= k
How(chain, set) ==
    LET i == EndsAt(chain, set) IN IF i > Len(chain) THEN "through" ELSE chain[i]
Count(chain, set) == Cardinality({i \in 1..Len(chain) : chain[i] \in set})
(* The sum of amounts none of which exceeds `most`.                        *)
Total(amounts, most) ==
    Cardinality({at \in (1..Len(amounts)) \X (1..most) : at[2] <= amounts[at[1]]})

(* PreToolUse and Stop: the first objection decides, and an exception in   *)
(* one hook ends the event without one.                                    *)
Objects(chain) == How(chain, Objections \cup {"raise"}) \in Objections
(* PreToolUse: the contexts of an event that went through.                 *)
PreContexts(chain) ==
    IF "raise" \in Range(chain) THEN 0 ELSE Count(chain, {"context"})
(* PostToolUse objects to nothing: a block is one more text.               *)
PostTexts(chain) ==
    IF "raise" \in Range(chain) THEN 0 ELSE Count(chain, {"two", "block", "context"})

(* What an event comes to, over all its hooks.                             *)
PreEvents  == {[objects |-> Objects(c), contexts |-> PreContexts(c)] :
                  c \in [1..PreHooks -> Outcomes]}
StopEvents == {Objects(c) : c \in [1..StopHooks -> Outcomes]}
PostEvents == {PostTexts(c) : c \in [1..PostHooks -> Outcomes]}

(* A patch fires one event per file; any objection vetoes the whole patch, *)
(* and one that does not parse has no event.                               *)
Files(d) == IF \A i \in 1..Len(d) : d[i].hunks # <<>> THEN d ELSE <<>>
(* What-if: the last file's verdict is the patch's.                        *)
VetoOfLast(events) == events # <<>> /\ Last(events).objects
Veto(events) == \E i \in 1..Len(events) : events[i].objects

-----------------------------------------------------------------------------
TypeOK ==
    /\ step \in {"starting", "calling", "next", "dispatch", "patching", "post",
                 "memory", "over", "dead"}
    /\ {write, begun, terminalSeen, stopActive} \subseteq BOOLEAN
    /\ uses \in Seq(Tools) /\ N <= MaxUses
    /\ payload \in 0..N /\ objected \cup ran \subseteq 1..N
    /\ \A i \in 1..Len(answers) : answers[i] \in [use : 1..N, ok : BOOLEAN]
    /\ \A i \in 1..Len(texts) : texts[i].use \in 1..N
    /\ touched \cup injected \cup lost \subseteq Memories /\ asides \in Nat
    /\ shown \in [Memories -> Nat]
    /\ turns \in 0..MaxTurns /\ crashes \in 0..MaxCrashes
    /\ outcome # "none" <=> (step = "patching" \/ (step = "dead" /\ outcome = "killed"))

NewTurn ==
    /\ uses = <<>> /\ answers = <<>> /\ texts = <<>> /\ payload = 0
    /\ terminalSeen = FALSE /\ objected = {} /\ ran = {}
    /\ touched = {} /\ asides = 0

ClearTurn ==
    /\ uses' = <<>> /\ answers' = <<>> /\ texts' = <<>> /\ payload' = 0
    /\ terminalSeen' = FALSE /\ objected' = {} /\ ran' = {}
    /\ touched' = {} /\ asides' = 0

Init ==
    /\ step = "starting" /\ write \in BOOLEAN /\ begun = FALSE
    /\ NewTurn /\ Idle
    /\ stopActive = FALSE /\ injected = {} /\ lost = {}
    /\ shown = [d \in Memories |-> 0]
    /\ turns = 0 /\ crashes = 0

(* The Memory a replayed Thread carries.                                   *)
(* What-if: a relaunch starts with none.                                   *)
ReplayedNothing == {}
Replayed == {d \in Memories : shown[d] > 0}

(* The worker seeds its history: a fresh Thread opens with the Memory of   *)
(* the project, a replayed one tells which Memory it has shown.            *)
Seed ==
    /\ step = "starting" /\ step' = "calling"
    /\ begun' = TRUE
    /\ injected' = IF begun THEN Replayed ELSE {Root}
    /\ shown' = IF begun THEN shown ELSE [shown EXCEPT ![Root] = 1]
    /\ UNCHANGED <<inTurn, atUse, write, stopActive, turns, crashes, lost, patchVars>>

(* An assistant turn is received and recorded; without a tool use it is    *)
(* answered by the nudge.                                                  *)
Turn ==
    /\ step = "calling" /\ turns < MaxTurns
    /\ turns' = turns + 1
    /\ step' \in {"next", "calling"}
    /\ UNCHANGED <<inTurn, atUse, write, begun, stopActive, shown, crashes, memory, patchVars>>

-----------------------------------------------------------------------------
(* What-if: the answer carries the id of the use before.                   *)
AnswerPrevious(ok) == answers' = Append(answers, [use |-> N, ok |-> ok])
Answer(ok) == answers' = Append(answers, [use |-> Len(uses'), ok |-> ok])

(* A use that is refused is answered with the error.                       *)
(* What-if: it is only logged.                                             *)
RefuseSilently == UNCHANGED answers
Refuse == Answer(FALSE)

Use(tool) == step = "next" /\ N < MaxUses /\ uses' = Append(uses, tool)

(* A report that does not validate, or comes after one that did.           *)
RefuseReport(tool) ==
    /\ Use(tool)
    /\ tool = "badreport" \/ (tool = "report" /\ terminalSeen)
    /\ Refuse
    /\ UNCHANGED <<step, texts, payload, terminalSeen, objected, ran, atUse, job, memory, patchVars>>

(* The turn's first valid report fires Stop: a block answers it, and       *)
(* otherwise it is the payload, which nothing answers.                     *)
Report(blocked) ==
    /\ Use("report") /\ ~terminalSeen
    /\ terminalSeen' = TRUE
    /\ IF blocked
       THEN Refuse /\ objected' = objected \cup {N + 1} /\ UNCHANGED payload
       ELSE payload' = N + 1 /\ UNCHANGED <<answers, objected>>
    /\ UNCHANGED <<step, texts, ran, atUse, job, memory, patchVars>>

(* PreToolUse: a veto is the use's answer and its tool is not started.     *)
Judge(events) ==
    /\ objected' = IF \E i \in 1..Len(events) : events[i].objects
                   THEN objected \cup {N + 1} ELSE objected
    /\ IF Veto(events)
       THEN /\ Refuse /\ step' = "next" /\ UNCHANGED asides
       ELSE /\ step' = "dispatch" /\ UNCHANGED answers
            /\ asides' = Total([i \in 1..Len(events) |-> events[i].contexts], PreHooks)
    /\ UNCHANGED <<texts, payload, terminalSeen, ran, job, memory>>

PreTool(tool, dirs, event) ==
    /\ tool \in {"path", "other", "mcp"} /\ Use(tool)
    /\ tool = "path" \/ dirs = {}
    /\ Judge(<<event>>)
    /\ touched' = IF step' = "dispatch" THEN dirs ELSE {}
    /\ UNCHANGED patchVars

PrePatch(d, events) ==
    /\ Use("patch") /\ Judge(events)
    /\ IF step' = "dispatch"
       THEN /\ diff' = d
            /\ touched' = UNION {DirOf[p] : p \in Paths \cap {Target(e) : e \in Range(Files(d))}}
            /\ UNCHANGED <<disk, staged, before, todo, outcome, fault>>
       ELSE UNCHANGED <<touched, patchVars>>

(* What the tool said is the answer; only a success goes on to PostToolUse *)
(* and Memory.  The contexts of PreToolUse follow either way.              *)
Texts(n, what) == [i \in 1..n |-> [use |-> N, what |-> what]]
Result(ok) ==
    /\ uses' = uses /\ Answer(ok)
    /\ texts' = texts \o Texts(asides, "pre") /\ asides' = 0
    /\ step' = IF ok THEN "post" ELSE "next"
    /\ touched' = IF ok THEN touched ELSE {}
    /\ UNCHANGED <<payload, terminalSeen, objected, job, memory>>

Dispatch(ok) ==
    /\ step = "dispatch" /\ Last(uses) # "patch"
    /\ Result(ok) /\ ran' = ran \cup {N}
    /\ UNCHANGED patchVars

(* A read-only Job has no patch tool to dispatch to.                       *)
NoSuchTool ==
    /\ step = "dispatch" /\ Last(uses) = "patch" /\ ~write
    /\ Result(FALSE) /\ UNCHANGED ran /\ Forget(FALSE)

StartPatch(files) ==
    /\ step = "dispatch" /\ Last(uses) = "patch" /\ write
    /\ Plan(diff, files) /\ step' = "patching" /\ ran' = ran \cup {N}
    /\ UNCHANGED <<uses, answers, texts, payload, terminalSeen, objected, atUse, job, memory>>

PatchStep ==
    /\ step = "patching" /\ Proceed
    /\ UNCHANGED <<step, inTurn, atUse, job, memory>>

(* The call returns; what becomes of the files until the next patch is not *)
(* this module's business.                                                 *)
PatchReturns ==
    /\ step = "patching" /\ outcome \in {"ok", "rejected", "failed"}
    /\ Result(outcome = "ok") /\ UNCHANGED ran
    /\ Forget(outcome = "ok")

Events == IF Last(uses) = "patch" THEN Len(Files(diff)) ELSE 1
Post(events) ==
    /\ step = "post"
    /\ texts' = texts \o Texts(Total(events, PostHooks), "post")
    /\ step' = IF touched = {} THEN "next" ELSE "memory"
    /\ UNCHANGED <<uses, answers, payload, terminalSeen, objected, ran, atUse, job, memory>>
    /\ Forget(FALSE)

(* Lazy Memory, shallow to deep, siblings in any order.  Reading a         *)
(* directory's files may raise: what was read before it stays marked, and  *)
(* no block is returned.                                                   *)
InReach(read) == \A d \in read, e \in touched \ read : Depth[d] <= Depth[e]
LazyMemory(read, fresh) ==
    /\ step = "memory" /\ read \subseteq touched /\ InReach(read)
    /\ \A i, k \in 1..Len(fresh) : i < k => Depth[fresh[i]] <= Depth[fresh[k]]
    /\ injected' = injected \cup read
    /\ IF read = touched
       THEN /\ texts' = texts \o [i \in 1..Len(fresh) |-> [use |-> N, what |-> fresh[i]]]
            /\ UNCHANGED lost
       ELSE lost' = lost \cup (read \ injected) /\ UNCHANGED texts
    /\ step' = "next" /\ touched' = {}
    /\ UNCHANGED <<uses, answers, payload, terminalSeen, objected, ran, asides, job, patchVars>>

(* The turn's results and texts are recorded as one user turn; an accepted *)
(* report ends the Job, with the answers of its siblings recorded.         *)
Shows(d) == Cardinality({i \in 1..Len(texts) : texts[i].what = d})
EndTurn ==
    /\ step = "next" /\ uses # <<>>
    /\ shown' = [d \in Memories |-> shown[d] + Shows(d)]
    /\ stopActive' = (stopActive \/ terminalSeen)
    /\ step' = IF payload # 0 THEN "over" ELSE "calling"
    /\ ClearTurn
    /\ UNCHANGED <<write, begun, turns, crashes, memory, patchVars>>

(* The worker dies, wherever it is, and with it all that is not in the     *)
(* Thread; a relaunch replays it.                                          *)
Crash ==
    /\ step \notin {"over", "dead"} /\ crashes < MaxCrashes
    /\ crashes' = crashes + 1 /\ step' = "dead"
    /\ ClearTurn /\ stopActive' = FALSE /\ injected' = {} /\ lost' = {}
    /\ outcome' = IF outcome = "none" THEN "none" ELSE "killed"
    /\ UNCHANGED <<write, begun, shown, turns, disk, staged, diff, before, todo, fault>>

Relaunch ==
    /\ step = "dead" /\ step' = "starting" /\ Forget(FALSE)
    /\ UNCHANGED <<inTurn, atUse, job, memory>>

Next ==
    \/ Seed \/ Turn \/ EndTurn \/ Crash \/ Relaunch
    \/ \E tool \in Tools : RefuseReport(tool)
    \/ \E blocked \in StopEvents : Report(blocked)
    \/ \E tool \in Tools, dirs \in Touches, event \in PreEvents : PreTool(tool, dirs, event)
    \/ step = "next" /\ N = 0 /\ turns <= PatchTurns /\
       \E d \in Diffs : \E events \in [1..Len(Files(d)) -> PreEvents] : PrePatch(d, events)
    \/ \E ok \in BOOLEAN : Dispatch(ok)
    \/ NoSuchTool \/ PatchStep \/ PatchReturns
    \/ \E files \in Disks \cup {MadeFrom(diff)} : StartPatch(files)
    \/ step = "post" /\ \E events \in [1..Events -> PostEvents] : Post(events)
    \/ \E read \in SUBSET touched : \E fresh \in SetToSeqs(read \ injected) :
          LazyMemory(read, fresh)

Spec == Init /\ [][Next]_vars

-----------------------------------------------------------------------------
(* Every tool_use of the turn is answered once and in order, but for the   *)
(* accepted report (no unanswered tool_use goes into the next request),    *)
(* and the texts that follow come in the order of their uses.              *)
Answered == {answers[i].use : i \in 1..Len(answers)}
AnsweredInOrder ==
    /\ step \in {"next", "over"} => Answered = (1..N) \ {payload}
    /\ \A i, k \in 1..Len(answers) : i < k => answers[i].use < answers[k].use
    /\ \A i, k \in 1..Len(texts) : i < k => texts[i].use <= texts[k].use

(* A tool use some hook objected to is never run - a patch of several      *)
(* files not at all - and a report the Stop hooks blocked never ends the   *)
(* Job; the payload is the turn's first valid report.                      *)
ObjectionsHold ==
    /\ objected \cap ran = {} /\ payload \notin objected
    /\ payload # 0 => \A i \in 1..(payload - 1) : uses[i] # "report"

(* A directory's Memory reaches the Thread at most once, across crashes    *)
(* and relaunches and counting what this turn is about to record.          *)
MemoryOnce == \A d \in Memories : shown[d] + Shows(d) <= 1

(* What the worker believes it has shown is in the Thread or about to be   *)
(* recorded.  The exception: blocks dropped because a directory deeper     *)
(* down could not be read.                                                 *)
InjectedIsShown ==
    step \notin {"starting", "dead"} =>
        injected = {d \in Memories : shown[d] + Shows(d) > 0} \cup lost

(* A worker shows the Memory it has to show, and once: over crashes and    *)
(* replays, its belief and the Thread agree (`lazy_blocks_for_path`,       *)
(* `derive_injected`).                                                     *)
MemoryShownOnce == MemoryOnce /\ InjectedIsShown
=============================================================================
