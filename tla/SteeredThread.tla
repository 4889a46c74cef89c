--------------------------- MODULE SteeredThread ----------------------------
(***************************************************************************)
(* One Job's loop, its Thread and its steer queue (src/chinamax/loop.py),  *)
(* over crashes, relaunches and resumes.                                   *)
(*                                                                         *)
(* Actors: the worker, which alone writes the Thread and empties the       *)
(* queue; the `steer` processes, one per steer, which drop files into the  *)
(* queue without any lock; the model, which answers a request with any     *)
(* turn.  The worker may be killed between two effects, and, with MayTear, *)
(* inside an append.                                                       *)
(***************************************************************************)
EXTENDS Thread

CONSTANTS MaxSteers,  \* steers sent, named 1, 2, ... in the order of their names
          MaxTurns,   \* model turns, over all runs
          MaxRuns,    \* worker runs: the first, relaunches, runs of resumes
          MayTear,    \* whether a crash may cut an append short
          MayFault    \* whether reading or renaming a queue file may fail

ASSUME BoundsAssumption == {MaxSteers, MaxTurns, MaxRuns} \subseteq Nat
ASSUME SwitchAssumption == {MayTear, MayFault} \subseteq BOOLEAN

Steers == 1..MaxSteers

VARIABLES disk,    \* the Thread's file
          queue,   \* steer files waiting in the queue directory
          acked,   \* steer files moved to consumed/
          logged,  \* steers the Job log calls undelivered
          status,  \* the Job's status as the verbs grade it
          worker,  \* the running loop: its step, its history, its dedupe set
          sender,  \* steer -> the process that sends it
          turns,   \* how many turns the model has given
          runs,    \* how many times a worker has started
          seen     \* the last request the model was sent
vars == <<disk, queue, acked, logged, status, worker, sender, turns, runs, seen>>
files == <<queue, acked, logged>>

WorkerPCs == {"off", "seeded", "draining", "flushed", "calling", "answered",
              "sweeping", "ended"}
SenderPCs == {"unsent", "named", "landed", "queued", "late", "refused", "lost"}

Off == [pc |-> "off", messages |-> <<>>, known |-> {}, listing |-> {}]

Active   == status \in {"queued", "running"}
LandedIn == {n \in Steers : sender[n].pc \in {"landed", "queued", "late"}}

TypeOK ==
    /\ disk.open \in BOOLEAN
    /\ \A line \in ToSet(disk.lines) :
           /\ line.whole => line.role \in {"user", "assistant"} /\ line.blocks # <<>>
           /\ line.steer \in {0} \cup Steers
    /\ queue \subseteq Steers /\ acked \subseteq Steers /\ logged \subseteq Steers
    /\ queue \cap acked = {}
    /\ status \in {"queued", "running", "interrupted", "done"}
    /\ worker.pc \in WorkerPCs
    /\ worker.known \subseteq Steers /\ worker.listing \subseteq queue
    /\ sender \in [Steers -> [pc : SenderPCs, after : SUBSET Steers]]
    /\ turns \in 0..MaxTurns /\ runs \in 0..MaxRuns

Init ==
    /\ disk = EmptyDisk
    /\ queue = {} /\ acked = {} /\ logged = {}
    /\ status = "queued"
    /\ worker = Off
    /\ sender = [n \in Steers |-> [pc |-> "unsent", after |-> {}]]
    /\ turns = 0 /\ runs = 0
    /\ seen = <<>>

-----------------------------------------------------------------------------
(* `steer`: grade the Job and name the file (names sort by time), move the *)
(* written file into the queue, grade the Job again and report.  `after`   *)
(* remembers which steers were in place when this one was named.           *)
SteerBegin(n) ==
    /\ sender[n].pc = "unsent"
    /\ \A m \in 1..n - 1 : sender[m].pc # "unsent"
    /\ sender' = [sender EXCEPT ![n] =
                     IF Active THEN [pc |-> "named", after |-> LandedIn]
                               ELSE [pc |-> "refused", after |-> {}]]
    /\ UNCHANGED <<disk, files, status, worker, turns, runs, seen>>

SteerLand(n) ==
    /\ sender[n].pc = "named"
    /\ queue' = queue \cup {n}
    /\ sender' = [sender EXCEPT ![n].pc = "landed"]
    /\ UNCHANGED <<disk, acked, logged, status, worker, turns, runs, seen>>

SteerReport(n) ==
    /\ sender[n].pc = "landed"
    /\ sender' = [sender EXCEPT ![n].pc = IF Active THEN "queued" ELSE "late"]
    /\ UNCHANGED <<disk, files, status, worker, turns, runs, seen>>

-----------------------------------------------------------------------------
(* What the model may answer: no tool use, tool uses, the terminal report, *)
(* or a report beside another tool use.                                    *)
TurnContents(t) ==
    {<<Text>>,
     <<Block("tool_use", 10 * t + 1)>>,
     <<Block("tool_use", 10 * t + 1), Block("tool_use", 10 * t + 2)>>,
     <<Block("report_result", 10 * t + 1)>>,
     <<Block("tool_use", 10 * t + 1), Block("report_result", 10 * t + 2)>>}

(* The results of the uses of these kinds.                                 *)
Results(blocks, kinds) ==
    LET uses == Selected(blocks, [kind : kinds, id : Nat])
    IN [i \in DOMAIN uses |-> Block("tool_result", uses[i].id)]
LastTurn ==  Last(worker.messages).blocks

(* What answers the turn that was just recorded: the nudge when it used no *)
(* tool; every result when it goes on, a refused report (by the schema or  *)
(* a Stop hook) among them; the results of the siblings when it ends.      *)
Acceptance == IF \E b \in ToSet(LastTurn) : b.kind = "report_result"
              THEN BOOLEAN ELSE {FALSE}
Answer(accepted) ==
    IF accepted THEN Results(LastTurn, {"tool_use"})
    ELSE LET results == Results(LastTurn, UseKinds)
         IN IF results = <<>> THEN <<Text>> ELSE results

(* The steer whose turn it is: names sort by time.                         *)
Eldest == CHOOSE n \in worker.listing : \A m \in worker.listing : n <= m
(* The drain stands before a steer to inject.                              *)
Injecting == /\ worker.pc = "draining"
             /\ worker.listing # {}
             /\ Eldest \notin worker.known

(* The records the worker may append in its next step.                     *)
NextLines ==
    CASE worker.pc = "seeded" /\ worker.messages = <<>> -> {Line("user", <<Text>>)}
      [] Injecting -> {SteerLine(Eldest)}
      [] worker.pc = "calling" /\ turns < MaxTurns ->
             {Line("assistant", blocks) : blocks \in TurnContents(turns + 1)}
      [] worker.pc = "answered" ->
             {line \in {Line("user", Answer(accepted)) : accepted \in Acceptance} :
                  line.blocks # <<>>}
      [] OTHER -> {}

(* A worker starts: it claims the record, replays the Thread (an unreadable*)
(* one raises before the loop's own cleanup is in force) and reads once    *)
(* which steers are in it.                                                 *)
StartKnowing(known) ==
    /\ worker.pc = "off" /\ status # "done"
    /\ runs < MaxRuns
    /\ runs' = runs + 1
    /\ status' = "running"
    /\ worker' = IF Parses(disk.lines)
                 THEN [Off EXCEPT !.pc = "seeded", !.messages = Replay(disk.lines),
                                  !.known = known]
                 ELSE [Off EXCEPT !.pc = "ended"]
    /\ UNCHANGED <<disk, files, sender, turns, seen>>

(* What-if: a relaunch whose dedupe set starts empty.                      *)
StartForgetful == StartKnowing({})
Start == StartKnowing(ReadSteerIds(disk.lines))

(* The top of an iteration: the drain lists the queue.                     *)
Draining(w) == [w EXCEPT !.pc = "draining", !.listing = queue]

(* The prompt opens a fresh Thread; a seeded one is sent as it stands.     *)
Open ==
    /\ worker.pc = "seeded"
    /\ IF worker.messages = <<>>
       THEN \E line \in NextLines :
                /\ disk' = Write(disk, line)
                /\ worker' = Draining([worker EXCEPT !.messages = <<User(line.blocks)>>])
       ELSE /\ worker' = Draining(worker)
            /\ UNCHANGED disk
    /\ UNCHANGED <<files, status, sender, turns, runs, seen>>

(* One steer of the listing: it rides the outgoing user turn, in memory    *)
(* and in the Thread, and is acknowledged afterwards.                      *)
Inject ==
    /\ Injecting
    /\ \E line \in NextLines :
           /\ disk' = Write(disk, line)
           /\ worker' = [worker EXCEPT !.pc = "flushed",
                                       !.messages = Ride(@, line.blocks),
                                       !.known = @ \cup {line.steer}]
    /\ UNCHANGED <<files, status, sender, turns, runs, seen>>

(* The drain is done with the steer whose turn it was.                     *)
Passed == [worker EXCEPT !.pc = "draining", !.listing = @ \ {Eldest}]

(* What-if: a copy that leaves the queue file behind.                      *)
AcknowledgeByCopy ==
    /\ worker.pc = "flushed"
    /\ acked' = acked \cup {Eldest}
    /\ worker' = Passed
    /\ UNCHANGED <<disk, queue, logged, status, sender, turns, runs, seen>>

(* What-if: rename first, record afterwards.                               *)
AcknowledgeEarly ==
    /\ worker.pc = "draining" /\ worker.listing # {}
    /\ queue' = queue \ {Eldest} /\ acked' = acked \cup {Eldest}
    /\ worker' = Passed
    /\ UNCHANGED <<disk, logged, status, sender, turns, runs, seen>>

(* The rename into consumed/, right after an injection or of a steer that  *)
(* an earlier run had injected.  A failed rename is passed over.           *)
Acknowledge ==
    /\ \/ worker.pc = "flushed"
       \/ worker.pc = "draining" /\ worker.listing # {} /\ Eldest \in worker.known
    /\ \/ queue' = queue \ {Eldest} /\ acked' = acked \cup {Eldest}
       \/ MayFault /\ UNCHANGED <<queue, acked>>
    /\ worker' = Passed
    /\ UNCHANGED <<disk, logged, status, sender, turns, runs, seen>>

(* A queue file that cannot be read stays for the next drain, and has lost *)
(* its place before the others.                                            *)
Skip ==
    /\ MayFault /\ Injecting
    /\ worker' = Passed
    /\ sender' = [n \in Steers |-> [sender[n] EXCEPT !.after = @ \ {Eldest}]]
    /\ UNCHANGED <<disk, files, status, turns, runs, seen>>

SendRequest ==
    /\ worker.pc = "draining" /\ worker.listing = {}
    /\ worker' = [worker EXCEPT !.pc = "calling"]
    /\ seen' = worker.messages
    /\ UNCHANGED <<disk, files, status, sender, turns, runs>>

(* The model's turn is recorded before anything is done about it.          *)
ReceiveTurn ==
    /\ worker.pc = "calling"
    /\ \E line \in NextLines :
           /\ disk' = Write(disk, line)
           /\ worker' = [worker EXCEPT !.pc = "answered",
                             !.messages = Append(@, Message("assistant", line.blocks))]
    /\ turns' = turns + 1
    /\ UNCHANGED <<files, status, sender, runs, seen>>

(* The ladder is exhausted, or the error is permanent.                     *)
CallFails ==
    /\ worker.pc = "calling"
    /\ worker' = [worker EXCEPT !.pc = "sweeping"]
    /\ UNCHANGED <<disk, files, status, sender, turns, runs, seen>>

(* The turn's tools have run: record what answers it, then go round again, *)
(* or end on an accepted report.                                           *)
AnswerTurn ==
    /\ worker.pc = "answered"
    /\ \E accepted \in Acceptance :
           LET blocks   == Answer(accepted)
               recorded == [worker EXCEPT !.messages = Append(@, User(blocks))] IN
           /\ disk' = IF blocks = <<>> THEN disk ELSE Write(disk, Line("user", blocks))
           /\ worker' = IF accepted THEN [worker EXCEPT !.pc = "sweeping"]
                                    ELSE Draining(recorded)
    /\ UNCHANGED <<files, status, sender, turns, runs, seen>>

(* The loop's cleanup logs what is still queued; later, outside the loop,  *)
(* the Job becomes terminal.                                               *)
Sweep ==
    /\ worker.pc = "sweeping"
    /\ logged' = logged \cup queue
    /\ worker' = [worker EXCEPT !.pc = "ended"]
    /\ UNCHANGED <<disk, queue, acked, status, sender, turns, runs, seen>>

Terminate ==
    /\ worker.pc = "ended"
    /\ status' = "done"
    /\ worker' = Off
    /\ UNCHANGED <<disk, files, sender, turns, runs, seen>>

-----------------------------------------------------------------------------
(* The worker is killed, between two effects or inside an append.          *)
Crash ==
    /\ worker.pc # "off"
    /\ disk' \in {disk} \cup
          IF MayTear THEN UNION {Torn(disk, line) : line \in NextLines} ELSE {}
    /\ worker' = Off
    /\ turns' = IF worker.pc = "calling" /\ disk' # disk THEN turns + 1 ELSE turns
    /\ UNCHANGED <<files, status, sender, runs, seen>>

(* The grace passes and the verbs grade the Job `interrupted`.             *)
GracePasses ==
    /\ worker.pc = "off" /\ status = "running"
    /\ status' = "interrupted"
    /\ UNCHANGED <<disk, files, worker, sender, turns, runs, seen>>

(* `resume`: a new Job whose Thread is the repaired history with the       *)
(* follow-up merged in.  Its queue is its own: a steer still on its way    *)
(* lands in the old one, and one that landed there finds the Job over.     *)
Resume ==
    /\ status \in {"interrupted", "done"} /\ runs < MaxRuns
    /\ Parses(disk.lines) /\ Replay(disk.lines) # <<>>
    /\ disk' = CopyOf(MergeFollowUp(Replay(disk.lines)))
    /\ queue' = {} /\ acked' = {} /\ logged' = {}
    /\ status' = "queued"
    /\ sender' = [n \in Steers |->
                     [sender[n] EXCEPT !.pc = CASE @ = "named" -> "lost"
                                                [] @ = "landed" -> "late"
                                                [] OTHER -> @]]
    /\ UNCHANGED <<worker, turns, runs, seen>>

-----------------------------------------------------------------------------
Next ==
    \/ \E n \in Steers : SteerBegin(n) \/ SteerLand(n) \/ SteerReport(n)
    \/ Start \/ Open \/ Inject \/ Acknowledge \/ Skip
    \/ SendRequest \/ ReceiveTurn \/ CallFails \/ AnswerTurn
    \/ Sweep \/ Terminate
    \/ Crash \/ GracePasses \/ Resume

Spec == Init /\ [][Next]_vars

-----------------------------------------------------------------------------
Calling == worker.pc = "calling"
Occurrences(n, messages) ==
    LET read == SteersOf(messages) IN Cardinality({i \in DOMAIN read : read[i] = n})

(* A steer the loop has acknowledged, or takes for injected, is in the     *)
(* history the model is sent, exactly once: commit first and acknowledge   *)
(* second loses none to a crash in the gap, and the dedupe set read from   *)
(* the Thread injects none twice (`_drain_steers`).                        *)
SteerExactlyOnce ==
    Calling => \A n \in acked \cup worker.known : Occurrences(n, worker.messages) = 1

(* Steers reach the model in the order they were sent: one that was in     *)
(* place before the other was named is read before it, unless its file     *)
(* could not be read when its turn came.                                   *)
SteersInOrder ==
    LET read == SteersOf(worker.messages) IN
    Calling => \A i, j \in DOMAIN read : i < j => read[j] \notin sender[read[i]].after

(* What the model reads of the steers is what was sent: none lost, none    *)
(* twice, none before its elder (`_drain_steers`).                         *)
SteersAsSent == SteerExactlyOnce /\ SteersInOrder

(* Every request is one an endpoint accepts, after any sequence of crashes,*)
(* relaunches, resumes, nudges and steers: no adjacent user turns, and     *)
(* every tool use answered at the head of the next turn.                   *)
RequestIsWellFormed ==
    Calling => Alternates(worker.messages) /\ AllAnswered(worker.messages)

(* What the model was sent once it is sent again: a relaunch or a resume   *)
(* replays the exact history of every earlier request and adds to it.      *)
HistoryOnlyGrows == [][Extends(seen', seen)]_seen

-----------------------------------------------------------------------------
(* Promises that the code does not keep.                                   *)

(* "A seeded history always ENDS in an unsent user turn" (`run_loop`): the *)
(* bounds of MCThread_history.cfg refute it.                               *)
RequestEndsInUserTurn == Calling => Last(worker.messages).role = "user"

(* "a torn trailing line is tolerated" (`read_messages`): a crash inside   *)
(* an append never makes the Thread unreadable.                            *)
ThreadStaysReadable == Parses(disk.lines)

(* "At the terminal transition, log any steer that lost the                *)
(* accept-versus-terminate race as undelivered — an auditable trace"       *)
(* (`run_loop`): a steer reported as queued was injected or is in the log. *)
(* One steer, one turn and one run refute it.                              *)
NoSilentLoss ==
    status = "done" =>
        \A n \in Steers : sender[n].pc = "queued" => n \in acked \cup logged

-----------------------------------------------------------------------------
(* What all this implements.                                               *)
Mailbox == INSTANCE SteerMailbox WITH
    queued    <- LandedIn,
    delivered <- SteersOf(seen)
ImplementsMailbox == Mailbox!Spec
=============================================================================
