---------------------------- MODULE Supervision -----------------------------
(***************************************************************************)
(* A Job must not outlive its Bridge, and must not be killed while its     *)
(* Bridge still polls (src/chinamax/state.py, `stamp_supervision`,         *)
(* `reap_stale_supervision`; `_status_wait` of __main__.py).               *)
(*                                                                         *)
(* Pollers run `status --wait`: each poll reads the record, stamps it and  *)
(* waits.  One poller is the Job's Bridge, the others are operators; the   *)
(* code cannot tell them apart.  Sweepers are session hooks that look for  *)
(* a stale stamp, look again, kill and mark.  Time is in ticks; the record *)
(* holds ages instead of timestamps.                                       *)
(***************************************************************************)
EXTENDS Naturals, FiniteSetsExt

CONSTANTS Pollers, Bridge, Sweepers,
          Bound,        \* poller -> its --timeout-ms, clamped
          DefaultBound, \* WAIT_TIMEOUT_MS, for a record never stamped
          Slack,        \* SUPERVISION_STALE_SLACK_S
          Grace,        \* STALE_GRACE_S, of the crash grade
          Delay,        \* how late a healthy Bridge may be with its next poll
          FirstDelay,   \* ... and with its first
          Lost          \* how many of its stamps in a row may fail

ASSUME BridgeAssumption == Bridge \in Pollers
ASSUME TimeAssumption ==
    /\ Bound \in [Pollers -> 1..DefaultBound]
    /\ {DefaultBound, Slack, Grace, Delay, FirstDelay, Lost} \subseteq Nat

VARIABLES job,     \* the record
          worker,  \* whether the worker lives
          poller,  \* poller -> its step, the bound it has read, ticks left
          sweeper, \* sweeper -> its step
          basis,   \* history: the bound read by the poll whose stamp stands
          missed   \* history: the Bridge's stamps that failed since its last
history == <<basis, missed>>
vars == <<job, worker, poller, sweeper, history>>

-----------------------------------------------------------------------------
Multiplier == 2
(* Ages are told apart up to the largest threshold, and up to the grace.   *)
Horizon == Multiplier * DefaultBound + Slack + 1
Later(age, horizon) == IF age < horizon THEN age + 1 ELSE age

(* What-if: a record never stamped is never stale.                         *)
StaleOnceStamped(r) == r.bound # 0 /\ r.stampAge > r.bound + Slack

Threshold(bound) == Multiplier * bound + Slack
StampedBound(r) == IF r.bound = 0 THEN DefaultBound ELSE r.bound
Stale(r) == r.stampAge > Threshold(StampedBound(r))

(* The grade: a dead worker and a heartbeat older than the grace.          *)
Active == /\ job.status = "running"
          /\ worker = "alive" \/ job.touchAge <= Grace

TypeOK ==
    /\ job \in [status : {"running", "finished", "interrupted"},
                bound : {0} \cup {Bound[p] : p \in Pollers},
                stampAge : 0..Horizon, touchAge : 0..Grace+1]
    /\ worker \in {"alive", "dead"}
    /\ poller \in [Pollers -> [pc : {"idle", "stamping", "waiting", "gone"},
                               read : {0} \cup {Bound[p] : p \in Pollers},
                               left : 0..Max({DefaultBound, Delay, FirstDelay})]]
    /\ sweeper \in [Sweepers -> {"idle", "listed", "killing", "marking"}]
    /\ basis \in {0} \cup {Bound[p] : p \in Pollers} /\ missed \in 0..Lost+1

Poller(pc, left) == [pc |-> pc, read |-> 0, left |-> left]

(* Dispatched by the Bridge and running; `createdAt` is the baseline until *)
(* the first stamp.                                                        *)
Init ==
    /\ job = [status |-> "running", bound |-> 0, stampAge |-> 0, touchAge |-> 0]
    /\ worker = "alive"
    /\ poller = [p \in Pollers |-> Poller("idle", IF p = Bridge THEN FirstDelay ELSE 0)]
    /\ sweeper = [s \in Sweepers |-> "idle"]
    /\ basis = 0 /\ missed = 0

-----------------------------------------------------------------------------

(* `status --wait`: read the record, and stamp it if the Job is active.    *)
(* Otherwise the verb reports at once, and a Bridge stops polling.         *)
PollRead(p) ==
    /\ poller[p].pc = "idle"
    /\ poller' = [poller EXCEPT ![p] =
                     IF Active THEN [@ EXCEPT !.pc = "stamping", !.read = job.bound]
                     ELSE Poller("gone", 0)]
    /\ UNCHANGED <<job, worker, sweeper, history>>

(* What-if: the poll's own bound.                                          *)
OwnBound(p) == Bound[p]
(* The bound a poll stores: its own, unless the one it read is longer.     *)
BoundToStore(p) == Max({poller[p].read, Bound[p]})

(* What-if: the stamp refreshes `updatedAt` like any other update.         *)
TouchingStamp(p) ==
    /\ poller[p].pc = "stamping"
    /\ job' = IF job.status = "running"
              THEN [job EXCEPT !.bound = BoundToStore(p), !.stampAge = 0, !.touchAge = 0]
              ELSE job
    /\ basis' = IF job.status = "running" THEN poller[p].read ELSE basis
    /\ missed' = IF p = Bridge THEN 0 ELSE missed
    /\ poller' = [poller EXCEPT ![p] = Poller("waiting", Bound[p])]
    /\ UNCHANGED <<worker, sweeper>>

(* The stamp proper, a compare-and-swap on the status that leaves          *)
(* `updatedAt` alone and does not look at the bound it overwrites.         *)
Stamp(p) ==
    /\ poller[p].pc = "stamping"
    /\ job' = IF job.status = "running"
              THEN [job EXCEPT !.bound = BoundToStore(p), !.stampAge = 0]
              ELSE job
    /\ basis' = IF job.status = "running" THEN poller[p].read ELSE basis
    /\ missed' = IF p = Bridge THEN 0 ELSE missed
    /\ poller' = [poller EXCEPT ![p] = Poller("waiting", Bound[p])]
    /\ UNCHANGED <<worker, sweeper>>

(* The stamp raises; that is swallowed, and the poll waits all the same.   *)
StampFails(p) ==
    /\ poller[p].pc = "stamping"
    /\ poller' = [poller EXCEPT ![p] = Poller("waiting", Bound[p])]
    /\ missed' = IF p = Bridge /\ missed <= Lost THEN missed + 1 ELSE missed
    /\ UNCHANGED <<job, worker, sweeper, basis>>

(* The wait ends: something changed, the Job is over, or the bound expired.*)
PollReturn(p) ==
    /\ poller[p].pc = "waiting"
    /\ poller' = [poller EXCEPT ![p] = Poller("idle", IF p = Bridge THEN Delay ELSE 0)]
    /\ UNCHANGED <<job, worker, sweeper, history>>

PollerLeaves(p) ==
    /\ poller[p].pc # "gone"
    /\ poller' = [poller EXCEPT ![p] = Poller("gone", 0)]
    /\ UNCHANGED <<job, worker, sweeper, history>>

-----------------------------------------------------------------------------
(* The stale sweep of one hook: list, read again, kill, mark.              *)
SweepList(s) ==
    /\ sweeper[s] = "idle"
    /\ Active /\ Stale(job)
    /\ sweeper' = [sweeper EXCEPT ![s] = "listed"]
    /\ UNCHANGED <<job, worker, poller, history>>

SweepReread(s) ==
    /\ sweeper[s] = "listed"
    /\ sweeper' = [sweeper EXCEPT ![s] =
                      IF Active /\ Stale(job) THEN "killing" ELSE "idle"]
    /\ UNCHANGED <<job, worker, poller, history>>

(* The tree is gone, or something in it survived and the hook gives up.    *)
SweepKill(s) ==
    /\ sweeper[s] = "killing"
    /\ \/ /\ worker' = "dead"
          /\ sweeper' = [sweeper EXCEPT ![s] = "marking"]
       \/ /\ worker = "alive"
          /\ sweeper' = [sweeper EXCEPT ![s] = "idle"]
          /\ UNCHANGED worker
    /\ UNCHANGED <<job, poller, history>>

SweepMark(s) ==
    /\ sweeper[s] = "marking"
    /\ job' = IF job.status = "running"
              THEN [job EXCEPT !.status = "interrupted", !.touchAge = 0] ELSE job
    /\ sweeper' = [sweeper EXCEPT ![s] = "idle"]
    /\ UNCHANGED <<worker, poller, history>>

-----------------------------------------------------------------------------
Heartbeat ==
    /\ worker = "alive" /\ job.status = "running"
    /\ job' = [job EXCEPT !.touchAge = 0]
    /\ UNCHANGED <<worker, poller, sweeper, history>>

Finish ==
    /\ worker = "alive" /\ job.status = "running"
    /\ job' = [job EXCEPT !.status = "finished", !.touchAge = 0]
    /\ worker' = "dead"
    /\ UNCHANGED <<poller, sweeper, history>>

Crash ==
    /\ worker = "alive"
    /\ worker' = "dead"
    /\ UNCHANGED <<job, poller, sweeper, history>>

(* A tick.  Nobody waits past the bound, a Bridge that is not gone is      *)
(* never later than its delay, and operators come back when they like.     *)
Tick ==
    /\ \A p \in Pollers : poller[p].pc = "waiting" => poller[p].left > 0
    /\ poller[Bridge].pc \in {"idle", "stamping"} => poller[Bridge].left > 0
    /\ job' = [job EXCEPT !.stampAge = Later(@, Horizon), !.touchAge = Later(@, Grace + 1)]
    /\ poller' = [p \in Pollers |->
                     [poller[p] EXCEPT !.left = IF @ > 0 THEN @ - 1 ELSE 0]]
    /\ UNCHANGED <<worker, sweeper, history>>

-----------------------------------------------------------------------------
SweepSteps(s) == SweepList(s) \/ SweepReread(s) \/ SweepKill(s) \/ SweepMark(s)

Next ==
    \/ \E p \in Pollers : \/ PollRead(p) \/ Stamp(p) \/ StampFails(p)
                          \/ PollReturn(p) \/ PollerLeaves(p)
    \/ \E s \in Sweepers : SweepSteps(s)
    \/ Heartbeat \/ Finish \/ Crash \/ Tick

Spec == Init /\ [][Next]_vars

(* Time passes, polls move on, a Bridge polls again or leaves, hooks of the*)
(* session keep firing, and a kill does not fail for ever.                 *)
Fairness ==
    /\ WF_vars(Tick)
    /\ WF_vars(PollRead(Bridge) \/ PollerLeaves(Bridge))
    /\ \A p \in Pollers : WF_vars(Stamp(p) \/ StampFails(p)) /\ WF_vars(PollReturn(p))
    /\ \A s \in Sweepers : /\ WF_vars(SweepReread(s)) /\ WF_vars(SweepMark(s))
                           /\ SF_vars(SweepList(s))
                           /\ SF_vars(SweepKill(s) /\ worker' = "dead")
FairSpec == Spec /\ Fairness

-----------------------------------------------------------------------------
(* Why a Job whose Bridge is still there may read as stale: more of the    *)
(* Bridge's stamps failed in a row than its delay leaves room for, or the  *)
(* stamp that stands is of a poll that had read a bound below the Bridge's *)
(* (before its first stamp, or that landed after another late one), and    *)
(* stored a shorter one than the Bridge polls with.                        *)
OutOfTouch == missed > Lost
Undercut == basis < Bound[Bridge] /\ job.bound < Bound[Bridge]

(* A hook goes on to kill a Job after its second look only if the Bridge   *)
(* has gone, or is out of touch or undercut at that moment: neither the    *)
(* bounds operators poll with, nor a stamp that lands between the hook's   *)
(* two looks, nor a first look long ago does it ("a Bridge that stamped in *)
(* that gap must win", `reap_stale_supervision`).                          *)
SupervisedIsNotKilled ==
    [][\A s \in Sweepers :
          sweeper[s] = "listed" /\ sweeper'[s] = "killing"
              => poller[Bridge].pc = "gone" \/ OutOfTouch \/ Undercut]_vars

(* Polls do not hide a crash: once the worker has been dead for longer     *)
(* than the grace, the Job stops reading as active, however often it is    *)
(* polled (`touch=False`).                                                 *)
CrashIsSeen ==
    []((worker = "dead" /\ job.status = "running") => <>~Active)

(* A Job does not outlive its Bridge: when every poller has gone, and the  *)
(* session's hooks keep firing, the Job ends.                              *)
OrphanedJobEnds ==
    (\A p \in Pollers : poller[p].pc = "gone") ~> ~Active

-----------------------------------------------------------------------------
(* A promise the code does not keep: of stamps that interleave, "any       *)
(* regression is bounded below by the Bridge's own steady-state stamp"     *)
(* (`stamp_supervision`).  An operator that has read the record before the *)
(* Bridge's first stamp lands its own, shorter bound after it.             *)
NeverBelowTheBridge ==
    [][job.bound >= Bound[Bridge] => job'.bound >= Bound[Bridge]]_vars
=============================================================================
