---------------------------- MODULE Sweep_proofs -----------------------------
(***************************************************************************)
(* Proofs about Supervision and TreeKill: the sweep that settles stale     *)
(* Jobs, for any pollers with any bounds and any number of sweepers, and   *)
(* the one that stops a worker's processes, for any tree of them, any pids,*)
(* forks, exits and reuses while it goes on.                               *)
(***************************************************************************)
EXTENDS Supervision, TreeKill, Integers, TLAPS

(* One round of a Bridge's polling, and the age it must not let its stamp  *)
(* reach.                                                                  *)
Round == Bound[Bridge] + Delay
Limit == Threshold(Bound[Bridge])

(* What a Bridge that does its part keeps to, a matter of its delays and   *)
(* nobody else's: with as many stamps in a row lost as it may lose, its    *)
(* next one still comes within its own threshold, and so does its first.   *)
Punctual ==
    /\ (Lost + 1) * Round <= Limit
    /\ FirstDelay + Lost * Round <= Limit

-----------------------------------------------------------------------------
(* What is kept in reserve for the stamps that may still be lost.          *)
Reserve(m) == (Lost - m) * Round

(* Where the Bridge stands, the age of the stamp, the ticks it has left    *)
(* and its reserve never add up to more than its limit, whoever stamped    *)
(* and whatever bound the stamp stored.                                    *)
BridgeIsInTime ==
    (job.status = "running" /\ missed <= Lost) =>
        /\ poller[Bridge].pc \in {"idle", "stamping"} =>
              job.stampAge + poller[Bridge].left + Reserve(missed) <= Limit
        /\ poller[Bridge].pc = "waiting" =>
              job.stampAge + poller[Bridge].left + Delay + Reserve(missed) <= Limit

(* A stamp never stores less than its poll has read.                       *)
NeverLessThanRead == job.bound >= basis

IInv == /\ TypeOK /\ NeverLessThanRead
        /\ poller[Bridge].pc # "gone" => BridgeIsInTime

(* What the property asks of a step.                                       *)
KillHasACause ==
    \A s \in Sweepers :
        sweeper[s] = "listed" /\ sweeper'[s] = "killing"
            => poller[Bridge].pc = "gone" \/ OutOfTouch \/ Undercut

-----------------------------------------------------------------------------
(* The larger of two bounds, and the longest wait there is.                *)
LEMMA MaxOfTwo ==
    ASSUME NEW a \in Nat, NEW b \in Nat
    PROVE  Max({a, b}) \in {a, b} /\ Max({a, b}) >= a /\ Max({a, b}) >= b
  <1>1. \E x \in {a, b} : \A y \in {a, b} : x >= y
    <2>1. CASE a >= b BY <2>1
    <2>2. CASE b >= a BY <2>2
    <2> QED BY <2>1, <2>2
  <1> QED BY <1>1 DEF Max

Longest == Max({DefaultBound, Delay, FirstDelay})

LEMMA LongestIsLongest ==
    /\ Longest \in Nat
    /\ Longest >= DefaultBound /\ Longest >= Delay /\ Longest >= FirstDelay
  <1> USE TimeAssumption
  <1>1. DefaultBound \in Nat /\ Delay \in Nat /\ FirstDelay \in Nat OBVIOUS
  <1>2. \E x \in {DefaultBound, Delay, FirstDelay} :
            \A y \in {DefaultBound, Delay, FirstDelay} : x >= y
    <2>1. CASE DefaultBound >= Delay /\ DefaultBound >= FirstDelay BY <1>1, <2>1
    <2>2. CASE Delay >= DefaultBound /\ Delay >= FirstDelay BY <1>1, <2>2
    <2>3. CASE FirstDelay >= DefaultBound /\ FirstDelay >= Delay BY <1>1, <2>3
    <2> QED BY <1>1, <2>1, <2>2, <2>3
  <1> QED BY <1>1, <1>2 DEF Longest, Max

LEMMA BoundsAreTimes ==
    /\ \A p \in Pollers : Bound[p] \in Nat /\ Bound[p] > 0 /\ Bound[p] <= DefaultBound
    /\ DefaultBound \in Nat /\ Slack \in Nat /\ Grace \in Nat
    /\ Delay \in Nat /\ FirstDelay \in Nat /\ Lost \in Nat
    /\ Bridge \in Pollers /\ Bound[Bridge] \in Nat /\ Bound[Bridge] > 0
    /\ Bound[Bridge] <= DefaultBound
  BY TimeAssumption, BridgeAssumption

(* TypeOK with its sets named.                                             *)
Bounds == {0} \cup {Bound[p] : p \in Pollers}
Places == [pc : {"idle", "stamping", "waiting", "gone"}, read : Bounds, left : 0..Longest]
Touched == 0..Grace+1
Records == [status : {"running", "finished", "interrupted"}, bound : Bounds,
            stampAge : 0..Horizon, touchAge : Touched]

LEMMA TypesSplit ==
    /\ Bounds \subseteq Nat
    /\ TypeOK <=> /\ job \in Records /\ worker \in {"alive", "dead"}
                  /\ poller \in [Pollers -> Places]
                  /\ sweeper \in [Sweepers -> {"idle", "listed", "killing", "marking"}]
                  /\ basis \in Bounds /\ missed \in 0..Lost+1
  BY BoundsAreTimes DEF TypeOK, Bounds, Places, Records, Touched, Longest

LEMMA TypesHold ==
    ASSUME TypeOK
    PROVE  /\ job.bound \in Nat /\ job.stampAge \in Nat /\ job.touchAge \in Nat
           /\ basis \in Nat /\ missed \in Nat /\ missed <= Lost + 1
           /\ \A p \in Pollers : /\ poller[p].left \in Nat /\ poller[p].left <= Longest
                                 /\ poller[p].read \in Nat /\ poller[p].read \in Bounds
                                 /\ poller[p].pc \in {"idle", "stamping", "waiting", "gone"}
  <1>1. /\ job \in Records /\ poller \in [Pollers -> Places]
        /\ basis \in Bounds /\ missed \in 0..Lost+1
    BY TypesSplit
  <1>2. job.bound \in Bounds /\ job.stampAge \in Nat /\ job.touchAge \in Nat
    BY <1>1 DEF Records, Touched
  <1>3. job.bound \in Nat /\ basis \in Nat BY <1>1, <1>2, TypesSplit
  <1>4. ASSUME NEW p \in Pollers
        PROVE  /\ poller[p].left \in 0..Longest /\ poller[p].read \in Bounds
               /\ poller[p].pc \in {"idle", "stamping", "waiting", "gone"}
    BY <1>1, <1>4 DEF Places
  <1>5. \A p \in Pollers : poller[p].read \in Nat BY <1>4, TypesSplit
  <1>6. missed \in Nat /\ missed <= Lost + 1 BY <1>1, BoundsAreTimes
  <1> QED BY <1>2, <1>3, <1>4, <1>5, <1>6, LongestIsLongest

LEMMA ThresholdGrows ==
    ASSUME NEW a \in Nat, NEW b \in Nat
    PROVE  /\ Threshold(a) \in Nat /\ Threshold(b) \in Nat
           /\ a <= b => Threshold(a) <= Threshold(b)
  BY BoundsAreTimes DEF Threshold, Multiplier

(* The reserve, one round less with each stamp lost.                       *)
LEMMA TimesDistribute ==
    ASSUME NEW a \in Nat, NEW c \in Nat
    PROVE  a * c \in Nat /\ (a + 1) * c = a * c + c
  OBVIOUS

LEMMA ReserveIs ==
    /\ Limit \in Nat /\ Round \in Nat /\ Round = Bound[Bridge] + Delay
    /\ \A m \in 0..Lost : Reserve(m) \in Nat
    /\ \A m \in 0..Lost : m + 1 <= Lost => Reserve(m) = Round + Reserve(m + 1)
    /\ Punctual => Round + Reserve(0) <= Limit /\ FirstDelay + Reserve(0) <= Limit
  <1> USE BoundsAreTimes
  <1>1. Limit \in Nat /\ Round \in Nat BY ThresholdGrows DEF Limit, Round
  <1>2. ASSUME NEW m \in 0..Lost PROVE Reserve(m) \in Nat
    BY <1>1, TimesDistribute DEF Reserve
  <1>3. ASSUME NEW m \in 0..Lost, m + 1 <= Lost PROVE Reserve(m) = Round + Reserve(m + 1)
    <2>1. PICK k \in Nat : k = Lost - (m + 1) BY <1>3
    <2>2. Lost - m = k + 1 BY <2>1
    <2>3. (k + 1) * Round = k * Round + Round BY <1>1, TimesDistribute
    <2>4. k * Round \in Nat BY <1>1, TimesDistribute
    <2>5. Reserve(m) = (k + 1) * Round /\ Reserve(m + 1) = k * Round
      BY <2>1, <2>2 DEF Reserve
    <2> QED BY <1>1, <2>3, <2>4, <2>5
  <1>4. ASSUME Punctual
        PROVE  Round + Reserve(0) <= Limit /\ FirstDelay + Reserve(0) <= Limit
    <2>1. Lost - 0 = Lost OBVIOUS
    <2>2. Reserve(0) = Lost * Round BY <2>1 DEF Reserve
    <2>3. (Lost + 1) * Round = Lost * Round + Round /\ Lost * Round \in Nat
      BY <1>1, TimesDistribute
    <2> QED BY <1>1, <1>4, <2>2, <2>3 DEF Punctual
  <1> QED BY <1>1, <1>2, <1>3, <1>4 DEF Round

(* What the writers of a record leave in it.                               *)
Statuses == {"running", "finished", "interrupted"}
Stamped(r, b) == [r EXCEPT !.bound = b, !.stampAge = 0]
Touch(r, status) == [r EXCEPT !.status = status, !.touchAge = 0]
Beaten(r) == [r EXCEPT !.touchAge = 0]
AgedAlike(q, r) == q.bound = r.bound /\ q.stampAge = r.stampAge

LEMMA RecordsAre ==
    ASSUME NEW r \in Records, NEW b \in Bounds, NEW status \in Statuses
    PROVE  /\ Stamped(r, b) \in Records
           /\ Stamped(r, b).bound = b /\ Stamped(r, b).stampAge = 0
           /\ Stamped(r, b).status = r.status
           /\ Touch(r, status) \in Records /\ AgedAlike(Touch(r, status), r)
           /\ Touch(r, status).status = status
           /\ Beaten(r) \in Records /\ AgedAlike(Beaten(r), r)
           /\ Beaten(r).status = r.status
  <1> USE DEF Stamped, Touch, Beaten, AgedAlike, Statuses
  <1>1. 0 \in 0..Horizon /\ 0 \in Touched
    BY BoundsAreTimes DEF Horizon, Multiplier, Touched
  <1>2. ASSUME NEW q \in Records
        PROVE  /\ [q EXCEPT !.stampAge = 0] \in Records
               /\ [q EXCEPT !.touchAge = 0] \in Records
               /\ [q EXCEPT !.bound = b] \in Records
               /\ [q EXCEPT !.status = status] \in Records
    BY <1>1 DEF Records
  <1>3. /\ Stamped(r, b).bound = b /\ Stamped(r, b).stampAge = 0
        /\ Stamped(r, b).status = r.status
        /\ AgedAlike(Touch(r, status), r) /\ Touch(r, status).status = status
        /\ AgedAlike(Beaten(r), r) /\ Beaten(r).status = r.status
    BY DEF Records
  <1>4. [r EXCEPT !.bound = b, !.stampAge = 0] = [[r EXCEPT !.bound = b] EXCEPT !.stampAge = 0]
    BY DEF Records
  <1>5. [r EXCEPT !.status = status, !.touchAge = 0]
           = [[r EXCEPT !.status = status] EXCEPT !.touchAge = 0]
    BY DEF Records
  <1> QED BY <1>2, <1>3, <1>4, <1>5

(* The stamp of a Bridge in time may read as stale only when it is a       *)
(* shorter bound than the Bridge's own that is held against it.            *)
LEMMA StaleIsUndercut ==
    ASSUME IInv, poller[Bridge].pc # "gone", job.status = "running", Stale(job)
    PROVE  OutOfTouch \/ Undercut
  <1> USE BoundsAreTimes DEF IInv
  <1> SUFFICES ASSUME missed <= Lost PROVE Undercut
    BY TypesHold DEF OutOfTouch
  <1>1. /\ poller[Bridge].pc \in {"idle", "stamping", "waiting"}
        /\ poller[Bridge].left \in Nat /\ job.stampAge \in Nat /\ job.bound \in Nat
        /\ basis \in Nat /\ missed \in 0..Lost
    BY TypesHold
  <1>2. Reserve(missed) \in Nat /\ Limit \in Nat BY <1>1, ReserveIs
  <1>3. job.stampAge <= Limit
    <2>1. CASE poller[Bridge].pc = "waiting"
      <3>1. job.stampAge + poller[Bridge].left + Delay + Reserve(missed) <= Limit
        BY <2>1 DEF BridgeIsInTime
      <3> HIDE DEF Reserve, Limit
      <3> QED BY <1>1, <1>2, <3>1
    <2>2. CASE poller[Bridge].pc # "waiting"
      <3>1. job.stampAge + poller[Bridge].left + Reserve(missed) <= Limit
        BY <1>1, <2>2 DEF BridgeIsInTime
      <3> QED BY <1>1, <1>2, <3>1
    <2> QED BY <2>1, <2>2
  <1>4. StampedBound(job) \in Nat BY <1>1 DEF StampedBound
  <1>5. StampedBound(job) < Bound[Bridge]
    <2>1. job.stampAge > Threshold(StampedBound(job)) BY DEF Stale
    <2>2. /\ Threshold(StampedBound(job)) \in Nat
          /\ Bound[Bridge] <= StampedBound(job) =>
                Threshold(Bound[Bridge]) <= Threshold(StampedBound(job))
      BY <1>4, ThresholdGrows
    <2> QED BY <1>1, <1>2, <1>3, <1>4, <2>1, <2>2 DEF Limit
  <1>6. job.bound < Bound[Bridge] BY <1>1, <1>5 DEF StampedBound
  <1> QED BY <1>1, <1>6 DEF Undercut, NeverLessThanRead

LEMMA InitInv == Punctual /\ Init => IInv
  <1> SUFFICES ASSUME Punctual, Init PROVE IInv OBVIOUS
  <1> USE BoundsAreTimes
  <1>1. 0 \in 0..Horizon /\ 0 \in Touched /\ 0 \in 0..Lost+1 /\ 0 \in 0..Lost
    BY DEF Horizon, Multiplier, Touched
  <1>2. 0 \in Bounds /\ FirstDelay \in 0..Longest /\ 0 \in 0..Longest
    BY LongestIsLongest DEF Bounds
  <1>3. \A p \in Pollers : Poller("idle", IF p = Bridge THEN FirstDelay ELSE 0) \in Places
    BY <1>2 DEF Places, Poller
  <1>4. poller \in [Pollers -> Places] BY <1>3 DEF Init
  <1>5. TypeOK BY <1>1, <1>2, <1>4, TypesSplit DEF Init, Records
  <1>6. job.bound = 0 /\ job.stampAge = 0 /\ job.status = "running" /\ basis = 0 /\ missed = 0
    BY DEF Init
  <1>7. poller[Bridge].pc = "idle" /\ poller[Bridge].left = FirstDelay
    BY DEF Init, Poller
  <1>8. FirstDelay + Reserve(0) <= Limit /\ Reserve(0) \in Nat /\ Limit \in Nat
    BY <1>1, ReserveIs
  <1>9. BridgeIsInTime BY <1>6, <1>7, <1>8 DEF BridgeIsInTime
  <1>10. NeverLessThanRead BY <1>6 DEF NeverLessThanRead
  <1> QED BY <1>5, <1>9, <1>10 DEF IInv

-----------------------------------------------------------------------------
(* The pollers.  One that moves without touching the record.               *)
LEMMA PollerMoves ==
    ASSUME IInv, NEW p \in Pollers, NEW x \in Places,
           poller' = [poller EXCEPT ![p] = x], UNCHANGED <<job, worker, sweeper, basis>>,
           missed' \in 0..Lost+1, p # Bridge => missed' = missed,
           p = Bridge /\ x.pc # "gone" =>
              /\ poller[p].pc # "gone"
              /\ (job.status = "running" /\ missed' <= Lost) =>
                    /\ x.pc \in {"idle", "stamping"} =>
                          job.stampAge + x.left + Reserve(missed') <= Limit
                    /\ x.pc = "waiting" =>
                          job.stampAge + x.left + Delay + Reserve(missed') <= Limit
    PROVE  IInv'
  <1> USE BoundsAreTimes DEF IInv
  <1>1. poller' \in [Pollers -> Places] BY TypesSplit
  <1>2. poller'[p] = x /\ \A q \in Pollers \ {p} : poller'[q] = poller[q]
    BY TypesSplit
  <1>3. TypeOK'
    BY <1>1, TypesSplit DEF TypeOK, Bounds, Places, Records, Touched, Longest
  <1>4. NeverLessThanRead' BY DEF NeverLessThanRead
  <1>5. (poller[Bridge].pc # "gone" => BridgeIsInTime)'
    <2>1. CASE p = Bridge BY <1>2, <2>1 DEF BridgeIsInTime, Reserve, Limit, Round
    <2>2. CASE p # Bridge BY <1>2, <2>2 DEF BridgeIsInTime, Reserve, Limit, Round
    <2> QED BY <2>1, <2>2
  <1> QED BY <1>3, <1>4, <1>5

LEMMA PollReadInv ==
    ASSUME IInv, NEW p \in Pollers, PollRead(p) PROVE IInv'
  <1> USE BoundsAreTimes DEF IInv
  <1>1. /\ poller[p].pc = "idle" /\ UNCHANGED <<job, worker, sweeper, basis, missed>>
    BY DEF PollRead, history
  <1>2. /\ poller[p] \in Places /\ job.bound \in Bounds /\ missed \in 0..Lost+1
    BY TypesSplit DEF Records
  <1>3. CASE Active
    <2>1. PICK x : x = [poller[p] EXCEPT !.pc = "stamping", !.read = job.bound]
      OBVIOUS
    <2>2. poller' = [poller EXCEPT ![p] = x] BY <1>3, <2>1 DEF PollRead
    <2>3. x \in Places /\ x.pc = "stamping" /\ x.left = poller[p].left
      BY <1>2, <2>1 DEF Places
    <2>4. p = Bridge /\ job.status = "running" /\ missed' <= Lost =>
             job.stampAge + x.left + Reserve(missed') <= Limit
      BY <1>1, <2>3 DEF BridgeIsInTime
    <2> QED BY <1>1, <1>2, <2>2, <2>3, <2>4, PollerMoves
  <1>4. CASE ~Active
    <2>1. PICK x : x = Poller("gone", 0) OBVIOUS
    <2>2. x \in Places /\ x.pc = "gone"
      BY <2>1, LongestIsLongest DEF Poller, Places, Bounds
    <2>3. poller' = [poller EXCEPT ![p] = x] BY <1>4, <2>1 DEF PollRead
    <2> QED BY <1>1, <1>2, <2>2, <2>3, PollerMoves
  <1> QED BY <1>3, <1>4

LEMMA PollReturnInv ==
    ASSUME IInv, NEW p \in Pollers, PollReturn(p) PROVE IInv'
  <1> USE BoundsAreTimes DEF IInv
  <1>1. PICK x : x = Poller("idle", IF p = Bridge THEN Delay ELSE 0) OBVIOUS
  <1>2. x \in Places /\ x.pc = "idle" /\ (p = Bridge => x.left = Delay)
    BY <1>1, LongestIsLongest DEF Poller, Places, Bounds
  <1>3. /\ poller' = [poller EXCEPT ![p] = x] /\ poller[p].pc = "waiting"
        /\ UNCHANGED <<job, worker, sweeper, basis, missed>>
    BY <1>1 DEF PollReturn, history
  <1>4. ASSUME p = Bridge, job.status = "running", missed' <= Lost
        PROVE  job.stampAge + x.left + Reserve(missed') <= Limit
    <2>1. job.stampAge + poller[Bridge].left + Delay + Reserve(missed) <= Limit
      BY <1>3, <1>4 DEF BridgeIsInTime
    <2>2. job.stampAge \in Nat /\ poller[Bridge].left \in Nat /\ missed \in 0..Lost
      BY <1>3, <1>4, TypesHold
    <2>3. Reserve(missed) \in Nat /\ Limit \in Nat BY <2>2, ReserveIs
    <2>4. x.left = Delay /\ missed' = missed BY <1>2, <1>3, <1>4
    <2> QED BY <2>1, <2>2, <2>3, <2>4
  <1>5. missed \in 0..Lost+1 BY TypesSplit
  <1> QED BY <1>2, <1>3, <1>4, <1>5, PollerMoves

LEMMA PollerLeavesInv ==
    ASSUME IInv, NEW p \in Pollers, PollerLeaves(p) PROVE IInv'
  <1>1. PICK x : x = Poller("gone", 0) OBVIOUS
  <1>2. x \in Places /\ x.pc = "gone"
    BY <1>1, LongestIsLongest DEF Poller, Places, Bounds
  <1>3. /\ poller' = [poller EXCEPT ![p] = x]
        /\ UNCHANGED <<job, worker, sweeper, basis, missed>>
    BY <1>1 DEF PollerLeaves, history
  <1>4. missed \in 0..Lost+1 BY TypesSplit DEF IInv
  <1> QED BY <1>2, <1>3, <1>4, PollerMoves

(* A stamp that fails costs the Bridge a round of its reserve.             *)
LEMMA StampFailsInv ==
    ASSUME IInv, NEW p \in Pollers, StampFails(p) PROVE IInv'
  <1> USE BoundsAreTimes DEF IInv
  <1>1. PICK x : x = Poller("waiting", Bound[p]) OBVIOUS
  <1>2. x \in Places /\ x.pc = "waiting" /\ x.left = Bound[p]
    BY <1>1, LongestIsLongest DEF Poller, Places, Bounds
  <1>3. /\ poller' = [poller EXCEPT ![p] = x] /\ poller[p].pc = "stamping"
        /\ UNCHANGED <<job, worker, sweeper, basis>>
        /\ missed' = IF p = Bridge /\ missed <= Lost THEN missed + 1 ELSE missed
    BY <1>1 DEF StampFails
  <1>4. missed \in 0..Lost+1 /\ missed' \in 0..Lost+1 BY <1>3, TypesSplit
  <1>5. ASSUME p = Bridge, job.status = "running", missed' <= Lost
        PROVE  job.stampAge + x.left + Delay + Reserve(missed') <= Limit
    <2>1. missed \in 0..Lost /\ missed' = missed + 1 /\ missed + 1 <= Lost
      BY <1>3, <1>4, <1>5
    <2>2. job.stampAge + poller[Bridge].left + Reserve(missed) <= Limit
      BY <1>3, <1>5, <2>1 DEF BridgeIsInTime
    <2>3. /\ Reserve(missed) = Round + Reserve(missed + 1)
          /\ Reserve(missed) \in Nat /\ Reserve(missed + 1) \in Nat /\ Limit \in Nat
          /\ Round = Bound[Bridge] + Delay
      BY <2>1, ReserveIs
    <2>4. job.stampAge \in Nat /\ poller[Bridge].left \in Nat BY TypesHold
    <2> QED BY <1>2, <1>5, <2>1, <2>2, <2>3, <2>4
  <1> QED BY <1>2, <1>3, <1>4, <1>5, PollerMoves

(* A stamp gives whoever polls a fresh age, and the Bridge its reserve.    *)
LEMMA StampInv == ASSUME Punctual, IInv, NEW p \in Pollers, Stamp(p) PROVE IInv'
  <1> USE BoundsAreTimes DEF IInv
  <1>1. PICK x : x = Poller("waiting", Bound[p]) OBVIOUS
  <1>2. x \in Places /\ x.pc = "waiting" /\ x.left = Bound[p]
    BY <1>1, LongestIsLongest DEF Poller, Places, Bounds
  <1>3. /\ poller' = [poller EXCEPT ![p] = x] /\ poller[p].pc = "stamping"
        /\ UNCHANGED <<worker, sweeper>>
        /\ missed' = IF p = Bridge THEN 0 ELSE missed
    BY <1>1 DEF Stamp
  <1>4. /\ poller' \in [Pollers -> Places]
        /\ poller'[p] = x /\ \A q \in Pollers \ {p} : poller'[q] = poller[q]
    BY <1>2, <1>3, TypesSplit
  <1>5. missed \in 0..Lost+1 /\ missed' \in 0..Lost+1
    <2>1. missed \in 0..Lost+1 /\ 0 \in 0..Lost+1 BY TypesSplit
    <2> QED BY <1>3, <2>1
  <1>6. CASE job.status # "running"
    <2>1. job' = job /\ basis' = basis BY <1>6 DEF Stamp
    <2>2. TypeOK'
      BY <1>3, <1>4, <1>5, <2>1, TypesSplit DEF TypeOK, Bounds, Places, Records, Touched, Longest
    <2> QED BY <1>6, <2>1, <2>2 DEF NeverLessThanRead, BridgeIsInTime
  <1>7. CASE job.status = "running"
    <2>1. /\ job' = [job EXCEPT !.bound = BoundToStore(p), !.stampAge = 0]
          /\ basis' = poller[p].read
      BY <1>7 DEF Stamp
    <2>2. /\ job \in Records /\ poller[p].read \in Nat /\ poller[p].read \in Bounds
          /\ Bound[p] \in Bounds
      BY TypesSplit, TypesHold DEF Bounds
    <2>3. /\ BoundToStore(p) \in {poller[p].read, Bound[p]}
          /\ BoundToStore(p) >= poller[p].read
      BY <2>2, MaxOfTwo DEF BoundToStore
    <2>4. BoundToStore(p) \in Bounds BY <2>2, <2>3
    <2>5. /\ job' \in Records /\ job'.bound = BoundToStore(p) /\ job'.stampAge = 0
          /\ job'.status = job.status
      <3>1. job' = Stamped(job, BoundToStore(p)) BY <2>1 DEF Stamped
      <3> QED BY <2>2, <2>4, <3>1, RecordsAre DEF Statuses
    <2>6. TypeOK'
      BY <1>3, <1>4, <1>5, <2>1, <2>2, <2>5, TypesSplit
         DEF TypeOK, Bounds, Places, Records, Touched, Longest
    <2>7. NeverLessThanRead' BY <2>1, <2>3, <2>5 DEF NeverLessThanRead
    <2>8. ASSUME poller'[Bridge].pc # "gone" PROVE BridgeIsInTime'
      <3>1. CASE p = Bridge
        <4>1. missed' = 0 /\ poller'[Bridge].pc = "waiting" /\ poller'[Bridge].left = Bound[Bridge]
          BY <1>2, <1>3, <1>4, <3>1
        <4>2. /\ Round + Reserve(0) <= Limit /\ Round = Bound[Bridge] + Delay
              /\ Reserve(0) \in Nat /\ Limit \in Nat
          BY ReserveIs
        <4>3. /\ job'.stampAge + poller'[Bridge].left + Delay + Reserve(missed') <= Limit
          BY <2>5, <4>1, <4>2
        <4> QED BY <4>1, <4>3 DEF BridgeIsInTime, Reserve, Limit, Round
      <3>2. CASE p # Bridge
        <4>1. poller'[Bridge] = poller[Bridge] /\ missed' = missed BY <1>3, <1>4, <3>2
        <4>2. job.stampAge \in Nat /\ poller[Bridge].left \in Nat BY TypesHold
        <4>3. ASSUME missed <= Lost PROVE Reserve(missed) \in Nat /\ Limit \in Nat
          BY <1>5, <4>3, ReserveIs
        <4>4. BridgeIsInTime BY <2>8, <4>1
        <4>5. (job.status = "running" /\ missed <= Lost) =>
                /\ poller[Bridge].pc \in {"idle", "stamping"} =>
                      0 + poller[Bridge].left + Reserve(missed) <= Limit
                /\ poller[Bridge].pc = "waiting" =>
                      0 + poller[Bridge].left + Delay + Reserve(missed) <= Limit
          BY <4>2, <4>3, <4>4 DEF BridgeIsInTime
        <4> QED BY <2>5, <4>1, <4>5 DEF BridgeIsInTime, Reserve, Limit, Round
      <3> QED BY <3>1, <3>2
    <2> QED BY <2>6, <2>7, <2>8
  <1> QED BY <1>6, <1>7

-----------------------------------------------------------------------------
(* The sweep.  It leaves the stamp alone, and takes the second look that   *)
(* the property is about.                                                  *)
LEMMA SweepInv == ASSUME IInv, NEW s \in Sweepers, SweepSteps(s) PROVE IInv'
  <1> USE DEF IInv
  <1>1. UNCHANGED <<poller, basis, missed>>
    BY DEF SweepSteps, SweepList, SweepReread, SweepKill, SweepMark, history
  <1>2. /\ job'.bound = job.bound /\ job'.stampAge = job.stampAge
        /\ job'.status = "running" => job.status = "running"
        /\ job' \in Records /\ worker' \in {"alive", "dead"}
        /\ sweeper' \in [Sweepers -> {"idle", "listed", "killing", "marking"}]
    <2> USE TypesSplit, BoundsAreTimes
    <2>1. CASE SweepList(s) BY <2>1 DEF SweepList
    <2>2. CASE SweepReread(s) BY <2>2 DEF SweepReread
    <2>3. CASE SweepKill(s) BY <2>3 DEF SweepKill
    <2>4. CASE SweepMark(s)
      <3>1. job' = Touch(job, "interrupted") \/ job' = job BY <2>4 DEF SweepMark, Touch
      <3>2. job \in Records /\ 0 \in Bounds /\ "interrupted" \in Statuses
        BY DEF Bounds, Statuses
      <3>3. /\ job' \in Records /\ job'.bound = job.bound /\ job'.stampAge = job.stampAge
            /\ job'.status = "running" => job.status = "running"
        BY <3>1, <3>2, RecordsAre DEF AgedAlike
      <3> QED BY <2>4, <3>3 DEF SweepMark
    <2> QED BY <2>1, <2>2, <2>3, <2>4 DEF SweepSteps
  <1>3. TypeOK'
    BY <1>1, <1>2, TypesSplit DEF TypeOK, Bounds, Places, Records, Touched, Longest
  <1>4. NeverLessThanRead' BY <1>1, <1>2 DEF NeverLessThanRead
  <1>5. (poller[Bridge].pc # "gone" => BridgeIsInTime)'
    BY <1>1, <1>2 DEF BridgeIsInTime, Reserve, Limit, Round
  <1> QED BY <1>3, <1>4, <1>5

LEMMA SweepKillsForACause ==
    ASSUME IInv, NEW s \in Sweepers, SweepSteps(s) PROVE KillHasACause
  <1> SUFFICES ASSUME NEW r \in Sweepers, sweeper[r] = "listed", sweeper'[r] = "killing"
               PROVE  poller[Bridge].pc = "gone" \/ OutOfTouch \/ Undercut
    BY DEF KillHasACause
  <1>1. sweeper \in [Sweepers -> {"idle", "listed", "killing", "marking"}]
    BY TypesSplit DEF IInv
  <1>2. s = r
    BY <1>1 DEF SweepSteps, SweepList, SweepReread, SweepKill, SweepMark
  <1>3. SweepReread(s)
    BY <1>1, <1>2 DEF SweepSteps, SweepList, SweepKill, SweepMark
  <1>4. Active /\ Stale(job) BY <1>1, <1>2, <1>3 DEF SweepReread
  <1> QED BY <1>4, StaleIsUndercut DEF Active

(* The worker.                                                             *)
LEMMA WorkerInv == ASSUME IInv, Heartbeat \/ Finish \/ Crash PROVE IInv'
  <1> USE BoundsAreTimes DEF IInv
  <1>1. /\ UNCHANGED <<poller, sweeper, basis, missed>> /\ worker' \in {"alive", "dead"}
        /\ job' \in Records /\ job'.bound = job.bound /\ job'.stampAge = job.stampAge
        /\ job'.status = job.status \/ job'.status = "finished"
    <2>1. worker \in {"alive", "dead"} /\ job \in Records BY TypesSplit
    <2> USE DEF history
    <2>2. 0 \in Bounds /\ "finished" \in Statuses BY DEF Bounds, Statuses
    <2>3. CASE Heartbeat
      <3>1. job' = Beaten(job) BY <2>3 DEF Heartbeat, Beaten
      <3> QED BY <2>1, <2>3, <2>2, <3>1, RecordsAre DEF Heartbeat, AgedAlike
    <2>4. CASE Finish
      <3>1. job' = Touch(job, "finished") BY <2>4 DEF Finish, Touch
      <3> QED BY <2>1, <2>4, <2>2, <3>1, RecordsAre DEF Finish, AgedAlike
    <2>5. CASE Crash BY <2>1, <2>5 DEF Crash
    <2> QED BY <2>3, <2>4, <2>5
  <1>2. TypeOK'
    BY <1>1, TypesSplit DEF TypeOK, Bounds, Places, Records, Touched, Longest
  <1>3. NeverLessThanRead' BY <1>1 DEF NeverLessThanRead
  <1>4. (poller[Bridge].pc # "gone" => BridgeIsInTime)'
    BY <1>1 DEF BridgeIsInTime, Reserve, Limit, Round
  <1> QED BY <1>2, <1>3, <1>4

-----------------------------------------------------------------------------
(* A tick takes one off what the Bridge has left for each one it adds to   *)
(* the age of the stamp.                                                   *)
LEMMA LaterIs ==
    ASSUME NEW horizon \in Nat, NEW age \in 0..horizon
    PROVE  Later(age, horizon) \in 0..horizon /\ Later(age, horizon) <= age + 1
  BY DEF Later

LEMMA TickInv == ASSUME IInv, Tick PROVE IInv'
  <1> USE BoundsAreTimes DEF IInv
  <1>1. /\ UNCHANGED <<worker, sweeper, basis, missed>>
        /\ poller[Bridge].pc \in {"idle", "stamping", "waiting"} => poller[Bridge].left > 0
    BY DEF Tick, history
  <1>2. job \in Records /\ poller \in [Pollers -> Places] BY TypesSplit
  <1>3. /\ job.stampAge \in 0..Horizon /\ job.touchAge \in Touched
        /\ Horizon \in Nat /\ Grace + 1 \in Nat
    BY <1>2 DEF Records, Horizon, Multiplier
  <1>4. /\ Later(job.stampAge, Horizon) \in 0..Horizon
        /\ Later(job.touchAge, Grace + 1) \in Touched
        /\ Later(job.stampAge, Horizon) <= job.stampAge + 1
    BY <1>3, LaterIs DEF Touched
  <1>5. /\ job' \in Records /\ job'.bound = job.bound /\ job'.status = job.status
        /\ job'.stampAge = Later(job.stampAge, Horizon)
    <2>1. job' = [job EXCEPT !.stampAge = Later(job.stampAge, Horizon),
                             !.touchAge = Later(job.touchAge, Grace + 1)]
      BY DEF Tick
    <2> QED BY <1>2, <1>4, <2>1 DEF Records
  <1>6. ASSUME NEW p \in Pollers
        PROVE  /\ poller'[p] \in Places
               /\ poller'[p].pc = poller[p].pc
               /\ poller'[p].left = IF poller[p].left > 0 THEN poller[p].left - 1 ELSE 0
    <2>1. poller'[p] = [poller[p] EXCEPT !.left =
                           IF poller[p].left > 0 THEN poller[p].left - 1 ELSE 0]
      BY <1>6 DEF Tick
    <2>2. poller[p] \in Places /\ poller[p].left \in 0..Longest BY <1>2, <1>6 DEF Places
    <2>3. (IF poller[p].left > 0 THEN poller[p].left - 1 ELSE 0) \in 0..Longest
      BY <2>2, LongestIsLongest
    <2> QED BY <2>1, <2>2, <2>3 DEF Places
  <1>7. poller' \in [Pollers -> Places]
    <2>1. poller' = [p \in Pollers |-> poller'[p]] BY DEF Tick
    <2> QED BY <1>6, <2>1
  <1>8. TypeOK'
    BY <1>1, <1>5, <1>7, TypesSplit DEF TypeOK, Bounds, Places, Records, Touched, Longest
  <1>9. NeverLessThanRead' BY <1>1, <1>5 DEF NeverLessThanRead
  <1>10. ASSUME poller'[Bridge].pc # "gone" PROVE BridgeIsInTime'
    <2>1. /\ poller[Bridge].pc \in {"idle", "stamping", "waiting"}
          /\ poller[Bridge].left \in Nat /\ job.stampAge \in Nat
          /\ missed \in Nat
      BY <1>6, <1>10, TypesHold
    <2>2. poller[Bridge].left > 0 /\ poller'[Bridge].left = poller[Bridge].left - 1
      BY <1>1, <1>6, <2>1
    <2>3. job'.stampAge \in Nat /\ job'.stampAge <= job.stampAge + 1 BY <1>4, <1>5
    <2>4. poller'[Bridge].left \in Nat BY <2>1, <2>2
    <2>5. job'.stampAge + poller'[Bridge].left <= job.stampAge + poller[Bridge].left
      BY <2>1, <2>2, <2>3
    <2>6. BridgeIsInTime BY <2>1
    <2>7. ASSUME job'.status = "running", missed' <= Lost
          PROVE  /\ poller'[Bridge].pc \in {"idle", "stamping"} =>
                       job'.stampAge + poller'[Bridge].left + Reserve(missed) <= Limit
                 /\ poller'[Bridge].pc = "waiting" =>
                       job'.stampAge + poller'[Bridge].left + Delay + Reserve(missed) <= Limit
      <3>1. missed <= Lost /\ job.status = "running" BY <1>1, <1>5, <2>7
      <3>2. Reserve(missed) \in Nat /\ Limit \in Nat
        <4>1. missed \in 0..Lost BY <2>1, <3>1
        <4> QED BY <4>1, ReserveIs
      <3>3. CASE poller[Bridge].pc = "waiting"
        <4>1. job.stampAge + poller[Bridge].left + Delay + Reserve(missed) <= Limit
          BY <2>6, <3>1, <3>3 DEF BridgeIsInTime
        <4> QED BY <1>6, <2>1, <2>3, <2>4, <2>5, <3>2, <3>3, <4>1
      <3>4. CASE poller[Bridge].pc # "waiting"
        <4>1. job.stampAge + poller[Bridge].left + Reserve(missed) <= Limit
          BY <2>1, <2>6, <3>1, <3>4 DEF BridgeIsInTime
        <4> QED BY <1>6, <2>1, <2>3, <2>4, <2>5, <3>2, <3>4, <4>1
      <3> QED BY <3>3, <3>4
    <2> QED BY <1>1, <2>7 DEF BridgeIsInTime, Reserve, Limit, Round
  <1> QED BY <1>8, <1>9, <1>10

-----------------------------------------------------------------------------
LEMMA StepInv == Punctual /\ IInv /\ [Next]_vars => IInv'
  <1> SUFFICES ASSUME Punctual, IInv, [Next]_vars PROVE IInv' OBVIOUS
  <1>1. CASE UNCHANGED vars
    BY <1>1 DEF IInv, vars, history, TypeOK, NeverLessThanRead,
                BridgeIsInTime, Reserve, Limit, Round
  <1>2. ASSUME NEW p \in Pollers,
               \/ PollRead(p) \/ Stamp(p) \/ StampFails(p)
               \/ PollReturn(p) \/ PollerLeaves(p)
        PROVE  IInv'
    BY <1>2, PollReadInv, StampInv, StampFailsInv, PollReturnInv, PollerLeavesInv
  <1>3. ASSUME NEW s \in Sweepers, SweepSteps(s) PROVE IInv' BY <1>3, SweepInv
  <1>4. CASE Heartbeat \/ Finish \/ Crash BY <1>4, WorkerInv
  <1>5. CASE Tick BY <1>5, TickInv
  <1> QED BY <1>1, <1>2, <1>3, <1>4, <1>5 DEF Next

LEMMA StepKillsForACause == IInv /\ [Next]_vars => KillHasACause
  <1> SUFFICES ASSUME IInv, [Next]_vars PROVE KillHasACause OBVIOUS
  <1>1. CASE \E s \in Sweepers : SweepSteps(s) BY <1>1, SweepKillsForACause
  <1>2. CASE UNCHANGED sweeper BY <1>2 DEF KillHasACause
  <1>3. ASSUME NEW p \in Pollers,
               \/ PollRead(p) \/ Stamp(p) \/ StampFails(p)
               \/ PollReturn(p) \/ PollerLeaves(p)
        PROVE  UNCHANGED sweeper
    BY <1>3 DEF PollRead, Stamp, StampFails, PollReturn, PollerLeaves
  <1>4. Heartbeat \/ Finish \/ Crash \/ Tick \/ UNCHANGED vars => UNCHANGED sweeper
    BY DEF Heartbeat, Finish, Crash, Tick, vars
  <1> QED BY <1>1, <1>2, <1>3, <1>4 DEF Next

(* Every reachable state of a Job satisfies the invariant: the accounts of *)
(* stamp and poll that keep the stale sweep away.                          *)
THEOREM Inductive == ASSUME Punctual PROVE Spec => []IInv
  <1>1. Init => IInv BY InitInv
  <1>2. IInv /\ [Next]_vars => IInv' BY StepInv
  <1> QED BY <1>1, <1>2, PTL DEF Spec

(* No sweep goes on to kill a Job whose Bridge still polls within its      *)
(* threshold and has not lost more stamps than it allows for, unless the   *)
(* stamp that stands is of a poll that read a bound below the Bridge's and *)
(* stored one: whatever bounds operators poll with, whenever they read and *)
(* stamp, whatever stamps fail, however many hooks look and whatever else  *)
(* happens to the worker (`reap_stale_supervision`, `stamp_supervision`).  *)
THEOREM SupervisedSpared == ASSUME Punctual PROVE Spec => SupervisedIsNotKilled
  <1>1. IInv /\ [Next]_vars => [KillHasACause]_vars BY StepKillsForACause
  <1>2. Spec => [][KillHasACause]_vars BY <1>1, Inductive, PTL DEF Spec
  <1> QED BY <1>2, PTL DEF SupervisedIsNotKilled, KillHasACause

-----------------------------------------------------------------------------
(* TreeKill: the types, with the groups a tree starts with taken as they   *)
(* are.                                                                    *)
States == {"unused", "alive", "dying", "zombie", "dead"}
Groups == Pids \cup {GroupAtStart[p] : p \in DOMAIN Tree}
Processes == [state : States, kin : BOOLEAN, parent : Pids \cup {Adopter},
              group : Groups, stubborn : BOOLEAN]
Phases == {"snapshot", "term", "terming", "grace", "kill", "killing", "confirm", "done"}

Types == /\ proc \in [Pids -> Processes]
         /\ pc \in Phases
         /\ targets \subseteq Pids /\ snapshot \subseteq Pids /\ survivors \subseteq Pids

-----------------------------------------------------------------------------
(* What the sweep is after was in the process table when it looked, so a   *)
(* fork never gets one of its pids.                                        *)
SeenOnce == \A p \in snapshot \cup targets : proc[p].state # "unused"

(* From look to look the targets are those of the first look, or contain   *)
(* those of them that live; at the end, an empty result is about all.      *)
TargetsCover ==
    /\ pc \in {"term", "terming", "grace"} => targets = snapshot
    /\ pc \in {"kill", "killing", "confirm"} => AliveTargets(snapshot) \subseteq targets
    /\ TargetsAreGone

GoneInv == Types /\ SeenOnce /\ TargetsCover

(* A stranger leads its own group, and nobody of the worker's tree that is *)
(* listed is in it.                                                        *)
StrangersApart ==
    \A s \in Pids : ~proc[s].kin =>
        /\ proc[s].group = s /\ proc[s].state # "unused"
        /\ \A q \in Pids : Listed(q) /\ proc[q].kin => proc[q].group # s

(* The groups about to be signalled have no stranger in them.              *)
GroupsAreKin ==
    /\ \A g \in groups, s \in Pids : ~proc[s].kin => proc[s].group # g
    /\ pc \notin {"terming", "killing"} => groups = {}

StrangerInv == GoneInv /\ StrangersApart /\ GroupsAreKin /\ NoStrangerHit

-----------------------------------------------------------------------------
(* What the walk finds.                                                    *)
LEMMA WalkFindsRoots ==
    ASSUME NEW S \in SUBSET Pids
    PROVE  AliveTargets(S) \subseteq Descendants(AliveTargets(S))
  BY DEF Descendants, AliveTargets, SameProcess, Alive, Listed

LEMMA WalkFindsListed ==
    ASSUME NEW S \in SUBSET Pids
    PROVE  /\ Descendants(S) \subseteq Pids
           /\ \A p \in Descendants(S) : Listed(p)
  <1> DEFINE T == {p \in Pids : Listed(p)}
  <1>1. T \in SUBSET Pids /\ {p \in S : Listed(p)} \subseteq T /\ Children(T) \subseteq T
    BY DEF Children
  <1>2. \A p \in Descendants(S) : p \in T BY <1>1 DEF Descendants
  <1> QED BY <1>2

-----------------------------------------------------------------------------
(* The steps of the process table.                                         *)
TableStep == \/ \E p \in Pids : Exit(p) \/ Reap(p) \/ Reuse(p)
             \/ \E p, c \in Pids, session \in BOOLEAN : Fork(p, c, session)
             \/ SignalGroup

(* No pid becomes unused, and one that does not name a living process of   *)
(* the tree never does again, unless it was unused.                        *)
Onward ==
    \A p \in Pids : proc[p].state # "unused" =>
        /\ proc'[p].state # "unused"
        /\ Alive(p)' /\ proc'[p].kin => Alive(p) /\ proc[p].kin

LEMMA ForkIs ==
    ASSUME Types, NEW p \in Pids, NEW c \in Pids, NEW session \in BOOLEAN, Fork(p, c, session)
    PROVE  /\ proc' \in [Pids -> Processes] /\ \A q \in Pids \ {c} : proc'[q] = proc[q]
           /\ proc[c].state = "unused" /\ proc'[c].state = "alive" /\ proc'[c].kin
           /\ Alive(p) /\ proc[p].kin /\ proc'[c].group \in {c, proc[p].group}
  <1>1. proc[p].group \in Groups /\ c \in Groups BY DEF Types, Processes, Groups
  <1>2. PICK r : \E stubborn \in BOOLEAN :
           r = [state |-> "alive", kin |-> TRUE, parent |-> p,
                group |-> IF session THEN c ELSE proc[p].group, stubborn |-> stubborn]
           /\ proc' = [proc EXCEPT ![c] = r]
    BY DEF Fork
  <1>3. /\ r \in Processes /\ r.state = "alive" /\ r.kin /\ r.group \in {c, proc[p].group}
    BY <1>1, <1>2 DEF Processes, States
  <1>4. proc \in [Pids -> Processes] BY DEF Types
  <1>5. proc'[c] = r /\ \A q \in Pids \ {c} : proc'[q] = proc[q] BY <1>2, <1>4
  <1>6. proc' \in [Pids -> Processes] BY <1>2, <1>3, <1>4
  <1>7. proc[c].state = "unused" /\ Alive(p) /\ proc[p].kin BY DEF Fork
  <1> QED BY <1>3, <1>5, <1>6, <1>7

LEMMA ExitIs ==
    ASSUME Types, NEW p \in Pids, Exit(p)
    PROVE  /\ proc' \in [Pids -> Processes]
           /\ \A q \in Pids : /\ proc'[q].state = IF q = p THEN "zombie" ELSE proc[q].state
                              /\ proc'[q].kin = proc[q].kin /\ proc'[q].group = proc[q].group
           /\ Alive(p)
  <1> SUFFICES ASSUME NEW q \in Pids
               PROVE  /\ proc'[q] \in Processes
                      /\ proc'[q].state = IF q = p THEN "zombie" ELSE proc[q].state
                      /\ proc'[q].kin = proc[q].kin /\ proc'[q].group = proc[q].group
    BY DEF Exit
  <1>1. proc[q] \in Processes /\ proc[p] \in Processes BY DEF Types
  <1>2. CASE q = p BY <1>1, <1>2 DEF Exit, Processes, States
  <1>3. CASE q # p /\ proc[q].parent = p BY <1>1, <1>3 DEF Exit, Processes, States
  <1>4. CASE q # p /\ proc[q].parent # p BY <1>1, <1>4 DEF Exit
  <1> QED BY <1>2, <1>3, <1>4

LEMMA ReapIs ==
    ASSUME Types, NEW p \in Pids, Reap(p)
    PROVE  /\ proc' \in [Pids -> Processes]
           /\ \A q \in Pids : /\ proc'[q].state = IF q = p THEN "dead" ELSE proc[q].state
                              /\ proc'[q].kin = proc[q].kin /\ proc'[q].group = proc[q].group
           /\ proc[p].state = "zombie"
  <1>1. PICK r : r = [proc[p] EXCEPT !.state = "dead"] OBVIOUS
  <1>2. /\ r \in Processes /\ r.state = "dead"
        /\ r.kin = proc[p].kin /\ r.group = proc[p].group
    BY <1>1 DEF Types, Processes, States
  <1>3. proc' = [proc EXCEPT ![p] = r] BY <1>1 DEF Reap
  <1>4. proc[p].state = "zombie" BY DEF Reap
  <1>5. proc \in [Pids -> Processes] BY DEF Types
  <1> QED BY <1>2, <1>3, <1>4, <1>5

LEMMA ReuseIs ==
    ASSUME Types, NEW p \in Pids, Reuse(p)
    PROVE  /\ proc' \in [Pids -> Processes] /\ \A q \in Pids \ {p} : proc'[q] = proc[q]
           /\ proc'[p].state = "alive" /\ ~proc'[p].kin /\ proc'[p].group = p
           /\ proc[p].state = "dead"
  <1>1. PICK r : r = [state |-> "alive", kin |-> FALSE, parent |-> Adopter,
                      group |-> p, stubborn |-> TRUE]
    OBVIOUS
  <1>2. r \in Processes /\ r.state = "alive" /\ ~r.kin /\ r.group = p
    BY <1>1 DEF Processes, States, Groups
  <1>3. proc' = [proc EXCEPT ![p] = r] BY <1>1 DEF Reuse
  <1>4. proc[p].state = "dead" BY DEF Reuse
  <1>5. proc \in [Pids -> Processes] BY DEF Types
  <1>6. proc'[p] = r /\ \A q \in Pids \ {p} : proc'[q] = proc[q] BY <1>3, <1>5
  <1>7. proc' \in [Pids -> Processes] BY <1>2, <1>3, <1>5
  <1> QED BY <1>2, <1>4, <1>6, <1>7

LEMMA SignalIs ==
    ASSUME Types, SignalGroup
    PROVE  /\ proc' \in [Pids -> Processes]
           /\ \A q \in Pids :
                 /\ proc'[q].state = proc[q].state \/ (Alive(q) /\ proc'[q].state = "dying")
                 /\ proc'[q].kin = proc[q].kin /\ proc'[q].group = proc[q].group
           /\ \E g \in groups : /\ struck' = struck \cup {p \in Hit(g) : ~proc[p].kin}
                                /\ groups' = groups \ {g}
  <1>1. PICK g \in groups :
          /\ proc' = [p \in Pids |-> IF p \in Hit(g) /\ Lethal(p)
                                     THEN [proc[p] EXCEPT !.state = "dying"] ELSE proc[p]]
          /\ struck' = struck \cup {p \in Hit(g) : ~proc[p].kin}
          /\ groups' = groups \ {g}
    BY DEF SignalGroup
  <1>2. ASSUME NEW q \in Pids
        PROVE  /\ proc'[q] \in Processes
               /\ proc'[q].state = proc[q].state \/ (Alive(q) /\ proc'[q].state = "dying")
               /\ proc'[q].kin = proc[q].kin /\ proc'[q].group = proc[q].group
    <2>1. proc[q] \in Processes BY DEF Types
    <2>2. CASE q \in Hit(g) /\ Lethal(q) BY <1>1, <2>1, <2>2 DEF Processes, States, Hit
    <2>3. CASE ~(q \in Hit(g) /\ Lethal(q)) BY <1>1, <2>1, <2>3
    <2> QED BY <2>2, <2>3
  <1> QED BY <1>1, <1>2

LEMMA TableOnward ==
    ASSUME Types, TableStep
    PROVE  proc' \in [Pids -> Processes] /\ Onward
  <1>1. ASSUME NEW p \in Pids, Exit(p) \/ Reap(p) \/ Reuse(p)
        PROVE  proc' \in [Pids -> Processes] /\ Onward
    <2>1. CASE Exit(p) BY <2>1, ExitIs DEF Onward, Alive
    <2>2. CASE Reap(p) BY <2>2, ReapIs DEF Onward, Alive
    <2>3. CASE Reuse(p) BY <2>3, ReuseIs DEF Onward, Alive
    <2> QED BY <1>1, <2>1, <2>2, <2>3
  <1>2. ASSUME NEW p \in Pids, NEW c \in Pids, NEW session \in BOOLEAN, Fork(p, c, session)
        PROVE  proc' \in [Pids -> Processes] /\ Onward
    BY <1>2, ForkIs DEF Onward, Alive
  <1>3. CASE SignalGroup BY <1>3, SignalIs DEF Onward, Alive
  <1> QED BY <1>1, <1>2, <1>3 DEF TableStep

(* Among pids that were in the table, the living targets only get fewer.   *)
LEMMA FewerTargets ==
    ASSUME Onward, NEW S \in SUBSET Pids, \A p \in S : proc[p].state # "unused"
    PROVE  AliveTargets(S)' \subseteq AliveTargets(S)
  BY DEF Onward, AliveTargets, SameProcess, Alive, Listed

-----------------------------------------------------------------------------
(* An empty result.                                                        *)
LEMMA GoneInit == TreeInit => GoneInv
  <1> SUFFICES ASSUME TreeInit PROVE GoneInv OBVIOUS
  <1>1. \A p \in DOMAIN Tree : Tree[p] \in Pids \cup {Adopter} BY TreeAssumption
  <1>2. PICK stubborn \in SUBSET DOMAIN Tree :
          proc = [p \in Pids |->
             IF p \in DOMAIN Tree
             THEN [state |-> "alive", kin |-> TRUE, parent |-> Tree[p],
                   group |-> GroupAtStart[p], stubborn |-> p \in stubborn]
             ELSE [state |-> "unused", kin |-> TRUE, parent |-> Adopter,
                   group |-> p, stubborn |-> FALSE]]
    BY DEF TreeInit
  <1>3. ASSUME NEW p \in Pids PROVE proc[p] \in Processes
    <2>1. CASE p \in DOMAIN Tree
      <3>1. GroupAtStart[p] \in Groups /\ Tree[p] \in Pids \cup {Adopter}
        BY <1>1, <2>1 DEF Groups
      <3>2. (p \in stubborn) \in BOOLEAN OBVIOUS
      <3> QED BY <1>2, <2>1, <3>1, <3>2 DEF Processes, States
    <2>2. CASE p \notin DOMAIN Tree BY <1>2, <2>2 DEF Processes, States, Groups
    <2> QED BY <2>1, <2>2
  <1>4. Types BY <1>2, <1>3 DEF TreeInit, Types, Phases
  <1>5. SeenOnce /\ TargetsCover BY DEF TreeInit, SeenOnce, TargetsCover, TargetsAreGone
  <1> QED BY <1>4, <1>5 DEF GoneInv

LEMMA GoneByTable ==
    ASSUME GoneInv, TableStep, UNCHANGED <<pc, targets, snapshot, survivors>>
    PROVE  GoneInv'
  <1> USE DEF GoneInv
  <1>1. proc' \in [Pids -> Processes] /\ Onward BY TableOnward
  <1>2. Types' BY <1>1 DEF Types
  <1>3. SeenOnce' BY <1>1 DEF SeenOnce, Onward, Types
  <1>4. /\ AliveTargets(snapshot)' \subseteq AliveTargets(snapshot)
        /\ AliveTargets(snapshot \cup targets)' \subseteq AliveTargets(snapshot \cup targets)
    <2>1. PICK S \in SUBSET Pids : S = snapshot BY DEF Types
    <2>2. PICK U \in SUBSET Pids : U = snapshot \cup targets BY DEF Types
    <2>3. AliveTargets(S)' \subseteq AliveTargets(S) BY <1>1, <2>1, FewerTargets DEF SeenOnce
    <2>4. AliveTargets(U)' \subseteq AliveTargets(U) BY <1>1, <2>2, FewerTargets DEF SeenOnce
    <2> QED BY <2>1, <2>2, <2>3, <2>4
  <1>5. TargetsCover' BY <1>4 DEF TargetsCover, TargetsAreGone
  <1> QED BY <1>2, <1>3, <1>5

LEMMA GoneStep == ASSUME GoneInv, [TreeNext]_treeVars PROVE GoneInv'
  <1> USE DEF GoneInv
  <1>1. ASSUME TableStep, UNCHANGED <<pc, targets, snapshot, survivors>> PROVE GoneInv'
    BY <1>1, GoneByTable
  <1>2. CASE Snapshot
    <2>1. /\ snapshot' = {p \in Descendants({Worker}) : proc[Worker].kin}
          /\ targets' = snapshot' /\ UNCHANGED <<proc, survivors>>
          /\ pc' = IF targets' = {} THEN "done" ELSE "term"
      BY <1>2 DEF Snapshot
    <2>2. Worker \in Pids BY TreeAssumption
    <2>3. snapshot' \subseteq Pids /\ \A p \in snapshot' : Listed(p)
      BY <2>1, <2>2, WalkFindsListed
    <2>4. Types' /\ SeenOnce' BY <2>1, <2>3 DEF Types, SeenOnce, Listed, Alive, Phases
    <2>5. TargetsCover'
      BY <2>1 DEF TargetsCover, TargetsAreGone, AliveTargets, SameProcess
    <2> QED BY <2>4, <2>5
  <1>3. CASE LookUpGroups
    BY <1>3 DEF LookUpGroups, Types, SeenOnce, TargetsCover, TargetsAreGone, AliveTargets,
                SameProcess, Alive, Listed, Phases
  <1>4. CASE Signalled
    BY <1>4 DEF Signalled, Types, SeenOnce, TargetsCover, TargetsAreGone, AliveTargets,
                SameProcess, Alive, Listed, Phases
  <1>5. CASE LookAgain
    <2>1. /\ pc = "grace" /\ targets' = Rescan /\ UNCHANGED <<proc, snapshot, survivors>>
          /\ pc' = IF targets' = {} THEN "done" ELSE "kill"
      BY <1>5 DEF LookAgain
    <2>2. PICK S \in SUBSET Pids : S = AliveTargets(snapshot)
      BY DEF Types, AliveTargets, SameProcess
    <2>3. Descendants(S) \subseteq Pids /\ \A p \in Descendants(S) : Listed(p)
      BY WalkFindsListed
    <2>4. S \subseteq Descendants(S) BY <2>2, WalkFindsRoots DEF Types
    <2>5. Rescan = {p \in Descendants(S) : proc[p].kin} BY <2>2 DEF Rescan
    <2>6. S \subseteq Rescan
      BY <2>2, <2>4, <2>5 DEF AliveTargets, SameProcess
    <2>7. Types' /\ SeenOnce' BY <2>1, <2>3, <2>5 DEF Types, SeenOnce, Listed, Alive, Phases
    <2>8. AliveTargets(snapshot)' = S BY <2>1, <2>2 DEF AliveTargets, SameProcess, Alive, Listed
    <2>9. TargetsCover'
      <3>1. CASE targets' = {}
        <4>1. S = {} /\ (snapshot \cup targets)' = snapshot BY <2>1, <2>6, <3>1
        <4> QED BY <2>1, <2>8, <3>1, <4>1 DEF TargetsCover, TargetsAreGone
      <3>2. CASE targets' # {} BY <2>1, <2>6, <2>8, <3>2 DEF TargetsCover, TargetsAreGone
      <3> QED BY <3>1, <3>2
    <2> QED BY <2>7, <2>9
  <1>6. CASE Confirm
    <2>1. /\ pc = "confirm" /\ survivors' = AliveTargets(targets) /\ pc' = "done"
          /\ UNCHANGED <<proc, targets, snapshot>>
      BY <1>6 DEF Confirm
    <2>2. AliveTargets(snapshot) \subseteq targets BY <2>1 DEF TargetsCover
    <2>3. AliveTargets(snapshot \cup targets) \subseteq AliveTargets(targets)
      BY <2>2 DEF AliveTargets, SameProcess
    <2>4. AliveTargets(snapshot \cup targets)' = AliveTargets(snapshot \cup targets)
      BY <2>1 DEF AliveTargets, SameProcess, Alive, Listed
    <2>5. TargetsCover' BY <2>1, <2>3, <2>4 DEF TargetsCover, TargetsAreGone
    <2>6. Types' /\ SeenOnce'
      BY <2>1 DEF Types, SeenOnce, Phases, AliveTargets, SameProcess
    <2> QED BY <2>5, <2>6
  <1>7. CASE UNCHANGED treeVars
    BY <1>7 DEF treeVars, Types, SeenOnce, TargetsCover, TargetsAreGone, AliveTargets,
                SameProcess, Alive, Listed
  <1>8. ASSUME \/ \E p \in Pids : Exit(p) \/ Reap(p) \/ Reuse(p)
               \/ \E p, c \in Pids, session \in BOOLEAN : Fork(p, c, session)
        PROVE  UNCHANGED <<pc, targets, snapshot, survivors>>
    BY <1>8 DEF Exit, Reap, Reuse, Fork, sweep
  <1>9. SignalGroup => UNCHANGED <<pc, targets, snapshot, survivors>> BY DEF SignalGroup
  <1> QED BY <1>1, <1>2, <1>3, <1>4, <1>5, <1>6, <1>7, <1>8, <1>9
          DEF TreeNext, KillSteps, TableStep

(* A sweep that reports no survivor has outlived everything it saw at its  *)
(* first and its last look, whatever forks, exits, is adopted or gets a    *)
(* used pid meanwhile (`terminate_tree`, `_rescan`).                       *)
THEOREM EmptyMeansGone == TreeSpec => []TargetsAreGone
  <1>1. GoneInv /\ [TreeNext]_treeVars => GoneInv' BY GoneStep
  <1>2. GoneInv => TargetsAreGone BY DEF GoneInv, TargetsCover
  <1> QED BY GoneInit, <1>1, <1>2, PTL DEF TreeSpec

-----------------------------------------------------------------------------
(* No stranger is hit.                                                     *)
LEMMA StrangerInit == TreeInit => StrangerInv
  <1> SUFFICES ASSUME TreeInit PROVE StrangerInv OBVIOUS
  <1>1. ASSUME NEW p \in Pids PROVE proc[p].kin
    <2>1. CASE p \in DOMAIN Tree BY <2>1 DEF TreeInit
    <2>2. CASE p \notin DOMAIN Tree BY <2>2 DEF TreeInit
    <2> QED BY <2>1, <2>2
  <1>2. StrangersApart /\ GroupsAreKin BY <1>1 DEF TreeInit, StrangersApart, GroupsAreKin
  <1> QED BY <1>2, GoneInit DEF TreeInit, StrangerInv, NoStrangerHit

LEMMA ApartStays ==
    ASSUME StrangersApart,
           \A q \in Pids : /\ proc'[q].kin = proc[q].kin /\ proc'[q].group = proc[q].group
                           /\ Listed(q)' => Listed(q)
                           /\ proc[q].state # "unused" => proc'[q].state # "unused"
    PROVE  StrangersApart'
  <1> SUFFICES ASSUME NEW s \in Pids, ~proc'[s].kin
               PROVE  /\ proc'[s].group = s /\ proc'[s].state # "unused"
                      /\ \A q \in Pids : Listed(q)' /\ proc'[q].kin => proc'[q].group # s
    BY DEF StrangersApart
  <1>1. ~proc[s].kin OBVIOUS
  <1>2. proc'[s].group = s /\ proc'[s].state # "unused" BY <1>1 DEF StrangersApart
  <1>3. ASSUME NEW q \in Pids, Listed(q)', proc'[q].kin PROVE proc'[q].group # s
    <2>1. Listed(q) /\ proc[q].kin BY <1>3
    <2> QED BY <1>1, <2>1 DEF StrangersApart
  <1> QED BY <1>2, <1>3

LEMMA GroupsStay ==
    ASSUME GroupsAreKin, groups' \subseteq groups, pc' = pc,
           \A q \in Pids : ~proc'[q].kin => ~proc[q].kin /\ proc'[q].group = proc[q].group
    PROVE  GroupsAreKin'
  BY DEF GroupsAreKin

LEMMA StrangerStep == ASSUME ~LateReuse, StrangerInv, [TreeNext]_treeVars PROVE StrangerInv'
  <1> DEFINE apart == StrangersApart' /\ GroupsAreKin' /\ NoStrangerHit'
  <1> USE DEF StrangerInv
  <1>1. GoneInv' BY GoneStep
  <1>2. Types BY DEF GoneInv
  <1>3. ASSUME NEW p \in Pids, Exit(p) PROVE apart
    <2>1. StrangersApart' BY <1>2, <1>3, ExitIs, ApartStays DEF Listed, Alive
    <2>2. UNCHANGED <<groups, pc, struck>> BY <1>3 DEF Exit, sweep
    <2> QED BY <1>2, <1>3, <2>1, <2>2, ExitIs, GroupsStay DEF NoStrangerHit
  <1>4. ASSUME NEW p \in Pids, Reap(p) PROVE apart
    <2>1. StrangersApart' BY <1>2, <1>4, ReapIs, ApartStays DEF Listed, Alive
    <2>2. UNCHANGED <<groups, pc, struck>> BY <1>4 DEF Reap, sweep
    <2> QED BY <1>2, <1>4, <2>1, <2>2, ReapIs, GroupsStay DEF NoStrangerHit
  <1>5. ASSUME NEW p \in Pids, Reuse(p) PROVE apart
    <2>1. /\ UNCHANGED <<groups, pc, struck>> /\ groups = {}
          /\ \A q \in Pids : Listed(q) => proc[q].group # p
      BY <1>5 DEF Reuse, sweep
    <2>2. StrangersApart'
      BY <1>2, <1>5, <2>1, ReuseIs DEF StrangersApart, Listed, Alive
    <2> QED BY <2>1, <2>2 DEF GroupsAreKin, NoStrangerHit
  <1>6. ASSUME NEW p \in Pids, NEW c \in Pids, NEW session \in BOOLEAN, Fork(p, c, session)
        PROVE  apart
    <2>1. UNCHANGED <<groups, pc, struck>> BY <1>6 DEF Fork, sweep
    <2>2. /\ \A q \in Pids \ {c} : proc'[q] = proc[q]
          /\ proc[c].state = "unused" /\ proc'[c].kin
          /\ Listed(p) /\ proc[p].kin /\ proc'[c].group \in {c, proc[p].group}
      BY <1>2, <1>6, ForkIs DEF Listed
    <2>3. \A q \in Pids : ~proc'[q].kin => q # c /\ ~proc[q].kin /\ proc'[q].group = proc[q].group
      BY <2>2
    <2>4. StrangersApart' BY <2>2, <2>3 DEF StrangersApart, Listed, Alive
    <2> QED BY <2>1, <2>3, <2>4, GroupsStay DEF NoStrangerHit
  <1>7. CASE SignalGroup
    <2>1. PICK g \in groups : /\ struck' = struck \cup {p \in Hit(g) : ~proc[p].kin}
                              /\ groups' = groups \ {g}
      BY <1>2, <1>7, SignalIs
    <2>2. {p \in Hit(g) : ~proc[p].kin} = {} BY DEF GroupsAreKin, Hit
    <2>3. StrangersApart' BY <1>2, <1>7, SignalIs, ApartStays DEF Listed, Alive
    <2>4. pc' = pc BY <1>7 DEF SignalGroup
    <2> QED BY <1>1, <1>2, <1>7, <2>1, <2>2, <2>3, <2>4, SignalIs, GroupsStay DEF NoStrangerHit
  <1>8. CASE Snapshot \/ Signalled \/ LookAgain \/ Confirm
    <2>1. groups = {} BY <1>8 DEF GroupsAreKin, Snapshot, Signalled, LookAgain, Confirm
    <2>2. UNCHANGED <<proc, groups, struck>>
      BY <1>8 DEF Snapshot, Signalled, LookAgain, Confirm
    <2> QED BY <1>1, <2>1, <2>2 DEF StrangersApart, GroupsAreKin, NoStrangerHit, Listed, Alive
  <1>9. CASE LookUpGroups
    <2>1. /\ groups' = {proc[p].group : p \in SameProcess(targets)}
          /\ pc' \in {"terming", "killing"} /\ UNCHANGED <<proc, struck>>
      BY <1>9 DEF LookUpGroups
    <2>2. \A p \in SameProcess(targets) : p \in Pids /\ Listed(p) /\ proc[p].kin
      BY <1>2 DEF Types, SameProcess
    <2> QED BY <1>1, <2>1, <2>2 DEF StrangersApart, GroupsAreKin, NoStrangerHit, Listed, Alive
  <1>10. CASE UNCHANGED treeVars
    BY <1>1, <1>10 DEF treeVars, StrangersApart, GroupsAreKin, NoStrangerHit, Listed, Alive
  <1> QED BY <1>1, <1>3, <1>4, <1>5, <1>6, <1>7, <1>8, <1>9, <1>10 DEF TreeNext, KillSteps

(* No stranger is signalled, though pids are used again while the sweep    *)
(* waits, provided that none is between the look at a group and its signal *)
(* (`_signal_processes`, `_identity_holds`).                               *)
THEOREM StrangersSpared == ASSUME ~LateReuse PROVE TreeSpec => []NoStrangerHit
  <1>1. StrangerInv /\ [TreeNext]_treeVars => StrangerInv' BY StrangerStep
  <1>2. StrangerInv => NoStrangerHit BY DEF StrangerInv
  <1> QED BY StrangerInit, <1>1, <1>2, PTL DEF TreeSpec
=============================================================================
