---------------------------- MODULE Turn_proofs ----------------------------
(***************************************************************************)
(* Proofs about one assistant turn: Ladder, its way through the retry      *)
(* ladder, for any number of attempts, any timeouts and any Retry-After;   *)
(* and ToolTurn with Patch, the tool uses it asks for, for any hooks,      *)
(* directories and diffs, with the hunk arithmetic of a patch for files of *)
(* any length.                                                             *)
(***************************************************************************)
EXTENDS Ladder, ToolTurn, FiniteSetTheorems, SequenceTheorems, TLAPS

-----------------------------------------------------------------------------
(* The retry ladder.                                                       *)

(* A turn that was read to its end is on its way out, and never goes back  *)
(* to a request; a retry is only slept for when an attempt is left.        *)
StoppedIsLeaving == stopped => reader \in {"leaving", "joining", "settling", "finished"}
RetriesAreLeft   == reader = "sleeping" => attempt < Attempts

LadderInv == /\ LadderTypeOK /\ StoppedIsLeaving /\ RetriesAreLeft
             /\ WatchdogIsHarmless /\ RetryAfterIsClampedFloor

USE DEF WatchdogIsHarmless, CompleteTurnIsKept, WatchdogStaysInItsAttempt,
        StoppedIsLeaving, RetriesAreLeft, Endings, turn, time, shared

-----------------------------------------------------------------------------
(* The verdict on an attempt is one of three, and a message is always one. *)
LEMMA OutcomeOfMessage ==
    ASSUME held = "message" PROVE Outcome = "message"
  BY DEF Outcome

(* What the backoff may sleep: never more than the cap, never less than a  *)
(* Retry-After within it.                                                  *)
LEMMA BackoffRange ==
    ASSUME NEW n, RetryAfter \in Nat, NEW s \in BackoffSleep(n)
    PROVE  /\ s \in Nat /\ s <= Cap
           /\ s >= Least(RetryAfter, Cap)
  <1>1. PICK jitter \in 0..Least(Base * 2^(n - 1), Cap) :
            s = Least(Greatest(jitter, RetryAfter), Cap)
    BY DEF BackoffSleep
  <1>2. Cap \in Nat /\ jitter \in Nat BY LadderAssumption
  <1> QED BY <1>1, <1>2 DEF Least, Greatest

LEMMA LadderInitInv == LadderInit => LadderInv
  <1> SUFFICES ASSUME LadderInit PROVE LadderInv OBVIOUS
  <1> USE LadderAssumption DEF LadderInit
  <1>1. {done, fired, closed, content, stopped} \subseteq BOOLEAN OBVIOUS
  <1>2. sleep \in 0..Greatest(Cap, MaxRetryAfter) BY DEF Greatest
  <1> QED BY <1>1, <1>2 DEF LadderInv, LadderTypeOK, RetryAfterIsClampedFloor

-----------------------------------------------------------------------------
(* The loop thread.                                                        *)
LEMMA SettleInv == ASSUME LadderInv, Settle PROVE LadderInv'
  <1> USE LadderAssumption
  <1>1. RetryAfter \in Nat BY DEF LadderInv, LadderTypeOK, RetryAfter
  <1>2. ASSUME NEW verdict \in {"message", "permanent", "exhausted"}, Finish(verdict),
               stopped => verdict = "message"
        PROVE  LadderInv'
    BY <1>2 DEF LadderInv, LadderTypeOK, Settle, Finish, RetryAfterIsClampedFloor
  <1>3. CASE Outcome = "message" /\ Finish("message") BY <1>2, <1>3
  <1>4. CASE Outcome = "permanent" /\ Finish("permanent")
    BY <1>2, <1>4, OutcomeOfMessage DEF LadderInv
  <1>5. CASE Outcome = "transient" /\ attempt = Attempts /\ Finish("exhausted")
    BY <1>2, <1>5, OutcomeOfMessage DEF LadderInv
  <1>6. CASE /\ Outcome = "transient" /\ attempt < Attempts
             /\ sleep' \in BackoffSleep(attempt)
             /\ reader' = "sleeping"
             /\ UNCHANGED <<attempt, result, held, after>>
    <2>1. sleep' \in Nat /\ sleep' <= Cap /\ sleep' >= Least(RetryAfter, Cap)
      BY <1>1, <1>6, BackoffRange
    <2>2. RetryAfter' = RetryAfter BY <1>6 DEF Settle, RetryAfter
    <2>3. ~stopped BY <1>6, OutcomeOfMessage DEF LadderInv
    <2>4. LadderTypeOK'
      <3>1. sleep' \in 0..Greatest(Cap, MaxRetryAfter) BY <2>1 DEF Greatest
      <3> QED BY <1>6, <3>1 DEF LadderInv, LadderTypeOK, Settle
    <2>5. RetryAfterIsClampedFloor' BY <2>1, <2>2 DEF RetryAfterIsClampedFloor
    <2> QED BY <1>6, <2>3, <2>4, <2>5 DEF LadderInv, LadderTypeOK, Settle
  <1> QED BY <1>3, <1>4, <1>5, <1>6 DEF Settle

LEMMA LoopStepsInv == ASSUME LadderInv, LoopSteps PROVE LadderInv'
  <1> USE LadderAssumption
  <1>1. CASE Disarm BY <1>1 DEF Disarm, LadderInv, LadderTypeOK, RetryAfterIsClampedFloor
  <1>2. CASE Join BY <1>2 DEF Join, LadderInv, LadderTypeOK, RetryAfterIsClampedFloor
  <1>3. CASE NextAttempt
    <2>1. {done', fired', closed', content', stopped'} \subseteq BOOLEAN
      BY <1>3 DEF NextAttempt, LadderInv, LadderTypeOK
    <2>2. sleep' \in 0..Greatest(Cap, MaxRetryAfter) BY <1>3 DEF NextAttempt, Greatest
    <2>3. LadderTypeOK' BY <1>3, <2>1, <2>2 DEF NextAttempt, LadderInv, LadderTypeOK
    <2> QED BY <1>3, <2>3 DEF NextAttempt, LadderInv, LadderTypeOK, RetryAfterIsClampedFloor
  <1> QED BY <1>1, <1>2, <1>3, SettleInv DEF LoopSteps

(* The watchdog's thread: it moves only while its attempt's loop thread    *)
(* has not passed the join, so it moves nothing that a sleep depends on.   *)
LEMMA WatchStepsInv == ASSUME LadderInv, WatchSteps PROVE LadderInv'
  <1>1. CASE WatchWakes BY <1>1 DEF WatchWakes, LadderInv, LadderTypeOK, RetryAfterIsClampedFloor
  <1>2. CASE WatchLooks BY <1>2 DEF WatchLooks, LadderInv, LadderTypeOK, RetryAfterIsClampedFloor
  <1>3. CASE WatchCloses BY <1>3 DEF WatchCloses, LadderInv, LadderTypeOK, RetryAfterIsClampedFloor
  <1> QED BY <1>1, <1>2, <1>3 DEF WatchSteps

(* What the endpoint sends, and time.                                      *)
LEMMA EndpointStepsInv == ASSUME LadderInv, EndpointSteps PROVE LadderInv'
  <1> USE LadderAssumption DEF LadderInv, LadderTypeOK, RetryAfterIsClampedFloor
  <1>1. CASE Open BY <1>1 DEF Open
  <1>2. CASE RequestFails BY <1>2 DEF RequestFails
  <1>3. CASE Stop BY <1>3 DEF Stop
  <1>4. CASE Break BY <1>4 DEF Break
  <1>5. CASE ErrorEvent BY <1>5 DEF ErrorEvent
  <1>6. ASSUME NEW kind \in {"content", "ping"}, Receive(kind) PROVE LadderInv'
    <2>1. {done', fired', closed', content', stopped'} \subseteq BOOLEAN
      <3>1. content' \in BOOLEAN BY <1>6 DEF Receive
      <3>2. UNCHANGED <<done, fired, closed, stopped>> BY <1>6 DEF Receive
      <3> QED BY <3>1, <3>2
    <2>2. /\ reader = "reading" /\ silence' \in {0, silence} /\ quiet' = 0
          /\ UNCHANGED <<attempt, sleep, result, reader, held, after, watch, fired, stopped>>
      BY <1>6 DEF Receive
    <2>3. LadderTypeOK' BY <2>1, <2>2
    <2> QED BY <2>2, <2>3
  <1> QED BY <1>1, <1>2, <1>3, <1>4, <1>5, <1>6 DEF EndpointSteps

LEMMA TimeInv == ASSUME LadderInv, ReadTimeout \/ Tick PROVE LadderInv'
  <1> USE LadderAssumption DEF LadderInv, LadderTypeOK, RetryAfterIsClampedFloor
  <1>1. CASE ReadTimeout BY <1>1 DEF ReadTimeout
  <1>2. CASE Tick BY <1>2 DEF Tick, Least
  <1> QED BY <1>1, <1>2

LEMMA LadderNextInv == ASSUME LadderInv, [LadderNext]_ladderVars PROVE LadderInv'
  <1>1. CASE UNCHANGED ladderVars
    BY <1>1 DEF ladderVars, LadderInv, LadderTypeOK, RetryAfterIsClampedFloor, RetryAfter
  <1> QED BY <1>1, LoopStepsInv, WatchStepsInv, EndpointStepsInv, TimeInv DEF LadderNext

-----------------------------------------------------------------------------
(* The invariant that keeps account of the two threads and the stream they *)
(* share holds throughout.                                                 *)
THEOREM LadderInductive == LadderSpec => []LadderInv
  BY LadderInitInv, LadderNextInv, PTL DEF LadderSpec

(* Both threads, and what they share, stay of their types: the attempts    *)
(* never pass `ladder_attempts`, and a turn has a result exactly when its  *)
(* loop has returned.                                                      *)
THEOREM LadderTypeCorrect == LadderSpec => []LadderTypeOK
  BY LadderInductive, PTL DEF LadderInv

(* However the watchdog races the last bytes of a stream: a turn read to   *)
(* `message_stop` is delivered, and no watchdog outlives its attempt.      *)
THEOREM HarmlessWatchdog == LadderSpec => []WatchdogIsHarmless
  BY LadderInductive, PTL DEF LadderInv

(* The backoff between two attempts respects a Retry-After up to the cap,  *)
(* and never exceeds the cap.                                              *)
THEOREM ClampedRetryAfter == LadderSpec => []RetryAfterIsClampedFloor
  BY LadderInductive, PTL DEF LadderInv

-----------------------------------------------------------------------------
(* The hunk arithmetic of a patch, for files and cuts of any length.       *)

(* The least of a set of natural numbers, from the well-foundedness of the *)
(* finite sets 0..n.                                                       *)
LEMMA LeastOf == ASSUME NEW T, T \subseteq Nat, T # {}
                 PROVE  \E x \in T : \A y \in T : x <= y
  <1> DEFINE R == StrictSubsetOrdering(Nat)
             F == {0..n : n \in T}
  <1>1. IsWellFoundedOn(R, FiniteSubsetsOf(Nat)) BY FS_StrictSubsetOrderingWellFounded
  <1>2. F \subseteq FiniteSubsetsOf(Nat)
    <2> SUFFICES ASSUME NEW n \in T PROVE 0..n \in FiniteSubsetsOf(Nat) OBVIOUS
    <2>1. IsFiniteSet(0..n) BY FS_Interval
    <2>2. 0..n \subseteq Nat OBVIOUS
    <2> QED BY <2>1, <2>2 DEF FiniteSubsetsOf
  <1>3. F # {} OBVIOUS
  <1> HIDE DEF F, R
  <1>4. PICK s \in F : \A t \in F : <<t, s>> \notin R
     BY <1>1, <1>2, <1>3, WFMin
  <1> USE DEF F, R
  <1>5. PICK x \in T : s = 0..x OBVIOUS
  <1>6. ASSUME NEW y \in T, y < x PROVE FALSE
    <2>1. 0..y \subseteq 0..x /\ 0..y # 0..x BY <1>6
    <2>2. 0..y \subseteq Nat /\ 0..x \subseteq Nat OBVIOUS
    <2>3. <<0..y, 0..x>> \in R BY <2>1, <2>2 DEF StrictSubsetOrdering
    <2> QED BY <2>3, <1>4, <1>5
  <1> QED BY <1>6

(* Two runs that start alike and take like steps end alike.                *)
Alongside(f, g, n) == /\ f[0] = g[0]
                      /\ \A i \in 1..n : f[i - 1] = g[i - 1] => f[i] = g[i]
LEMMA Agree ==
    ASSUME NEW n \in Nat, NEW f, NEW g, Alongside(f, g, n)
    PROVE  f[n] = g[n]
  <1> USE DEF Alongside
  <1> SUFFICES ASSUME f[n] # g[n] PROVE FALSE OBVIOUS
  <1> DEFINE T == {k \in 0..n : f[k] # g[k]}
  <1>1. T \subseteq Nat /\ n \in T OBVIOUS
  <1>2. PICK x \in T : \A y \in T : x <= y BY <1>1, LeastOf
  <1>3. x \in 1..n BY <1>2
  <1>4. x - 1 \in 0..n /\ x - 1 \notin T BY <1>2, <1>3
  <1> QED BY <1>2, <1>3, <1>4

-----------------------------------------------------------------------------
(* The scripts a diff is made of: how many of the first m of some numbers  *)
(* are of T.                                                               *)
Upto(T, m) == {i \in 1..m : i \in T}
Counted(T, m) ==
    /\ Cardinality(Upto(T, 0)) = 0 /\ Cardinality(Upto(T, m)) \in Nat
    /\ m # 0 => Cardinality(Upto(T, m))
                = IF m \in T THEN Cardinality(Upto(T, m - 1)) + 1
                  ELSE Cardinality(Upto(T, m - 1))
    /\ \A n \in 0..m : Cardinality(Upto(T, n)) <= Cardinality(Upto(T, m))
LEMMA Counting == ASSUME NEW T, NEW m \in Nat PROVE Counted(T, m)
  <1>1. ASSUME NEW n \in Nat PROVE IsFiniteSet(Upto(T, n)) /\ Cardinality(Upto(T, n)) \in Nat
    <2>1. IsFiniteSet(1..n) BY FS_Interval
    <2>2. Upto(T, n) \in SUBSET (1..n) BY DEF Upto
    <2> QED BY <2>1, <2>2, FS_Subset, FS_CardinalityType
  <1>2. Cardinality(Upto(T, 0)) = 0
    <2>1. Upto(T, 0) = {} BY DEF Upto
    <2> QED BY <2>1, FS_EmptySet
  <1>3. ASSUME m # 0
        PROVE  Cardinality(Upto(T, m)) = IF m \in T THEN Cardinality(Upto(T, m - 1)) + 1
                                         ELSE Cardinality(Upto(T, m - 1))
    <2>1. m - 1 \in Nat BY <1>3
    <2>2. CASE m \in T
      <3>1. Upto(T, m) = Upto(T, m - 1) \cup {m} /\ m \notin Upto(T, m - 1)
        BY <1>3, <2>2 DEF Upto
      <3>2. PICK S : S = Upto(T, m - 1) OBVIOUS
      <3>3. IsFiniteSet(S) /\ m \notin S BY <1>1, <2>1, <3>1, <3>2
      <3>4. Cardinality(S \cup {m}) = Cardinality(S) + 1 BY <3>3, FS_AddElement
      <3> QED BY <2>2, <3>1, <3>2, <3>4
    <2>3. CASE m \notin T
      <3>1. Upto(T, m) = Upto(T, m - 1) BY <1>3, <2>3 DEF Upto
      <3> QED BY <2>3, <3>1
    <2> QED BY <2>2, <2>3
  <1>4. ASSUME NEW n \in 0..m PROVE Cardinality(Upto(T, n)) <= Cardinality(Upto(T, m))
    <2>1. Upto(T, n) \in SUBSET Upto(T, m) BY DEF Upto
    <2> QED BY <1>1, <2>1, FS_Subset
  <1> QED BY <1>1, <1>2, <1>3, <1>4 DEF Counted

(* A script from `a` to `b`, their lines taken from A.                     *)
Turns(A, s, a, b) == a \in Seq(A) /\ b \in Seq(A) /\ Aligned(s, a, b)

(* What its first m lines come to, and where its m-th line lies.           *)
Counts(s, m) ==
    /\ OldLines(s, 0) = 0 /\ OldLines(s, m) \in Nat
    /\ NewLines(s, 0) = 0 /\ NewLines(s, m) \in Nat
    /\ m # 0 => /\ OldLines(s, m) = IF s[m][1] # "add" THEN OldLines(s, m - 1) + 1
                                    ELSE OldLines(s, m - 1)
                /\ NewLines(s, m) = IF s[m][1] # "drop" THEN NewLines(s, m - 1) + 1
                                    ELSE NewLines(s, m - 1)
    /\ \A n \in 0..m : OldLines(s, n) <= OldLines(s, m) /\ NewLines(s, n) <= NewLines(s, m)
LEMMA ScriptCounts == ASSUME NEW s, NEW m \in Nat PROVE Counts(s, m)
  <1>1. PICK O, P : O = {i \in Nat : s[i][1] # "add"} /\ P = {i \in Nat : s[i][1] # "drop"} OBVIOUS
  <1>2. ASSUME NEW n \in Nat
        PROVE  /\ OldLines(s, n) = Cardinality(Upto(O, n))
               /\ NewLines(s, n) = Cardinality(Upto(P, n))
    <2>1. Upto(O, n) = {i \in 1..n : s[i][1] # "add"} BY <1>1 DEF Upto
    <2>2. Upto(P, n) = {i \in 1..n : s[i][1] # "drop"} BY <1>1 DEF Upto
    <2> QED BY <2>1, <2>2 DEF OldLines, NewLines
  <1>3. Counted(O, m) /\ Counted(P, m) BY Counting
  <1>4. (m \in O <=> s[m][1] # "add") /\ (m \in P <=> s[m][1] # "drop") BY <1>1
  <1>5. \A n \in 0..m : n \in Nat OBVIOUS
  <1>6. 0 \in Nat /\ (m # 0 => m - 1 \in Nat) OBVIOUS
  <1>7. /\ OldLines(s, 0) = 0 /\ OldLines(s, m) \in Nat
        /\ NewLines(s, 0) = 0 /\ NewLines(s, m) \in Nat
    BY <1>2, <1>3, <1>6 DEF Counted
  <1>8. ASSUME m # 0
        PROVE  /\ OldLines(s, m) = IF s[m][1] # "add" THEN OldLines(s, m - 1) + 1
                                   ELSE OldLines(s, m - 1)
               /\ NewLines(s, m) = IF s[m][1] # "drop" THEN NewLines(s, m - 1) + 1
                                   ELSE NewLines(s, m - 1)
    BY <1>2, <1>3, <1>4, <1>6, <1>8 DEF Counted
  <1>9. ASSUME NEW n \in 0..m
        PROVE  OldLines(s, n) <= OldLines(s, m) /\ NewLines(s, n) <= NewLines(s, m)
    BY <1>2, <1>3, <1>5 DEF Counted
  <1> QED BY <1>7, <1>8, <1>9 DEF Counts

OnLine(s, a, b, i) ==
    /\ s[i] = <<s[i][1], s[i][2]>> /\ s[i][1] \in {"keep", "drop", "add"}
    /\ s[i][1] # "add" => a[OldLines(s, i)] = s[i][2]
    /\ s[i][1] # "drop" => b[NewLines(s, i)] = s[i][2]
    /\ OldLines(s, i) <= Len(a) /\ NewLines(s, i) <= Len(b)
LEMMA ScriptLine ==
    ASSUME NEW A, NEW s, NEW a, NEW b, Turns(A, s, a, b), NEW i \in 1..Len(s)
    PROVE  OnLine(s, a, b, i)
  <1>1. /\ s \in Seq({"keep", "drop", "add"} \X (Range(a) \cup Range(b)))
        /\ OldLines(s, Len(s)) = Len(a) /\ NewLines(s, Len(s)) = Len(b)
        /\ s[i][1] # "add" => a[OldLines(s, i)] = s[i][2]
        /\ s[i][1] # "drop" => b[NewLines(s, i)] = s[i][2]
    BY DEF Turns, Aligned
  <1>2. s[i] \in {"keep", "drop", "add"} \X (Range(a) \cup Range(b)) BY <1>1, ElementOfSeq
  <1>3. Len(s) \in Nat BY <1>1, LenProperties
  <1>4. Counts(s, Len(s)) BY <1>3, ScriptCounts
  <1>5. i \in 0..Len(s) BY <1>3
  <1>6. OldLines(s, i) <= Len(a) /\ NewLines(s, i) <= Len(b) BY <1>1, <1>4, <1>5 DEF Counts
  <1>7. s[i] = <<s[i][1], s[i][2]>> /\ s[i][1] \in {"keep", "drop", "add"} BY <1>2
  <1> QED BY <1>1, <1>6, <1>7 DEF OnLine

-----------------------------------------------------------------------------
(* What applying comes to, one line of a hunk and one hunk at a time.      *)
(* `g` runs through the lines of a hunk.                                   *)
Lines(L, s, h, n, g) ==
    /\ n = Len(h.body) /\ g = [i \in 0..n |-> g[i]]
    /\ s.ok /\ ~(Start(h) < s.at) /\ ~(Start(h) > Len(L))
    /\ g[0] = [ok |-> TRUE, at |-> Start(h),
               out |-> s.out \o SubSeq(L, s.at + 1, Start(h))]
    /\ \A i \in 1..n : g[i] = ApplyLine(L, g[i - 1], h.body[i])
LEMMA HunkFold ==
    ASSUME NEW L, NEW s, NEW h, NEW n \in Nat, NEW g, Lines(L, s, h, n, g)
    PROVE  ApplyHunk(L, s, h) = g[n]
  <1> USE DEF Lines
  <1> DEFINE F(f) == [i \in 0..n |->
                        IF i = 0 THEN [ok |-> TRUE, at |-> Start(h),
                                       out |-> s.out \o SubSeq(L, s.at + 1, Start(h))]
                        ELSE ApplyLine(L, f[i - 1], h.body[i])]
             f == CHOOSE x : x = F(x)
  <1>1. g = F(g)
    <2>1. ASSUME NEW i \in 0..n PROVE g[i] = F(g)[i]
      <3>1. CASE i = 0 BY <3>1
      <3>2. CASE i # 0
        <4>1. i \in 1..n BY <3>2
        <4> QED BY <3>2, <4>1
      <3> QED BY <3>1, <3>2
    <2> QED BY <2>1
  <1>2. f = F(f) BY <1>1
  <1>3. ApplyHunk(L, s, h) = f[n] BY DEF ApplyHunk
  <1> HIDE DEF f
  <1>4. f[0] = g[0] BY <1>2
  <1>5. ASSUME NEW i \in 1..n, f[i - 1] = g[i - 1] PROVE f[i] = g[i]
    <2>1. i \in 0..n /\ i # 0 OBVIOUS
    <2>2. f[i] = ApplyLine(L, f[i - 1], h.body[i]) BY <1>2, <2>1
    <2> QED BY <1>5, <2>2
  <1>6. f[n] = g[n]
    <2>1. Alongside(f, g, n) BY <1>4, <1>5 DEF Alongside
    <2> QED BY <2>1, Agree
  <1> QED BY <1>3, <1>6

(* The hunks of a file, one after another.                                 *)
HunksOf(L, hunks, n, g) ==
    /\ n = Len(hunks) /\ g = [i \in 0..n |-> g[i]]
    /\ g[0] = [ok |-> TRUE, out |-> <<>>, at |-> 0]
    /\ \A i \in 1..n : g[i] = ApplyHunk(L, g[i - 1], hunks[i])
LEMMA HunksFold ==
    ASSUME NEW L, NEW hunks, NEW n \in Nat, NEW g, HunksOf(L, hunks, n, g)
    PROVE  ApplyHunks(L, hunks)
           = [ok |-> g[n].ok, lines |-> g[n].out \o SubSeq(L, g[n].at + 1, Len(L))]
  <1> USE DEF HunksOf
  <1> DEFINE F(f) == [i \in 0..n |-> IF i = 0 THEN [ok |-> TRUE, out |-> <<>>, at |-> 0]
                                     ELSE ApplyHunk(L, f[i - 1], hunks[i])]
             f == CHOOSE x : x = F(x)
  <1>1. g = F(g)
    <2>1. ASSUME NEW i \in 0..n PROVE g[i] = F(g)[i]
      <3>1. CASE i = 0 BY <3>1
      <3>2. CASE i # 0
        <4>1. i \in 1..n BY <3>2
        <4> QED BY <3>2, <4>1
      <3> QED BY <3>1, <3>2
    <2> QED BY <2>1
  <1>2. f = F(f) BY <1>1
  <1>3. ApplyHunks(L, hunks)
        = [ok |-> f[n].ok, lines |-> f[n].out \o SubSeq(L, f[n].at + 1, Len(L))]
    BY DEF ApplyHunks
  <1> HIDE DEF f
  <1>4. f[0] = g[0] BY <1>2
  <1>5. ASSUME NEW i \in 1..n, f[i - 1] = g[i - 1] PROVE f[i] = g[i]
    <2>1. i \in 0..n /\ i # 0 OBVIOUS
    <2>2. f[i] = ApplyHunk(L, f[i - 1], hunks[i]) BY <1>2, <2>1
    <2> QED BY <1>5, <2>2
  <1>6. f[n] = g[n]
    <2>1. Alongside(f, g, n) BY <1>4, <1>5 DEF Alongside
    <2> QED BY <2>1, Agree
  <1> QED BY <1>3, <1>6

(* Applying has come after `at` lines of the old file, with these out.     *)
At(at, out) == [ok |-> TRUE, at |-> at, out |-> out]

LEMMA OneMore ==
    ASSUME NEW A, NEW b \in Seq(A), NEW m \in Nat, m < Len(b)
    PROVE  Append(SubSeq(b, 1, m), b[m + 1]) = SubSeq(b, 1, m + 1)
  <1>1. Len(b) \in Nat BY LenProperties
  <1>2. 1 \in 1..Len(b) /\ m + 1 \in 1..Len(b) /\ (m + 1) - 1 = m BY <1>1
  <1>3. PICK x \in A : x = b[m + 1] BY <1>2, ElementOfSeq
  <1>4. PICK u : u = SubSeq(b, 1, m) OBVIOUS
  <1>5. SubSeq(b, 1, m + 1) = u \o <<x>>
    BY <1>2, <1>3, <1>4, SubSeqRecursiveSecond
  <1>6. u \in Seq(A)
    <2>1. \A i \in 1..m : b[i] \in A BY <1>1, ElementOfSeq
    <2> QED BY <1>4, <2>1, SubSeqProperties
  <1>7. Append(u, x) = u \o <<x>> BY <1>3, <1>6, AppendIsConcat
  <1> QED BY <1>3, <1>4, <1>5, <1>7

LEMMA LineAdds ==
    ASSUME NEW L, NEW at, NEW out, NEW x
    PROVE  ApplyLine(L, At(at, out), <<"add", x>>) = At(at, Append(out, x))
  BY DEF ApplyLine, At

LEMMA LineDrops ==
    ASSUME NEW L, NEW at, NEW out, NEW x, at < Len(L), L[at + 1] = x
    PROVE  ApplyLine(L, At(at, out), <<"drop", x>>) = At(at + 1, out)
  BY DEF ApplyLine, At

LEMMA LineStays ==
    ASSUME NEW L, NEW at, NEW out, NEW x, at < Len(L), L[at + 1] = x
    PROVE  ApplyLine(L, At(at, out), <<"keep", x>>) = At(at + 1, Append(out, x))
  BY DEF ApplyLine, At

(* Applying has come through m lines of the script.                        *)
Through(s, b, m) == At(OldLines(s, m), SubSeq(b, 1, NewLines(s, m)))

LEMMA LineApplied ==
    ASSUME NEW A, NEW s, NEW a, NEW b, Turns(A, s, a, b), NEW i \in 1..Len(s)
    PROVE  ApplyLine(a, Through(s, b, i - 1), s[i]) = Through(s, b, i)
  <1>1. a \in Seq(A) /\ b \in Seq(A) /\ Len(s) \in Nat
    BY LenProperties DEF Turns, Aligned
  <1>2. Len(a) \in Nat /\ Len(b) \in Nat BY <1>1, LenProperties
  <1>3. OnLine(s, a, b, i) BY ScriptLine
  <1>4. i \in Nat /\ i # 0 /\ i - 1 \in Nat BY <1>1
  <1>5. Counts(s, i) /\ Counts(s, i - 1) BY <1>4, ScriptCounts
  <1>6. PICK p \in Nat, q \in Nat : p = OldLines(s, i - 1) /\ q = NewLines(s, i - 1)
    BY <1>5 DEF Counts
  <1>7. PICK x : x = s[i][2] OBVIOUS
  <1>8. PICK u : u = SubSeq(b, 1, q) OBVIOUS
  <1>9. Through(s, b, i - 1) = At(p, u) BY <1>6, <1>8 DEF Through
  <1>10. s[i][1] # "add" => OldLines(s, i) = p + 1 /\ p < Len(a) /\ a[p + 1] = x
    <2>1. s[i][1] # "add" => OldLines(s, i) = p + 1 BY <1>4, <1>5, <1>6 DEF Counts
    <2> QED BY <1>2, <1>3, <1>7, <2>1 DEF OnLine
  <1>11. s[i][1] # "drop" => NewLines(s, i) = q + 1 /\ Append(u, x) = SubSeq(b, 1, q + 1)
    <2>1. s[i][1] # "drop" => NewLines(s, i) = q + 1 BY <1>4, <1>5, <1>6 DEF Counts
    <2>2. s[i][1] # "drop" => q < Len(b) /\ b[q + 1] = x BY <1>2, <1>3, <1>7, <2>1 DEF OnLine
    <2> QED BY <1>1, <1>8, <2>1, <2>2, OneMore
  <1>12. CASE s[i][1] = "keep"
    <2>1. s[i] = <<"keep", x>> BY <1>3, <1>7, <1>12 DEF OnLine
    <2>2. ApplyLine(a, At(p, u), <<"keep", x>>) = At(p + 1, Append(u, x))
      BY <1>10, <1>12, LineStays
    <2>3. Through(s, b, i) = At(p + 1, Append(u, x)) BY <1>10, <1>11, <1>12 DEF Through
    <2> QED BY <1>9, <2>1, <2>2, <2>3
  <1>13. CASE s[i][1] = "drop"
    <2>1. s[i] = <<"drop", x>> BY <1>3, <1>7, <1>13 DEF OnLine
    <2>2. ApplyLine(a, At(p, u), <<"drop", x>>) = At(p + 1, u) BY <1>10, <1>13, LineDrops
    <2>3. NewLines(s, i) = q BY <1>4, <1>5, <1>6, <1>13 DEF Counts
    <2>4. Through(s, b, i) = At(p + 1, u) BY <1>8, <1>10, <1>13, <2>3 DEF Through
    <2> QED BY <1>9, <2>1, <2>2, <2>4
  <1>14. CASE s[i][1] = "add"
    <2>1. s[i] = <<"add", x>> BY <1>3, <1>7, <1>14 DEF OnLine
    <2>2. ApplyLine(a, At(p, u), <<"add", x>>) = At(p, Append(u, x)) BY LineAdds
    <2>3. OldLines(s, i) = p BY <1>4, <1>5, <1>6, <1>14 DEF Counts
    <2>4. Through(s, b, i) = At(p, Append(u, x)) BY <1>11, <1>14, <2>3 DEF Through
    <2> QED BY <1>9, <2>1, <2>2, <2>4
  <1> QED BY <1>3, <1>12, <1>13, <1>14 DEF OnLine

(* Between two hunks the old lines are the new ones.                       *)
Unchanged(s, m, n) ==
    m \in Nat /\ n \in m..Len(s) /\ \A i \in (m + 1)..n : s[i][1] = "keep"
LEMMA GapCounts ==
    ASSUME NEW s, NEW m, NEW n, Unchanged(s, m, n), Len(s) \in Nat, NEW j \in 0..(n - m)
    PROVE  OldLines(s, m + j) = OldLines(s, m) + j /\ NewLines(s, m + j) = NewLines(s, m) + j
  <1>1. m \in Nat /\ n \in m..Len(s) /\ \A i \in (m + 1)..n : s[i][1] = "keep" BY DEF Unchanged
  <1>2. n \in Nat /\ j \in Nat BY <1>1
  <1>3. Counts(s, m) BY <1>1, ScriptCounts
  <1>4. OldLines(s, m) \in Nat /\ NewLines(s, m) \in Nat BY <1>3 DEF Counts
  <1>5. PICK f, g, h, k :
            /\ f = [i \in 0..j |-> OldLines(s, m + i)] /\ g = [i \in 0..j |-> OldLines(s, m) + i]
            /\ h = [i \in 0..j |-> NewLines(s, m + i)] /\ k = [i \in 0..j |-> NewLines(s, m) + i]
    OBVIOUS
  <1>6. f[0] = g[0] /\ h[0] = k[0] BY <1>1, <1>2, <1>4, <1>5
  <1>7. ASSUME NEW i \in 1..j
        PROVE  (f[i - 1] = g[i - 1] => f[i] = g[i]) /\ (h[i - 1] = k[i - 1] => h[i] = k[i])
    <2>1. i \in 0..j /\ i - 1 \in 0..j /\ m + i \in (m + 1)..n /\ m + i \in Nat /\ m + i # 0
          /\ (m + i) - 1 = m + (i - 1)
      BY <1>1, <1>2
    <2>2. s[m + i][1] = "keep" BY <1>1, <2>1
    <2>3. Counts(s, m + i) BY <2>1, ScriptCounts
    <2>4. /\ OldLines(s, m + i) = OldLines(s, m + (i - 1)) + 1
          /\ NewLines(s, m + i) = NewLines(s, m + (i - 1)) + 1
      BY <2>1, <2>2, <2>3 DEF Counts
    <2>5. /\ f[i] = OldLines(s, m + i) /\ f[i - 1] = OldLines(s, m + (i - 1))
          /\ h[i] = NewLines(s, m + i) /\ h[i - 1] = NewLines(s, m + (i - 1))
          /\ g[i] = OldLines(s, m) + i /\ g[i - 1] = OldLines(s, m) + (i - 1)
          /\ k[i] = NewLines(s, m) + i /\ k[i - 1] = NewLines(s, m) + (i - 1)
      BY <1>5, <2>1
    <2> QED BY <1>4, <2>1, <2>4, <2>5
  <1>8. Alongside(f, g, j) /\ Alongside(h, k, j) BY <1>6, <1>7 DEF Alongside
  <1>9. f[j] = g[j] /\ h[j] = k[j] BY <1>2, <1>8, Agree
  <1>10. j \in 0..j BY <1>2
  <1> QED BY <1>5, <1>9, <1>10

(* The d members of a sequence after the r-th.                             *)
StretchOf(A, w, t, r, d) ==
    w \in Seq(A) /\ Len(w) = d /\ \A j \in 1..d : w[j] = t[r + j]
LEMMA StretchIs ==
    ASSUME NEW A, NEW t, NEW r \in Nat, NEW d \in Nat, \A j \in 1..d : t[r + j] \in A
    PROVE  StretchOf(A, SubSeq(t, r + 1, r + d), t, r, d)
  <1>1. PICK lo \in Int, hi \in Int : lo = r + 1 /\ hi = r + d OBVIOUS
  <1>2. PICK w : w = SubSeq(t, lo, hi) OBVIOUS
  <1>3. ASSUME NEW i \in lo..hi PROVE t[i] \in A
    <2>1. i - r \in 1..d /\ r + (i - r) = i BY <1>1
    <2> QED BY <2>1
  <1>4. /\ w \in Seq(A) /\ Len(w) = IF lo <= hi THEN hi - lo + 1 ELSE 0
        /\ \A i \in 1..(hi - lo + 1) : w[i] = t[lo + i - 1]
    BY <1>2, <1>3, SubSeqProperties
  <1>5. Len(w) = d BY <1>1, <1>4
  <1>6. ASSUME NEW j \in 1..d PROVE w[j] = t[r + j]
    <2>1. j \in 1..(hi - lo + 1) /\ lo + j - 1 = r + j BY <1>1
    <2> QED BY <1>4, <2>1
  <1> QED BY <1>1, <1>2, <1>4, <1>5, <1>6 DEF StretchOf

Kept(s, a, b, m, n) ==
    SubSeq(b, 1, NewLines(s, m)) \o SubSeq(a, OldLines(s, m) + 1, OldLines(s, n))
    = SubSeq(b, 1, NewLines(s, n))
LEMMA GapIsKept ==
    ASSUME NEW A, NEW s, NEW a, NEW b, Turns(A, s, a, b), NEW m, NEW n, Unchanged(s, m, n)
    PROVE  Kept(s, a, b, m, n)
  <1>1. a \in Seq(A) /\ b \in Seq(A) /\ Len(s) \in Nat
        /\ OldLines(s, Len(s)) = Len(a) /\ NewLines(s, Len(s)) = Len(b)
    BY LenProperties DEF Turns, Aligned
  <1>2. m \in Nat /\ n \in m..Len(s) /\ \A i \in (m + 1)..n : s[i][1] = "keep" BY DEF Unchanged
  <1>3. PICK d \in Nat : d = n - m BY <1>1, <1>2
  <1>4. ASSUME NEW j \in 0..d
        PROVE  OldLines(s, m + j) = OldLines(s, m) + j /\ NewLines(s, m + j) = NewLines(s, m) + j
    BY <1>1, <1>3, GapCounts
  <1>5. Counts(s, m) /\ Counts(s, Len(s)) BY <1>1, <1>2, ScriptCounts
  <1>6. PICK p \in Nat, q \in Nat : p = OldLines(s, m) /\ q = NewLines(s, m)
    BY <1>5 DEF Counts
  <1>7. OldLines(s, n) = p + d /\ NewLines(s, n) = q + d
    <2>1. d \in 0..d /\ m + d = n BY <1>1, <1>2, <1>3
    <2> QED BY <1>4, <1>6, <2>1
  <1>8. p + d <= Len(a) /\ q + d <= Len(b) /\ Len(a) \in Nat /\ Len(b) \in Nat
    <2>1. n \in 0..Len(s) BY <1>1, <1>2
    <2> QED BY <1>1, <1>5, <1>7, <2>1, LenProperties DEF Counts
  <1>9. ASSUME NEW j \in 1..d PROVE a[p + j] = b[q + j] /\ a[p + j] \in A /\ b[q + j] \in A
    <2>1. j \in 0..d /\ m + j \in 1..Len(s) /\ m + j \in (m + 1)..n BY <1>1, <1>2, <1>3
    <2>2. OnLine(s, a, b, m + j) BY <2>1, ScriptLine
    <2>3. s[m + j][1] = "keep" BY <1>2, <2>1
    <2>4. OldLines(s, m + j) = p + j /\ NewLines(s, m + j) = q + j BY <1>4, <1>6, <2>1
    <2>5. p + j \in 1..Len(a) /\ q + j \in 1..Len(b) BY <1>8
    <2>6. a[p + j] \in A /\ b[q + j] \in A BY <1>1, <2>5, ElementOfSeq
    <2> QED BY <2>2, <2>3, <2>4, <2>6 DEF OnLine
  <1>10. SubSeq(a, p + 1, p + d) = SubSeq(b, q + 1, q + d)
    <2>1. PICK u, v : u = SubSeq(a, p + 1, p + d) /\ v = SubSeq(b, q + 1, q + d) OBVIOUS
    <2>2. /\ \A j \in 1..d : a[p + j] \in A
          /\ \A j \in 1..d : b[q + j] \in A
      BY <1>9
    <2>3. StretchOf(A, u, a, p, d) /\ StretchOf(A, v, b, q, d) BY <2>1, <2>2, StretchIs
    <2>4. /\ u \in Seq(A) /\ Len(u) = d /\ \A j \in 1..d : u[j] = a[p + j]
          /\ v \in Seq(A) /\ Len(v) = d /\ \A j \in 1..d : v[j] = b[q + j]
      BY <2>3 DEF StretchOf
    <2>5. u = v BY <1>9, <2>4, SeqEqual
    <2> QED BY <2>1, <2>5
  <1>11. SubSeq(b, 1, q) \o SubSeq(b, q + 1, q + d) = SubSeq(b, 1, q + d)
    <2>1. 1 \in 1..(Len(b) + 1) /\ q \in (1 - 1)..Len(b) /\ q + d \in q..Len(b) BY <1>8
    <2> QED BY <1>1, <2>1, ConcatAdjacentSubSeq
  <1> QED BY <1>6, <1>7, <1>10, <1>11 DEF Kept

LEMMA ListLength ==
    ASSUME NEW n \in Nat, NEW f, f = [i \in 1..n |-> f[i]]
    PROVE  Len(f) = n
  <1>1. PICK B : B = {f[i] : i \in 1..n} OBVIOUS
  <1>2. f \in [1..n -> B]
    <2>1. [i \in 1..n |-> f[i]] \in [1..n -> B] BY <1>1
    <2> QED BY <2>1
  <1>3. f \in Seq(B) BY <1>2, SeqDef
  <1>4. Len(f) \in Nat /\ DOMAIN f = 1..Len(f) BY <1>3, LenProperties
  <1>5. DOMAIN f = 1..n BY <1>2
  <1> QED BY <1>4, <1>5

LEMMA HunkApplied ==
    ASSUME NEW A, NEW s, NEW a, NEW b, Turns(A, s, a, b), NEW first \in 1..Len(s),
           NEW last \in first..Len(s), NEW m, Unchanged(s, m, first - 1)
    PROVE  ApplyHunk(a, Through(s, b, m), HunkOf(s, first, last)) = Through(s, b, last)
  <1> DEFINE h == HunkOf(s, first, last)
             n == last - (first - 1)
             g == [i \in 0..n |-> Through(s, b, (first - 1) + i)]
  <1>1. /\ a \in Seq(A) /\ b \in Seq(A) /\ Len(s) \in Nat /\ OldLines(s, Len(s)) = Len(a)
        /\ s \in Seq({"keep", "drop", "add"} \X (Range(a) \cup Range(b)))
    BY LenProperties DEF Turns, Aligned
  <1>2. m \in Nat /\ first - 1 \in Nat /\ last \in Nat /\ n \in Nat /\ Len(a) \in Nat
        /\ m \in 0..(first - 1) /\ first - 1 \in 0..last /\ first - 1 \in 0..Len(s)
    BY <1>1, LenProperties DEF Unchanged
  <1>3. Counts(s, first - 1) /\ Counts(s, last) /\ Counts(s, Len(s)) /\ Counts(s, m)
    BY <1>1, <1>2, ScriptCounts
  <1>4. Start(h) = OldLines(s, first - 1)
    <2>1. PICK p, q : p = OldLines(s, first - 1) /\ q = OldLines(s, last) OBVIOUS
    <2>2. p \in Nat /\ q \in Nat /\ p <= q BY <1>2, <1>3, <2>1 DEF Counts
    <2>3. h.count = q - p /\ h.start = IF q - p > 0 THEN p + 1 ELSE p BY <2>1 DEF HunkOf
    <2> HIDE DEF h
    <2> QED BY <2>1, <2>2, <2>3 DEF Start
  <1>5. Len(h.body) = n /\ \A i \in 1..n : h.body[i] = s[(first - 1) + i]
    <2>1. PICK w : w = SubSeq(s, first, last) OBVIOUS
    <2>2. h.body = w BY <2>1 DEF HunkOf
    <2>3. PICK B : s \in Seq(B) BY <1>1
    <2>4. \A i \in first..last : s[i] \in B BY <1>1, <2>3, ElementOfSeq
    <2>5. /\ Len(w) = IF first <= last THEN last - first + 1 ELSE 0
          /\ \A i \in 1..(last - first + 1) : w[i] = s[first + i - 1]
      BY <1>1, <2>1, <2>4, SubSeqProperties
    <2>6. ASSUME NEW i \in 1..n PROVE w[i] = s[(first - 1) + i]
      <3>1. i \in 1..(last - first + 1) /\ first + i - 1 = (first - 1) + i BY <1>1, <1>2
      <3> QED BY <2>5, <3>1
    <2>7. Len(w) = n BY <1>1, <2>5
    <2> HIDE DEF h
    <2> QED BY <2>2, <2>6, <2>7
  <1>6. /\ Start(h) \in Nat /\ OldLines(s, m) \in Nat
        /\ OldLines(s, m) <= Start(h) /\ Start(h) <= Len(a)
    BY <1>1, <1>2, <1>3, <1>4 DEF Counts
  <1>7. g[0] = [ok |-> TRUE, at |-> Start(h),
                out |-> SubSeq(b, 1, NewLines(s, m))
                        \o SubSeq(a, OldLines(s, m) + 1, Start(h))]
    <2>1. 0 \in 0..n /\ (first - 1) + 0 = first - 1 BY <1>2
    <2>2. g[0] = Through(s, b, first - 1) BY <2>1
    <2>3. SubSeq(b, 1, NewLines(s, m)) \o SubSeq(a, OldLines(s, m) + 1, Start(h))
          = SubSeq(b, 1, NewLines(s, first - 1))
      <3>1. Kept(s, a, b, m, first - 1) BY GapIsKept
      <3> HIDE DEF h
      <3> QED BY <1>4, <3>1 DEF Kept
    <2> HIDE DEF g, h
    <2> QED BY <1>4, <2>2, <2>3 DEF Through, At
  <1>8. ASSUME NEW i \in 1..n PROVE g[i] = ApplyLine(a, g[i - 1], h.body[i])
    <2>1. i \in 0..n /\ i - 1 \in 0..n /\ (first - 1) + i \in 1..Len(s)
          /\ (first - 1) + (i - 1) = ((first - 1) + i) - 1
      BY <1>1, <1>2
    <2>2. g[i] = Through(s, b, (first - 1) + i)
          /\ g[i - 1] = Through(s, b, ((first - 1) + i) - 1)
      BY <2>1
    <2>3. h.body[i] = s[(first - 1) + i] BY <1>5
    <2> HIDE DEF g, h
    <2> QED BY <2>1, <2>2, <2>3, LineApplied
  <1>9. g[n] = Through(s, b, last)
    <2>1. n \in 0..n /\ (first - 1) + n = last BY <1>1, <1>2
    <2> QED BY <2>1
  <1>10. g = [i \in 0..n |-> g[i]] OBVIOUS
  <1>11. PICK t : t = Through(s, b, m) OBVIOUS
  <1>12. t.ok /\ t.at = OldLines(s, m) /\ t.out = SubSeq(b, 1, NewLines(s, m))
    BY <1>11 DEF Through, At
  <1> HIDE DEF g, h, n
  <1>13. Lines(a, t, h, n, g)
    <2>1. ~(Start(h) < t.at) /\ ~(Start(h) > Len(a)) BY <1>2, <1>6, <1>12
    <2> QED BY <1>5, <1>7, <1>8, <1>10, <1>12, <2>1 DEF Lines
  <1>14. ApplyHunk(a, t, h) = g[n] BY <1>2, <1>13, HunkFold
  <1> QED BY <1>9, <1>11, <1>14 DEF h

(* Applied to the file it was made from, an edit leaves the lines of the   *)
(* one it means, however many hunks its script is cut into.                *)
Scripted(A, from, to, s, cuts) == Turns(A, s, from.lines, to.lines) /\ Cut(s, cuts)
Makes(p, from, to, s, cuts) ==
    ApplyHunks(from.lines, EditOf(p, from, to, s, cuts).hunks).lines = to.lines
LEMMA MeantLines ==
    ASSUME NEW A, NEW p, NEW from, NEW to, NEW s, NEW cuts, Scripted(A, from, to, s, cuts)
    PROVE  Makes(p, from, to, s, cuts)
  <1>1. PICK a, b : a = from.lines /\ b = to.lines OBVIOUS
  <1>2. Turns(A, s, a, b) BY <1>1 DEF Scripted
  <1>3. PICK n : n = Len(cuts) OBVIOUS
  <1>4. PICK hunks : hunks = [k \in 1..n |-> HunkOf(s, cuts[k][1], cuts[k][2])] OBVIOUS
  <1>5. EditOf(p, from, to, s, cuts).hunks = hunks BY <1>3, <1>4 DEF EditOf
  <1>6. /\ cuts \in Seq((1..Len(s)) \X (1..Len(s)))
        /\ \A k \in 1..n : Reached(cuts, k - 1) < cuts[k][1] /\ cuts[k][1] <= cuts[k][2]
        /\ \A k \in 0..n : \A i \in (Reached(cuts, k) + 1)..Len(s) :
              s[i][1] = "keep" \/ (k < n /\ i >= cuts[k + 1][1])
    BY <1>3 DEF Cut, Scripted
  <1>7. n \in Nat BY <1>3, <1>6, LenProperties
  <1>8. /\ a \in Seq(A) /\ b \in Seq(A) /\ Len(s) \in Nat
        /\ OldLines(s, Len(s)) = Len(a) /\ NewLines(s, Len(s)) = Len(b)
    BY <1>2, LenProperties DEF Turns, Aligned
  <1>9. ASSUME NEW k \in 1..n PROVE cuts[k][1] \in 1..Len(s) /\ cuts[k][2] \in 1..Len(s)
    <2>1. cuts[k] \in (1..Len(s)) \X (1..Len(s)) BY <1>3, <1>6, ElementOfSeq
    <2> QED BY <2>1
  <1>10. ASSUME NEW k \in 0..n PROVE Reached(cuts, k) \in 0..Len(s)
    <2>1. CASE k = 0 BY <1>8, <2>1 DEF Reached
    <2>2. CASE k # 0
      <3>1. k \in 1..n BY <1>7, <2>2
      <3> QED BY <1>8, <1>9, <2>2, <3>1 DEF Reached
    <2> QED BY <2>1, <2>2
  <1>11. PICK g : g = [k \in 0..n |-> Through(s, b, Reached(cuts, k))] OBVIOUS
  <1>12. g[0] = [ok |-> TRUE, out |-> <<>>, at |-> 0]
    <2>1. g[0] = Through(s, b, 0) BY <1>7, <1>11 DEF Reached
    <2>2. Counts(s, 0) BY ScriptCounts
    <2>3. OldLines(s, 0) = 0 /\ NewLines(s, 0) = 0 BY <2>2 DEF Counts
    <2>4. SubSeq(b, 1, 0) = <<>> BY SubSeqEmpty
    <2> QED BY <2>1, <2>3, <2>4 DEF Through, At
  <1>13. ASSUME NEW k \in 1..n PROVE g[k] = ApplyHunk(a, g[k - 1], hunks[k])
    <2>1. k \in 0..n /\ k - 1 \in 0..n /\ k # 0 /\ (k - 1) + 1 = k BY <1>7
    <2>2. PICK first, last, m : first = cuts[k][1] /\ last = cuts[k][2]
                                /\ m = Reached(cuts, k - 1)
      OBVIOUS
    <2>3. first \in 1..Len(s) /\ last \in 1..Len(s) /\ m \in 0..Len(s)
          /\ m < first /\ first <= last
      BY <1>6, <1>9, <1>10, <2>1, <2>2
    <2>4. last \in first..Len(s) BY <1>8, <2>3
    <2>5. Unchanged(s, m, first - 1)
      <3>1. m \in Nat /\ first - 1 \in m..Len(s) BY <1>8, <2>3
      <3>2. ASSUME NEW i \in (m + 1)..(first - 1) PROVE s[i][1] = "keep"
        <4>1. i \in (m + 1)..Len(s) /\ ~(i >= first) BY <1>8, <2>3
        <4> QED BY <1>6, <2>1, <2>2, <4>1
      <3> QED BY <3>1, <3>2 DEF Unchanged
    <2>6. hunks[k] = HunkOf(s, first, last) BY <1>4, <2>2
    <2>7. g[k - 1] = Through(s, b, m) /\ g[k] = Through(s, b, last)
      BY <1>11, <2>1, <2>2 DEF Reached
    <2>8. ApplyHunk(a, Through(s, b, m), HunkOf(s, first, last)) = Through(s, b, last)
      BY <1>2, <2>3, <2>4, <2>5, HunkApplied
    <2> QED BY <2>6, <2>7, <2>8
  <1>14. PICK m : m = Reached(cuts, n) OBVIOUS
  <1>15. n \in 0..n /\ m \in 0..Len(s) BY <1>7, <1>10, <1>14
  <1>16. Unchanged(s, m, Len(s))
    <2>1. m \in Nat /\ Len(s) \in m..Len(s) BY <1>8, <1>15
    <2>2. ~(n < n) BY <1>7
    <2>3. ASSUME NEW i \in (m + 1)..Len(s) PROVE s[i][1] = "keep"
      <3>1. \A j \in (Reached(cuts, n) + 1)..Len(s) :
               s[j][1] = "keep" \/ (n < n /\ j >= cuts[n + 1][1])
        BY <1>6, <1>15
      <3> QED BY <1>14, <2>2, <3>1
    <2> QED BY <2>1, <2>3 DEF Unchanged
  <1>17. SubSeq(b, 1, NewLines(s, m)) \o SubSeq(a, OldLines(s, m) + 1, Len(a)) = b
    <2>1. Kept(s, a, b, m, Len(s)) BY <1>2, <1>16, GapIsKept
    <2>2. SubSeq(b, 1, Len(b)) = b BY <1>8, SubSeqFull
    <2> QED BY <1>8, <2>1, <2>2 DEF Kept
  <1>18. HunksOf(a, hunks, n, g)
    <2>1. Len(hunks) = n
      <3>1. hunks = [k \in 1..n |-> hunks[k]] BY <1>4
      <3> QED BY <1>7, <3>1, ListLength
    <2>2. g = [i \in 0..n |-> g[i]] BY <1>11
    <2> QED BY <1>12, <1>13, <2>1, <2>2 DEF HunksOf
  <1>19. ApplyHunks(a, hunks)
         = [ok |-> g[n].ok, lines |-> g[n].out \o SubSeq(a, g[n].at + 1, Len(a))]
    BY <1>7, <1>18, HunksFold
  <1>20. PICK p1, q1 : p1 = OldLines(s, m) /\ q1 = SubSeq(b, 1, NewLines(s, m)) OBVIOUS
  <1>21. g[n] = At(p1, q1) BY <1>11, <1>14, <1>15, <1>20 DEF Through
  <1>22. q1 \o SubSeq(a, p1 + 1, Len(a)) = b BY <1>17, <1>20
  <1>23. ApplyHunks(a, hunks).lines = b
    <2>1. PICK x : x = g[n] OBVIOUS
    <2>2. x.out = q1 /\ x.at = p1 BY <1>21, <2>1 DEF At
    <2>3. PICK w : w = x.out \o SubSeq(a, x.at + 1, Len(a)) OBVIOUS
    <2>4. ApplyHunks(a, hunks) = [ok |-> x.ok, lines |-> w] BY <1>19, <2>1, <2>3
    <2>5. w = b BY <1>22, <2>2, <2>3
    <2> QED BY <2>4, <2>5
  <1> QED BY <1>1, <1>5, <1>23 DEF Makes

(* What an edit makes of the file it was made from.                        *)
MeantFile(e) ==
    IF e.from.there /\ ~e.from.eof THEN [e.to EXCEPT !.eof = FALSE] ELSE e.to

LEMMA Unterminated ==
    ASSUME NEW a, NEW b, NEW c
    PROVE  [[there |-> a, lines |-> b, eof |-> c] EXCEPT !.eof = FALSE]
           = [there |-> a, lines |-> b, eof |-> FALSE]
  <1> DEFINE r == [there |-> a, lines |-> b, eof |-> c]
             S == [there : {a}, lines : {b}, eof : {c, FALSE}]
  <1>1. r \in S OBVIOUS
  <1>2. [r EXCEPT !.eof = FALSE] \in S /\ [r EXCEPT !.eof = FALSE].eof = FALSE OBVIOUS
  <1>3. PICK q : q = [r EXCEPT !.eof = FALSE] OBVIOUS
  <1> HIDE DEF r
  <1>4. q \in S /\ q.eof = FALSE BY <1>2, <1>3
  <1>5. q = [there |-> a, lines |-> b, eof |-> FALSE] BY <1>4
  <1> QED BY <1>3, <1>5 DEF r

LEMMA FileIs ==
    ASSUME NEW x, IsFile(x)
    PROVE  /\ x = [there |-> x.there, lines |-> x.lines, eof |-> x.eof]
           /\ x.there \in BOOLEAN /\ x.eof \in BOOLEAN
           /\ x.lines = <<>> => ~x.eof
           /\ ~x.there => x = NoFile /\ x.lines = <<>> /\ ~x.eof
           /\ x.lines \in Seq(Range(x.lines))
  <1>1. CASE x = NoFile BY <1>1 DEF IsFile, NoFile
  <1>2. CASE x # NoFile
    <2>1. PICK l : l = x.lines OBVIOUS
    <2>2. x = File(l, TRUE) \/ x = File(l, FALSE) BY <1>2, <2>1 DEF IsFile
    <2>3. x.there /\ x.eof \in BOOLEAN /\ x = [there |-> TRUE, lines |-> l, eof |-> x.eof]
      <3>1. ASSUME NEW t \in BOOLEAN, x = [there |-> TRUE, lines |-> l, eof |-> t]
            PROVE  x.there /\ x.eof \in BOOLEAN /\ x.eof = t
        BY <3>1
      <3>2. CASE x = File(l, TRUE) BY <3>1, <3>2 DEF File
      <3>3. CASE x = File(l, FALSE) BY <3>1, <3>3 DEF File
      <3> QED BY <2>2, <3>2, <3>3
    <2> QED BY <2>1, <2>3 DEF IsFile
  <1> QED BY <1>1, <1>2

LEMMA MeantIsMade ==
    ASSUME NEW d \in Diffs, NEW files, DryRun(d, files), NEW m \in 1..Len(d),
           files[Target(d[m])] = d[m].from
    PROVE  Updated(d[m], files) = MeantFile(d[m])
  <1>1. PICK e, p : e = d[m] /\ p = Target(d[m]) OBVIOUS
  <1>2. PICK from, to : from = e.from /\ to = e.to OBVIOUS
  <1>3. Accepted(e, files) /\ files[p] = from BY <1>1, <1>2 DEF DryRun
  <1>4. p # Null /\ p = Target(e) BY <1>1, <1>3, PatchAssumption DEF Accepted
  <1>5. IsFile(from) /\ IsFile(to) /\ (Meant(e) \/ Misnamed(e))
    BY <1>1, <1>2, DiffAssumption
  <1>6. ~Misnamed(e) BY <1>3 DEF Accepted, Misnamed
  <1>7. PICK s, cuts : s = e.script /\ cuts = e.shown OBVIOUS
  <1>a. /\ Aligned(s, from.lines, to.lines) /\ Cut(s, cuts)
        /\ e = EditOf(p, from, to, s, cuts)
        /\ to.lines = <<>> \/ to.eof \/ e.bare \/ (from.there /\ ~from.eof)
    BY <1>2, <1>4, <1>5, <1>6, <1>7 DEF Meant
  <1>8. /\ e.old = (IF from.there THEN p ELSE Null) /\ e.new = (IF to.there THEN p ELSE Null)
        /\ e.bare => to.lines # <<>> /\ ~to.eof
    BY <1>a DEF EditOf
  <1>9. /\ from.there \in BOOLEAN /\ (~from.there => from.lines = <<>>)
        /\ from.eof \in BOOLEAN
    BY <1>5, FileIs
  <1>10. /\ to = [there |-> to.there, lines |-> to.lines, eof |-> to.eof]
         /\ to.there \in BOOLEAN /\ to.eof \in BOOLEAN /\ (to.lines = <<>> => ~to.eof)
         /\ (~to.there => to = NoFile)
    BY <1>5, FileIs
  <1>11. Original(e, files) = from.lines BY <1>3, <1>4, <1>8, <1>9 DEF Original
  <1>12. ApplyHunks(Original(e, files), e.hunks).lines = to.lines
    <2> DEFINE A == Range(from.lines) \cup Range(to.lines)
    <2>1. from.lines \in Seq(A) /\ to.lines \in Seq(A)
      <3>1. from.lines \in Seq(Range(from.lines)) /\ to.lines \in Seq(Range(to.lines))
        BY <1>5, FileIs
      <3>2. Range(from.lines) \subseteq A /\ Range(to.lines) \subseteq A OBVIOUS
      <3> QED BY <3>1, <3>2, SeqMonotonic
    <2> HIDE DEF A
    <2>2. Turns(A, s, from.lines, to.lines)
      <3>1. Aligned(s, from.lines, to.lines) BY <1>a
      <3> QED BY <2>1, <3>1 DEF Turns
    <2>3. Scripted(A, from, to, s, cuts) BY <1>a, <2>2 DEF Scripted
    <2>4. Makes(p, from, to, s, cuts) BY <2>3, MeantLines
    <2> QED BY <1>a, <1>11, <2>4 DEF Makes
  <1>13. CASE ~to.there
    <2>1. Updated(e, files) = NoFile BY <1>8, <1>13 DEF Updated
    <2>2. [NoFile EXCEPT !.eof = FALSE] = NoFile BY Unterminated DEF NoFile
    <2>3. to = NoFile BY <1>10, <1>13
    <2> QED BY <1>1, <1>2, <2>1, <2>2, <2>3 DEF MeantFile
  <1>14. CASE to.there
    <2>1. e.new # Null BY <1>4, <1>8, <1>14
    <2>2. Updated(e, files)
          = File(to.lines, to.lines # <<>> /\ ~e.bare /\ (e.old = Null \/ from.eof))
      BY <1>3, <1>4, <1>12, <2>1 DEF Updated
    <2>3. e.old = Null <=> ~from.there BY <1>4, <1>8, <1>9
    <2>4. CASE from.there /\ ~from.eof
      <3>1. Updated(e, files) = File(to.lines, FALSE) BY <2>2, <2>3, <2>4
      <3>2. [to EXCEPT !.eof = FALSE] = File(to.lines, FALSE)
        <4>1. PICK l, t : l = to.lines /\ t = to.eof OBVIOUS
        <4>2. to = [there |-> TRUE, lines |-> l, eof |-> t] BY <1>10, <1>14, <4>1
        <4>3. [to EXCEPT !.eof = FALSE] = [there |-> TRUE, lines |-> l, eof |-> FALSE]
          BY <4>2, Unterminated
        <4> QED BY <4>1, <4>3 DEF File
      <3> QED BY <1>1, <1>2, <2>4, <3>1, <3>2 DEF MeantFile
    <2>5. CASE ~(from.there /\ ~from.eof)
      <3>1. (to.lines # <<>> /\ ~e.bare /\ (e.old = Null \/ from.eof)) = to.eof
        BY <1>a, <1>8, <1>9, <1>10, <2>3, <2>5
      <3>2. Updated(e, files) = File(to.lines, to.eof) BY <2>2, <3>1
      <3>3. to = File(to.lines, to.eof) BY <1>10, <1>14 DEF File
      <3> QED BY <1>1, <1>2, <2>5, <3>2, <3>3 DEF MeantFile
    <2> QED BY <2>4, <2>5
  <1> QED BY <1>10, <1>13, <1>14

-----------------------------------------------------------------------------
(* The patch.  A file is its old text or what some edit of it makes, and   *)
(* beside it lies nothing or what some edit makes.                         *)
Results(p) == {Updated(diff[i], before) : i \in EditsOf(p)}
OnPaths(files) == files = [p \in Paths |-> files[p]]

PatchTypeOK ==
    /\ diff \in Diffs \cup {<<>>}
    /\ OnPaths(disk) /\ OnPaths(staged) /\ OnPaths(before)
    /\ outcome \in {"none", "running", "ok", "rejected", "failed", "killed"}
    /\ \A p \in Paths : /\ disk[p] \in {before[p]} \cup Results(p)
                        /\ staged[p] \in {NoFile} \cup Results(p)

(* What is pending is part of the commit of a diff that was let through;   *)
(* as long as a write is to be staged, no file has changed.                *)
Pending ==
    /\ outcome \in {"running", "ok"} => DryRun(diff, before)
    /\ outcome = "running" => todo \subseteq Commit(diff)
    /\ outcome \in {"none", "ok"} => todo = {}
    /\ outcome = "none" => staged = NoFiles
    /\ outcome \in {"none", "rejected"} => disk = before
    /\ outcome = "running" /\ (\E i \in 1..Len(diff) : <<"stage", i>> \in todo) => disk = before
    /\ outcome \notin {"failed", "killed"} => fault = "none"
    /\ outcome = "failed" /\ fault \notin {"commit", "gone"} => disk = before

(* How far each edit has come, where no path is edited twice.              *)
EditAt(i) ==
    LET p == Target(diff[i]) IN
    /\ <<"stage", i>> \in todo => <<"rename", i>> \in todo
    /\ staged[p] = IF <<"rename", i>> \in todo /\ <<"stage", i>> \notin todo
                   THEN Updated(diff[i], before) ELSE NoFile
    /\ disk[p] = IF <<"rename", i>> \in todo \/ <<"unlink", i>> \in todo
                 THEN before[p] ELSE Updated(diff[i], before)
Progress ==
    /\ \A i \in 1..Len(diff) : Target(diff[i]) \in Paths /\ EditAt(i)
    /\ \A p \in Paths : EditsOf(p) = {} => disk[p] = before[p] /\ staged[p] = NoFile

PatchInv ==
    /\ PatchTypeOK /\ Pending
    /\ outcome \in {"running", "ok"} /\ ~Repeated => Progress
    /\ fault = "gone" => Repeated

-----------------------------------------------------------------------------
(* What the dry run settles of an edit.                                    *)
LEMMA DryRunEdit ==
    ASSUME NEW d, NEW files, DryRun(d, files), NEW i \in 1..Len(d)
    PROVE  /\ Target(d[i]) \in Paths
           /\ d[i].new # Null => Updated(d[i], files).there
           /\ d[i].new = Null => Updated(d[i], files) = NoFile /\ files[Target(d[i])].there
  <1>1. Accepted(d[i], files) BY DEF DryRun
  <1>2. Target(d[i]) \in Paths BY <1>1, PatchAssumption DEF Accepted
  <1>3. ASSUME d[i].new # Null PROVE Updated(d[i], files).there
    BY <1>3 DEF Updated, File
  <1>4. ASSUME d[i].new = Null
        PROVE  Updated(d[i], files) = NoFile /\ files[Target(d[i])].there
    BY <1>1, <1>2, <1>4, PatchAssumption DEF Updated, Accepted, Target
  <1> QED BY <1>2, <1>3, <1>4

LEMMA DiffLength == ASSUME diff \in Diffs \cup {<<>>} PROVE Len(diff) \in Nat
  BY PatchAssumption

(* The operation that is due, and what is pending behind it.               *)
LEMMA DueOp ==
    ASSUME PatchInv, NEW i \in 1..Len(diff), NEW do \in {"stage", "rename", "unlink"},
           Running(do, i)
    PROVE  /\ Target(diff[i]) \in Paths
           /\ do \in {"stage", "rename"} <=> diff[i].new # Null
           /\ do # "stage" => \A k \in 1..Len(diff) : <<"stage", k>> \notin todo
           /\ do = "stage" => disk = before
  <1>1. <<do, i>> \in Commit(diff) /\ DryRun(diff, before)
    BY DEF PatchInv, Pending, Running
  <1>2. Target(diff[i]) \in Paths BY <1>1, DryRunEdit
  <1>3. do \in {"stage", "rename"} <=> diff[i].new # Null
    BY <1>1 DEF Commit, Writes
  <1>4. ASSUME do # "stage", NEW k \in 1..Len(diff), <<"stage", k>> \in todo PROVE FALSE
    <2>1. Precedes(<<do, i>>, <<"stage", k>>) BY <1>4 DEF Running
    <2> QED BY <2>1, <1>4 DEF Precedes, Phase
  <1>5. do = "stage" => disk = before BY DEF PatchInv, Pending, Running
  <1> QED BY <1>2, <1>3, <1>4, <1>5

-----------------------------------------------------------------------------
LEMMA IdleInv == Idle => PatchInv
  BY DEF Idle, PatchInv, PatchTypeOK, Pending, OnPaths, NoFiles

LEMMA ForgetInv == ASSUME PatchInv, NEW keep \in BOOLEAN, Forget(keep) PROVE PatchInv'
  BY DEF Forget, PatchInv, PatchTypeOK, Pending, OnPaths, NoFiles

(* Another diff, between two calls.                                        *)
LEMMA NewDiffInv ==
    ASSUME PatchInv, outcome = "none", NEW d \in Diffs, diff' = d,
           UNCHANGED <<disk, staged, before, todo, outcome, fault>>
    PROVE  PatchInv'
  <1>1. disk = before /\ todo = {} /\ fault = "none" BY DEF PatchInv, Pending
  <1>2. \A p \in Paths : staged[p] = NoFile
    BY DEF PatchInv, Pending, NoFiles
  <1> QED BY <1>1, <1>2 DEF PatchInv, PatchTypeOK, Pending, OnPaths

LEMMA PlanInv ==
    ASSUME PatchInv, NEW files \in Disks \cup {MadeFrom(diff)}, Plan(diff, files)
    PROVE  PatchInv'
  <1>1. OnPaths(files) BY PatchAssumption DEF OnPaths, MadeFrom
  <1>2. /\ diff' = diff /\ disk' = files /\ before' = files /\ staged' = NoFiles
        /\ fault' = "none"
    BY DEF Plan, PatchInv, Pending
  <1>3. \A p \in Paths : staged'[p] = NoFile BY <1>2 DEF NoFiles
  <1>4. CASE DryRun(diff, files)
    <2>1. outcome' = "running" /\ todo' = Commit(diff) BY <1>4 DEF Plan
    <2>2. PatchTypeOK' /\ Pending'
      BY <1>1, <1>2, <1>3, <1>4, <2>1 DEF PatchInv, PatchTypeOK, Pending, OnPaths, NoFiles
    <2>3. ASSUME NEW i \in 1..Len(diff) PROVE Target(diff[i]) \in Paths /\ EditAt(i)'
      <3>1. Target(diff[i]) \in Paths BY <1>4, DryRunEdit
      <3>2. CASE diff[i].new = Null
        <4>1. <<"unlink", i>> \in todo' /\ <<"rename", i>> \notin todo' /\ <<"stage", i>> \notin todo'
          BY <2>1, <3>2 DEF Commit, Writes
        <4> QED BY <1>2, <1>3, <3>1, <4>1 DEF EditAt
      <3>3. CASE diff[i].new # Null
        <4>1. <<"rename", i>> \in todo' /\ <<"stage", i>> \in todo'
          BY <2>1, <3>3 DEF Commit, Writes
        <4> QED BY <1>2, <1>3, <3>1, <4>1 DEF EditAt
      <3> QED BY <3>1, <3>2, <3>3
    <2>4. Progress' BY <1>2, <1>3, <2>3 DEF Progress
    <2> QED BY <1>2, <2>2, <2>4 DEF PatchInv
  <1>5. CASE ~DryRun(diff, files)
    <2>1. outcome' = "rejected" /\ todo' = {} BY <1>5 DEF Plan
    <2> QED BY <1>1, <1>2, <1>3, <2>1 DEF PatchInv, PatchTypeOK, Pending, OnPaths, NoFiles
  <1> QED BY <1>4, <1>5

-----------------------------------------------------------------------------
(* The commit, operation by operation.  An operation that succeeds moves   *)
(* the edit it is on, and where no path is edited twice no other.          *)
LEMMA DoneFacts ==
    ASSUME PatchInv, NEW i \in 1..Len(diff), NEW do \in {"stage", "rename", "unlink"},
           Done(do, i)
    PROVE  /\ outcome = "running" /\ DryRun(diff, before) /\ Target(diff[i]) \in Paths
           /\ UNCHANGED <<diff, before, outcome, fault>> /\ fault = "none"
           /\ Pending' <=> ((\E k \in 1..Len(diff) : <<"stage", k>> \in todo') => disk' = before)
           /\ \A k \in 1..Len(diff), op \in {"stage", "rename", "unlink"} :
                 <<op, k>> \in todo' <=> <<op, k>> \in todo /\ ~(op = do /\ k = i)
           /\ ~Repeated => \A k \in 1..Len(diff) : k # i => Target(diff[k]) # Target(diff[i])
           /\ Repeated' <=> Repeated
           /\ Updated(diff[i], before) \in Results(Target(diff[i]))
           /\ \A p : Results(p)' = Results(p)
  <1>1. Running(do, i) /\ todo' = todo \ {<<do, i>>} /\ UNCHANGED <<diff, before, outcome, fault>>
    BY DEF Done
  <1>2. outcome = "running" /\ DryRun(diff, before) /\ todo \subseteq Commit(diff) /\ fault = "none"
    BY <1>1 DEF Running, PatchInv, Pending
  <1>3. Target(diff[i]) \in Paths BY <1>1, DueOp
  <1>4. Pending' <=> ((\E k \in 1..Len(diff) : <<"stage", k>> \in todo') => disk' = before)
    BY <1>1, <1>2 DEF Pending
  <1>5. ASSUME ~Repeated, NEW k \in 1..Len(diff), k # i PROVE Target(diff[k]) # Target(diff[i])
    BY <1>5, DiffLength DEF Repeated, PatchInv, PatchTypeOK
  <1>6. Repeated' <=> Repeated BY <1>1 DEF Repeated
  <1>7. \A p : Results(p)' = Results(p) BY <1>1 DEF Results, EditsOf
  <1>8. Updated(diff[i], before) \in Results(Target(diff[i])) BY DEF Results, EditsOf
  <1>9. \A k \in 1..Len(diff), op \in {"stage", "rename", "unlink"} :
           <<op, k>> \in todo' <=> <<op, k>> \in todo /\ ~(op = do /\ k = i)
    BY <1>1
  <1> QED BY <1>1, <1>2, <1>3, <1>4, <1>5, <1>6, <1>7, <1>8, <1>9

LEMMA StageInv == ASSUME PatchInv, NEW i \in 1..Len(diff), StageFile(i) PROVE PatchInv'
  <1> DEFINE p == Target(diff[i])
  <1>1. Done("stage", i) /\ disk' = disk BY DEF StageFile
  <1>2. diff[i].new # Null /\ disk = before BY <1>1, DueOp DEF Done
  <1>3. p \in Paths BY <1>1, DoneFacts
  <1>4. /\ \A q \in Paths : staged'[q] = IF q = p THEN Updated(diff[i], before) ELSE staged[q]
        /\ OnPaths(staged')
    BY <1>3 DEF StageFile, OnPaths, PatchInv, PatchTypeOK
  <1>5. PatchTypeOK'
    BY <1>1, <1>3, <1>4, DoneFacts DEF PatchInv, PatchTypeOK, OnPaths
  <1>6. Pending' BY <1>1, <1>2, DoneFacts
  <1>7. ASSUME ~Repeated PROVE Progress'
    <2>1. Progress BY <1>1, <1>7, DoneFacts DEF PatchInv
    <2>2. ASSUME NEW k \in 1..Len(diff) PROVE Target(diff[k]) \in Paths /\ EditAt(k)'
      <3>1. Target(diff[k]) \in Paths /\ EditAt(k) BY <2>1 DEF Progress
      <3>2. UNCHANGED <<diff, before>> BY <1>1, DoneFacts
      <3>3. CASE k = i
        BY <1>1, <1>2, <1>4, <3>1, <3>2, <3>3, DoneFacts DEF EditAt, Done, Running
      <3>4. CASE k # i
        <4>1. Target(diff[k]) # p BY <1>1, <1>7, <3>4, DoneFacts
        <4>2. \A op \in {"stage", "rename", "unlink"} : <<op, k>> \in todo' <=> <<op, k>> \in todo
          BY <1>1, <3>4, DoneFacts
        <4> QED BY <1>1, <1>4, <3>1, <3>2, <4>1, <4>2 DEF EditAt
      <3> QED BY <3>1, <3>3, <3>4
    <2>3. ASSUME NEW q \in Paths, EditsOf(q)' = {} PROVE disk'[q] = before'[q] /\ staged'[q] = NoFile
      <3>1. EditsOf(q) = {} /\ before' = before BY <1>1, <2>3, DoneFacts DEF EditsOf
      <3>2. q # p BY <3>1 DEF EditsOf
      <3> QED BY <1>1, <1>4, <2>1, <3>1, <3>2 DEF Progress
    <2> QED BY <1>1, <2>2, <2>3, DoneFacts DEF Progress
  <1> QED BY <1>1, <1>5, <1>6, <1>7, DoneFacts DEF PatchInv

LEMMA RenameInv == ASSUME PatchInv, NEW i \in 1..Len(diff), RenameFile(i) PROVE PatchInv'
  <1> DEFINE p == Target(diff[i])
  <1>1. Done("rename", i) BY DEF RenameFile
  <1>2. diff[i].new # Null /\ \A k \in 1..Len(diff) : <<"stage", k>> \notin todo
    BY <1>1, DueOp DEF Done
  <1>3. p \in Paths BY <1>1, DoneFacts
  <1>4. /\ \A q \in Paths : staged'[q] = IF q = p THEN NoFile ELSE staged[q]
        /\ \A q \in Paths : disk'[q] = IF q = p THEN staged[p] ELSE disk[q]
        /\ OnPaths(staged') /\ OnPaths(disk')
    BY <1>3 DEF RenameFile, OnPaths, PatchInv, PatchTypeOK
  <1>5. staged[p] \in Results(p)
    <2>1. staged[p].there BY DEF RenameFile
    <2>2. staged[p] \in {NoFile} \cup Results(p) BY <1>3 DEF PatchInv, PatchTypeOK
    <2> QED BY <2>1, <2>2 DEF NoFile
  <1>6. PatchTypeOK'
    BY <1>1, <1>3, <1>4, <1>5, DoneFacts DEF PatchInv, PatchTypeOK, OnPaths
  <1>7. Pending' BY <1>1, <1>2, DoneFacts
  <1>8. ASSUME ~Repeated PROVE Progress'
    <2>1. Progress BY <1>1, <1>8, DoneFacts DEF PatchInv
    <2>2. ASSUME NEW k \in 1..Len(diff) PROVE Target(diff[k]) \in Paths /\ EditAt(k)'
      <3>1. Target(diff[k]) \in Paths /\ EditAt(k) BY <2>1 DEF Progress
      <3>2. UNCHANGED <<diff, before>> BY <1>1, DoneFacts
      <3>3. CASE k = i
        <4>1. <<"unlink", i>> \notin todo /\ <<"rename", i>> \in todo
          BY <1>1, <1>2 DEF Done, Running, PatchInv, Pending, Commit, Writes
        <4>2. \A op \in {"stage", "rename", "unlink"} : <<op, i>> \notin todo'
          BY <1>1, <1>2, <4>1, DoneFacts
        <4> QED BY <1>2, <1>4, <3>1, <3>2, <3>3, <4>1, <4>2 DEF EditAt
      <3>4. CASE k # i
        <4>1. Target(diff[k]) # p BY <1>1, <1>8, <3>4, DoneFacts
        <4>2. \A op \in {"stage", "rename", "unlink"} : <<op, k>> \in todo' <=> <<op, k>> \in todo
          BY <1>1, <3>4, DoneFacts
        <4> QED BY <1>4, <3>1, <3>2, <4>1, <4>2 DEF EditAt
      <3> QED BY <3>1, <3>3, <3>4
    <2>3. ASSUME NEW q \in Paths, EditsOf(q)' = {} PROVE disk'[q] = before'[q] /\ staged'[q] = NoFile
      <3>1. EditsOf(q) = {} /\ before' = before BY <1>1, <2>3, DoneFacts DEF EditsOf
      <3>2. q # p BY <3>1 DEF EditsOf
      <3> QED BY <1>4, <2>1, <3>1, <3>2 DEF Progress
    <2> QED BY <1>1, <2>2, <2>3, DoneFacts DEF Progress
  <1> QED BY <1>1, <1>6, <1>7, <1>8, DoneFacts DEF PatchInv

LEMMA UnlinkInv == ASSUME PatchInv, NEW i \in 1..Len(diff), UnlinkFile(i) PROVE PatchInv'
  <1> DEFINE p == Target(diff[i])
  <1>1. Done("unlink", i) /\ staged' = staged BY DEF UnlinkFile
  <1>2. diff[i].new = Null /\ \A k \in 1..Len(diff) : <<"stage", k>> \notin todo
    BY <1>1, DueOp DEF Done
  <1>3. p \in Paths BY <1>1, DoneFacts
  <1>4. /\ \A q \in Paths : disk'[q] = IF q = p THEN NoFile ELSE disk[q]
        /\ OnPaths(disk')
    BY <1>3 DEF UnlinkFile, OnPaths, PatchInv, PatchTypeOK
  <1>5. Updated(diff[i], before) = NoFile BY <1>2 DEF Updated
  <1>6. PatchTypeOK'
    BY <1>1, <1>3, <1>4, <1>5, DoneFacts DEF PatchInv, PatchTypeOK, OnPaths
  <1>7. Pending' BY <1>1, <1>2, DoneFacts
  <1>8. ASSUME ~Repeated PROVE Progress'
    <2>1. Progress BY <1>1, <1>8, DoneFacts DEF PatchInv
    <2>2. ASSUME NEW k \in 1..Len(diff) PROVE Target(diff[k]) \in Paths /\ EditAt(k)'
      <3>1. Target(diff[k]) \in Paths /\ EditAt(k) BY <2>1 DEF Progress
      <3>2. UNCHANGED <<diff, before>> BY <1>1, DoneFacts
      <3>3. CASE k = i
        <4>1. <<"rename", i>> \notin todo
          BY <1>1, <1>2 DEF Done, Running, PatchInv, Pending, Commit, Writes
        <4>2. \A op \in {"stage", "rename", "unlink"} : <<op, i>> \notin todo'
          BY <1>1, <1>2, <4>1, DoneFacts
        <4> QED BY <1>1, <1>3, <1>4, <1>5, <3>1, <3>2, <3>3, <4>1, <4>2 DEF EditAt
      <3>4. CASE k # i
        <4>1. Target(diff[k]) # p BY <1>1, <1>8, <3>4, DoneFacts
        <4>2. \A op \in {"stage", "rename", "unlink"} : <<op, k>> \in todo' <=> <<op, k>> \in todo
          BY <1>1, <3>4, DoneFacts
        <4> QED BY <1>1, <1>4, <3>1, <3>2, <4>1, <4>2 DEF EditAt
      <3> QED BY <3>1, <3>3, <3>4
    <2>3. ASSUME NEW q \in Paths, EditsOf(q)' = {} PROVE disk'[q] = before'[q] /\ staged'[q] = NoFile
      <3>1. EditsOf(q) = {} /\ before' = before BY <1>1, <2>3, DoneFacts DEF EditsOf
      <3>2. q # p BY <3>1 DEF EditsOf
      <3> QED BY <1>1, <1>4, <2>1, <3>1, <3>2 DEF Progress
    <2> QED BY <1>1, <2>2, <2>3, DoneFacts DEF Progress
  <1> QED BY <1>1, <1>6, <1>7, <1>8, DoneFacts DEF PatchInv

(* An operation that fails ends the call; where no path is edited twice,   *)
(* what a rename or a deletion is about to take is always there.           *)
LEMMA FailInv ==
    ASSUME PatchInv, NEW i \in 1..Len(diff), StageFails(i) \/ CommitFails(i) \/ FileIsGone(i)
    PROVE  PatchInv'
  <1> DEFINE p == Target(diff[i])
  <1>1. PICK do \in {"stage", "rename", "unlink"} : Running(do, i)
    BY DEF StageFails, CommitFails, FileIsGone
  <1>2. p \in Paths BY <1>1, DueOp
  <1>3. /\ UNCHANGED <<disk, diff, before>> /\ outcome' = "failed"
        /\ fault' \in {"stage", "commit", "gone"}
        /\ \A q : Results(q)' = Results(q)
        /\ Repeated' <=> Repeated
    BY DEF StageFails, CommitFails, FileIsGone, Fail, Results, EditsOf, Repeated
  <1>4. fault' = "stage" => disk = before
    BY DueOp DEF StageFails, CommitFails, FileIsGone, Fail
  <1>5. Pending' BY <1>3, <1>4 DEF Pending
  <1>6. OnPaths(staged') /\ \A q \in Paths : staged'[q] \in {NoFile, staged[q]}
    BY <1>2 DEF StageFails, CommitFails, FileIsGone, Fail, OnPaths, PatchInv, PatchTypeOK
  <1>7. PatchTypeOK' BY <1>3, <1>6 DEF PatchInv, PatchTypeOK, OnPaths
  <1>8. ASSUME fault' = "gone" PROVE Repeated
    <2> SUFFICES ASSUME ~Repeated PROVE FALSE OBVIOUS
    <2>1. FileIsGone(i) BY <1>8 DEF StageFails, CommitFails, FileIsGone, Fail
    <2>2. Progress /\ DryRun(diff, before)
      BY <1>1 DEF PatchInv, Running, Pending
    <2>3. EditAt(i) BY <2>2 DEF Progress
    <2>4. CASE Running("rename", i) /\ ~staged[p].there
      <3>1. diff[i].new # Null /\ <<"stage", i>> \notin todo /\ <<"rename", i>> \in todo
        BY <2>4, DueOp DEF Running
      <3> QED BY <2>2, <2>3, <2>4, <3>1, DryRunEdit DEF EditAt
    <2>5. CASE Running("unlink", i) /\ ~disk[p].there
      <3>1. diff[i].new = Null /\ <<"unlink", i>> \in todo BY <2>5, DueOp DEF Running
      <3> QED BY <2>2, <2>3, <2>5, <3>1, DryRunEdit DEF EditAt
    <2> QED BY <2>1, <2>4, <2>5 DEF FileIsGone
  <1> QED BY <1>3, <1>5, <1>7, <1>8 DEF PatchInv

LEMMA AppliedInv == ASSUME PatchInv, Applied PROVE PatchInv'
  <1>1. /\ UNCHANGED <<disk, staged, diff, before, todo, fault>>
        /\ outcome = "running" /\ outcome' = "ok" /\ todo = {}
    BY DEF Applied
  <1>2. \A p : Results(p)' = Results(p) BY <1>1 DEF Results, EditsOf
  <1>3. PatchTypeOK' BY <1>1, <1>2 DEF PatchInv, PatchTypeOK, OnPaths
  <1>4. Pending' BY <1>1 DEF PatchInv, Pending
  <1>5. Repeated' <=> Repeated BY <1>1 DEF Repeated
  <1>6. ~Repeated => Progress'
    BY <1>1 DEF PatchInv, Progress, EditAt, EditsOf
  <1> QED BY <1>1, <1>3, <1>4, <1>5, <1>6 DEF PatchInv

LEMMA ProceedInv == ASSUME PatchInv, Proceed PROVE PatchInv'
  BY StageInv, RenameInv, UnlinkInv, FailInv, AppliedInv DEF Proceed

(* The worker dies: a call under way stops where it is.                    *)
LEMMA KilledInv ==
    ASSUME PatchInv, UNCHANGED <<disk, staged, diff, before, todo, fault>>,
           outcome' = IF outcome = "none" THEN "none" ELSE "killed"
    PROVE  PatchInv'
  <1>1. \A p : Results(p)' = Results(p) BY DEF Results, EditsOf
  <1>2. PatchTypeOK' BY <1>1 DEF PatchInv, PatchTypeOK, OnPaths
  <1>3. Pending' BY DEF PatchInv, Pending
  <1>4. Repeated' <=> Repeated BY DEF Repeated
  <1> QED BY <1>2, <1>3, <1>4 DEF PatchInv

LEMMA PatchStutters == ASSUME PatchInv, UNCHANGED patchVars PROVE PatchInv'
  <1>1. UNCHANGED <<disk, staged, diff, before, todo, outcome, fault>> BY DEF patchVars
  <1>2. \A p : Results(p)' = Results(p) BY <1>1 DEF Results, EditsOf
  <1>3. PatchTypeOK' BY <1>1, <1>2 DEF PatchInv, PatchTypeOK, OnPaths
  <1>4. Pending' BY <1>1 DEF PatchInv, Pending
  <1>5. Repeated' <=> Repeated BY <1>1 DEF Repeated
  <1>6. Progress => Progress' BY <1>1 DEF Progress, EditAt, EditsOf
  <1> QED BY <1>1, <1>3, <1>4, <1>5, <1>6 DEF PatchInv

(* What the invariant says of a call that is over.                         *)
LEMMA PatchInvImplies == PatchInv => WholeOrNothing
  <1> SUFFICES ASSUME PatchInv PROVE WholeOrNothing OBVIOUS
  <1>1. ASSUME outcome = "ok", ~Repeated
        PROVE  disk = Whole /\ \A p \in Paths : ~staged[p].there
    <2>1. Progress /\ todo = {} BY <1>1 DEF PatchInv, Pending
    <2>2. ASSUME NEW p \in Paths PROVE disk[p] = Whole[p] /\ staged[p] = NoFile
      <3>1. CASE EditsOf(p) = {} BY <2>1, <3>1 DEF Progress, Whole
      <3>2. CASE EditsOf(p) # {}
        <4> DEFINE i == CHOOSE i \in EditsOf(p) : TRUE
        <4>1. i \in EditsOf(p) BY <3>2
        <4>2. i \in 1..Len(diff) /\ Target(diff[i]) = p BY <4>1 DEF EditsOf
        <4> HIDE DEF i
        <4>3. EditAt(i) BY <2>1, <4>2 DEF Progress
        <4>4. disk[p] = Updated(diff[i], before) /\ staged[p] = NoFile
          BY <2>1, <4>2, <4>3 DEF EditAt
        <4>5. Whole[p] = Updated(diff[i], before) BY <3>2 DEF Whole, i
        <4> QED BY <4>4, <4>5
      <3> QED BY <3>1, <3>2
    <2>3. disk = Whole BY <2>2 DEF Whole, PatchInv, PatchTypeOK, OnPaths
    <2> QED BY <2>2, <2>3 DEF NoFile
  <1>2. outcome \in {"rejected", "failed"} /\ fault \notin {"commit", "gone"} => disk = before
    BY DEF PatchInv, Pending
  <1> QED BY <1>1, <1>2 DEF WholeOrNothing, PatchInv, PatchTypeOK, Results

LEMMA PatchInvMeans == PatchInv => OkIsTheDiff
  <1> SUFFICES ASSUME PatchInv, outcome = "ok", ~Repeated, NEW m \in 1..Len(diff),
                      before[Target(diff[m])] = diff[m].from
               PROVE  disk[Target(diff[m])] = MeantFile(diff[m])
    BY DEF OkIsTheDiff, MeantFile
  <1>1. DryRun(diff, before) /\ todo = {} /\ Progress BY DEF PatchInv, Pending
  <1>2. disk[Target(diff[m])] = Updated(diff[m], before) BY <1>1 DEF Progress, EditAt
  <1>3. diff \in Diffs
    <2>1. diff # <<>> BY <1>1 DEF DryRun
    <2> QED BY <2>1 DEF PatchInv, PatchTypeOK
  <1>4. Updated(diff[m], before) = MeantFile(diff[m]) BY <1>1, <1>3, MeantIsMade
  <1> QED BY <1>2, <1>4

-----------------------------------------------------------------------------
(* The turn.  Which uses are answered while one is being run.              *)
AnsweredSoFar ==
    IF step \in {"dispatch", "patching"}
    THEN N > 0 /\ payload # N /\ Answered = (1..(N - 1)) \ {payload}
    ELSE /\ Answered = (1..N) \ {payload}
         /\ step \in {"post", "memory"} => N > 0

(* What the answers and texts are made of.                                 *)
Answers == [use : Nat, ok : BOOLEAN]
Blocks == [use : Nat, what : Memories \cup {"pre", "post"}]
BlocksOK == answers \in Seq(Answers) /\ texts \in Seq(Blocks)

(* The first valid report is remembered, and no objection was raised to    *)
(* the use that is about to run.                                           *)
ReportsSeen ==
    /\ payload # 0 => terminalSeen
    /\ ~terminalSeen => \A i \in 1..N : uses[i] # "report"
    /\ step = "dispatch" => N \notin objected

(* Between turns nothing of one is left; before the Thread has begun it    *)
(* shows nothing, and a worker that starts believes nothing yet.           *)
BetweenTurns ==
    /\ step \in {"starting", "calling", "over", "dead"} => NewTurn
    /\ step \in {"starting", "dead"} => lost = {}
    /\ ~begun => step \in {"starting", "dead"} /\ \A d \in Memories : shown[d] = 0

TurnInv == /\ TypeOK /\ AnsweredSoFar /\ BlocksOK /\ ReportsSeen /\ BetweenTurns
           /\ AnsweredInOrder /\ ObjectionsHold /\ MemoryShownOnce
IInv == PatchInv /\ TurnInv

-----------------------------------------------------------------------------
LEMMA TotalType ==
    ASSUME NEW amounts, Len(amounts) \in Nat, NEW most \in Nat
    PROVE  Total(amounts, most) \in Nat
  <1>1. IsFiniteSet(1..Len(amounts)) /\ IsFiniteSet(1..most) BY FS_Interval
  <1>2. IsFiniteSet((1..Len(amounts)) \X (1..most)) BY <1>1, FS_Product
  <1> QED BY <1>2, FS_Subset, FS_CardinalityType DEF Total

LEMMA ShowsType ==
    ASSUME NEW d, Len(texts) \in Nat
    PROVE  /\ IsFiniteSet({i \in 1..Len(texts) : texts[i].what = d})
           /\ Shows(d) \in Nat
  <1>1. IsFiniteSet(1..Len(texts)) BY FS_Interval
  <1> QED BY <1>1, FS_Subset, FS_CardinalityType DEF Shows

(* Texts that do not show a Memory, and texts that show it once.           *)
LEMMA ShowsSame ==
    ASSUME texts \in Seq(Blocks), NEW s \in Seq(Blocks), texts' = texts \o s,
           NEW d, \A i \in 1..Len(s) : s[i].what # d
    PROVE  Shows(d)' = Shows(d)
  <1>1. \A i \in 1..Len(texts') : IF i <= Len(texts) THEN texts'[i] = texts[i]
                                 ELSE i - Len(texts) \in 1..Len(s) /\ texts'[i] = s[i - Len(texts)]
    OBVIOUS
  <1>2. Len(texts') = Len(texts) + Len(s) /\ Len(texts) \in Nat /\ Len(s) \in Nat OBVIOUS
  <1>3. {i \in 1..Len(texts') : texts'[i].what = d} = {i \in 1..Len(texts) : texts[i].what = d}
    BY <1>1, <1>2
  <1> QED BY <1>3 DEF Shows

LEMMA ShowsOneMore ==
    ASSUME texts \in Seq(Blocks), NEW s \in Seq(Blocks), texts' = texts \o s,
           NEW d, NEW j \in 1..Len(s), s[j].what = d,
           \A i \in 1..Len(s) : s[i].what = d => i = j
    PROVE  Shows(d)' = Shows(d) + 1
  <1> DEFINE at == {i \in 1..Len(texts) : texts[i].what = d}
  <1>1. \A i \in 1..Len(texts') : IF i <= Len(texts) THEN texts'[i] = texts[i]
                                 ELSE i - Len(texts) \in 1..Len(s) /\ texts'[i] = s[i - Len(texts)]
    OBVIOUS
  <1>2. Len(texts') = Len(texts) + Len(s) /\ Len(texts) \in Nat /\ Len(s) \in Nat OBVIOUS
  <1>3. {i \in 1..Len(texts') : texts'[i].what = d} = at \cup {Len(texts) + j}
    <2>1. ASSUME NEW i \in 1..Len(texts')
          PROVE  texts'[i].what = d <=> i \in at \/ i = Len(texts) + j
      <3>1. CASE i <= Len(texts) BY <1>1, <1>2, <3>1
      <3>2. CASE ~(i <= Len(texts))
        <4>1. i - Len(texts) \in 1..Len(s) /\ texts'[i] = s[i - Len(texts)] BY <1>1, <3>2
        <4>2. i - Len(texts) = j <=> i = Len(texts) + j BY <1>2
        <4>3. i \notin at BY <1>2, <3>2
        <4> QED BY <4>1, <4>2, <4>3
      <3> QED BY <3>1, <3>2
    <2>2. at \subseteq 1..Len(texts') /\ Len(texts) + j \in 1..Len(texts') BY <1>2
    <2> QED BY <2>1, <2>2
  <1>4. IsFiniteSet(at) BY <1>2, ShowsType
  <1>5. Len(texts) + j \notin at BY <1>2
  <1>6. Cardinality(at \cup {Len(texts) + j}) = Cardinality(at) + 1
    <2> HIDE DEF at
    <2> QED BY <1>4, <1>5, FS_AddElement
  <1> QED BY <1>3, <1>6 DEF Shows

(* One answer more, to a use after those that are answered.                *)
LEMMA OneMoreAnswer ==
    ASSUME NEW u \in Nat, NEW ok \in BOOLEAN, BlocksOK,
           answers' = Append(answers, [use |-> u, ok |-> ok]),
           \A i \in 1..Len(answers) : answers[i].use < u,
           \A i, k \in 1..Len(answers) : i < k => answers[i].use < answers[k].use
    PROVE  /\ answers' \in Seq(Answers)
           /\ Answered' = Answered \cup {u}
           /\ \A i, k \in 1..Len(answers') : i < k => answers'[i].use < answers'[k].use
  <1>0. answers \in Seq(Answers) /\ [use |-> u, ok |-> ok] \in Answers BY DEF BlocksOK, Answers
  <1>1. /\ answers' \in Seq(Answers) /\ Len(answers) \in Nat
        /\ Len(answers') = Len(answers) + 1
        /\ \A i \in 1..Len(answers) : answers'[i] = answers[i]
        /\ answers'[Len(answers) + 1] = [use |-> u, ok |-> ok]
    BY <1>0
  <1>2. \A i \in 1..Len(answers') : i \in 1..Len(answers) \/ i = Len(answers) + 1
    BY <1>1
  <1>3. Answered' = Answered \cup {u} BY <1>1, <1>2 DEF Answered
  <1>4. \A i, k \in 1..Len(answers') : i < k => answers'[i].use < answers'[k].use
    BY <1>1, <1>2
  <1> QED BY <1>1, <1>3, <1>4

(* More texts, of the use at hand.                                         *)
LEMMA MoreTexts ==
    ASSUME BlocksOK, N \in Nat, N > 0, NEW s \in Seq(Blocks),
           \A i \in 1..Len(s) : s[i].use = N,
           texts' = texts \o s,
           \A i \in 1..Len(texts) : texts[i].use \in 1..N,
           \A i, k \in 1..Len(texts) : i < k => texts[i].use <= texts[k].use
    PROVE  /\ texts' \in Seq(Blocks)
           /\ \A i \in 1..Len(texts') : texts'[i].use \in 1..N
           /\ \A i, k \in 1..Len(texts') : i < k => texts'[i].use <= texts'[k].use
  <1>0. texts \in Seq(Blocks) BY DEF BlocksOK
  <1>1. \A i \in 1..Len(texts') : IF i <= Len(texts) THEN texts'[i] = texts[i]
                                 ELSE i - Len(texts) \in 1..Len(s) /\ texts'[i] = s[i - Len(texts)]
    BY <1>0
  <1>2. Len(texts') = Len(texts) + Len(s) /\ Len(texts) \in Nat /\ Len(s) \in Nat BY <1>0
  <1>3. \A i \in 1..Len(texts') : IF i <= Len(texts) THEN texts'[i].use = texts[i].use
                                                     ELSE texts'[i].use = N
    BY <1>1
  <1>4. ASSUME NEW i \in 1..Len(texts') PROVE texts'[i].use \in 1..N
    <2>1. CASE i <= Len(texts) BY <1>2, <1>3, <2>1
    <2>2. CASE ~(i <= Len(texts)) BY <1>2, <1>3, <2>2
    <2> QED BY <2>1, <2>2
  <1>5. ASSUME NEW i \in 1..Len(texts'), NEW k \in 1..Len(texts'), i < k
        PROVE  texts'[i].use <= texts'[k].use
    <2>1. CASE k <= Len(texts) BY <1>2, <1>3, <1>5, <2>1
    <2>2. CASE ~(k <= Len(texts)) BY <1>2, <1>3, <1>4, <2>2
    <2> QED BY <2>1, <2>2
  <1> QED BY <1>0, <1>4, <1>5

(* The texts of an event.                                                  *)
LEMMA TextsOfEvent ==
    ASSUME N \in Nat, NEW n \in Nat, NEW what \in {"pre", "post"}
    PROVE  /\ Texts(n, what) \in Seq(Blocks)
           /\ \A i \in 1..Len(Texts(n, what)) :
                 Texts(n, what)[i].use = N /\ Texts(n, what)[i].what = what
  <1>1. [use |-> N, what |-> what] \in Blocks BY DEF Blocks
  <1>2. /\ Texts(n, what) \in Seq(Blocks)
        /\ \A i \in 1..Len(Texts(n, what)) : Texts(n, what)[i] = [use |-> N, what |-> what]
    BY <1>1 DEF Texts
  <1> QED BY <1>2

(* What is believed and what is shown, where neither changes.              *)
LEMMA MemoryKept ==
    ASSUME MemoryShownOnce, UNCHANGED <<shown, injected, lost>>,
           step \notin {"starting", "dead"},
           \A d \in Memories : Shows(d)' = Shows(d)
    PROVE  MemoryShownOnce'
  BY DEF MemoryShownOnce, MemoryOnce, InjectedIsShown

USE DEF N

LEMMA TypesOfATurn ==
    ASSUME TurnInv
    PROVE  /\ N \in Nat /\ Len(answers) \in Nat /\ Len(texts) \in Nat
           /\ texts \in Seq(Blocks) /\ MaxUses \in Nat /\ 0 \notin objected
  BY TurnAssumption DEF TurnInv, TypeOK, BlocksOK

(* The worker starts, and is told what the Thread shows.                   *)
LEMMA SeedInv == ASSUME IInv, Seed PROVE TurnInv'
  <1> USE DEF IInv, TurnInv, Seed
  <1>1. NewTurn /\ lost = {} BY DEF BetweenTurns
  <1>2. UNCHANGED <<uses, answers, texts, payload, terminalSeen, objected, ran, touched, asides,
                    write, stopActive, turns, crashes, lost, outcome>>
    BY DEF inTurn, atUse, patchVars
  <1>3. /\ \A d : Shows(d) = 0 /\ Shows(d)' = 0
        /\ Root \in Memories
    <2>1. texts = <<>> /\ texts' = <<>> BY <1>1, <1>2 DEF NewTurn
    <2>2. \A d : {i \in 1..Len(texts) : texts[i].what = d} = {} BY <2>1
    <2>3. \A d : {i \in 1..Len(texts') : texts'[i].what = d} = {} BY <2>1
    <2> QED BY <2>2, <2>3, FS_EmptySet DEF Shows, Memories
  <1>4. shown' \in [Memories -> Nat] BY <1>3 DEF TypeOK
  <1>5. injected' \subseteq Memories BY <1>3 DEF Replayed
  <1>6. TypeOK' BY <1>2, <1>4, <1>5 DEF TypeOK
  <1>7. AnsweredSoFar' /\ BlocksOK' /\ ReportsSeen' /\ AnsweredInOrder' /\ ObjectionsHold'
    BY <1>2 DEF AnsweredSoFar, BlocksOK, ReportsSeen, AnsweredInOrder, ObjectionsHold, Answered
  <1>8. BetweenTurns' BY <1>1, <1>2 DEF BetweenTurns, NewTurn
  <1>9. MemoryShownOnce'
    <2>1. CASE begun
      BY <1>1, <1>2, <1>3, <2>1 DEF MemoryShownOnce, MemoryOnce, InjectedIsShown, Replayed, TypeOK
    <2>2. CASE ~begun
      <3>1. \A d \in Memories : shown'[d] = IF d = Root THEN 1 ELSE 0
        BY <2>2 DEF TypeOK, BetweenTurns
      <3> QED BY <1>1, <1>2, <1>3, <2>2, <3>1 DEF MemoryShownOnce, MemoryOnce, InjectedIsShown
    <2> QED BY <2>1, <2>2
  <1> QED BY <1>6, <1>7, <1>8, <1>9

LEMMA ReceiveInv == ASSUME IInv, Turn PROVE TurnInv'
  <1> USE DEF IInv, TurnInv, Turn
  <1>1. UNCHANGED <<uses, answers, texts, payload, terminalSeen, objected, ran, touched, asides,
                    write, begun, stopActive, shown, crashes, injected, lost, outcome>>
    BY DEF inTurn, atUse, patchVars, memory
  <1>2. TypeOK' BY <1>1, TurnAssumption DEF TypeOK
  <1>3. AnsweredSoFar' /\ BlocksOK' /\ ReportsSeen' /\ AnsweredInOrder' /\ ObjectionsHold'
    BY <1>1 DEF AnsweredSoFar, BlocksOK, ReportsSeen, AnsweredInOrder, ObjectionsHold, Answered
  <1>4. BetweenTurns' BY <1>1 DEF BetweenTurns, NewTurn
  <1>5. MemoryShownOnce' BY <1>1, MemoryKept DEF Shows
  <1> QED BY <1>2, <1>3, <1>4, <1>5

(* A turn is left behind: its uses are gone, and Memory agrees.            *)
LEMMA ClearTurnInv ==
    ASSUME ClearTurn
    PROVE  /\ AnsweredSoFar' \/ step' \in {"dispatch", "patching", "post", "memory"}
           /\ BlocksOK' /\ AnsweredInOrder' /\ ObjectionsHold' /\ NewTurn'
           /\ \A d : Shows(d)' = 0
  <1> USE DEF ClearTurn
  <1>1. Answered' = {} /\ 1..0 = {} BY DEF Answered
  <1>2. \A d : {i \in 1..Len(texts') : texts'[i].what = d} = {} OBVIOUS
  <1>3. \A d : Shows(d)' = 0 BY <1>2, FS_EmptySet DEF Shows
  <1>4. BlocksOK' BY DEF BlocksOK
  <1> QED BY <1>1, <1>3, <1>4 DEF AnsweredSoFar, AnsweredInOrder, ObjectionsHold, NewTurn

LEMMA EndTurnInv == ASSUME IInv, EndTurn PROVE TurnInv'
  <1> USE DEF IInv, TurnInv, EndTurn
  <1>1. UNCHANGED <<write, begun, turns, crashes, injected, lost, outcome>>
    BY DEF memory, patchVars
  <1>2. \A d : Shows(d) \in Nat BY TypesOfATurn, ShowsType
  <1>3. \A d \in Memories : shown'[d] = shown[d] + Shows(d) OBVIOUS
  <1>4. shown' \in [Memories -> Nat] BY <1>2 DEF TypeOK
  <1>5. /\ uses' = <<>> /\ answers' = <<>> /\ texts' = <<>> /\ payload' = 0
        /\ terminalSeen' = FALSE /\ objected' = {} /\ ran' = {} /\ touched' = {} /\ asides' = 0
    BY DEF ClearTurn
  <1>6. TypeOK'
    <2>1. {write', begun', terminalSeen', stopActive'} \subseteq BOOLEAN
      <3>1. stopActive' \in BOOLEAN OBVIOUS
      <3> QED BY <1>1, <1>5, <3>1 DEF TypeOK
    <2>2. step \notin {"patching", "dead"} /\ step' \in {"over", "calling"} OBVIOUS
    <2>3. uses' \in Seq(Tools) /\ Len(uses') <= MaxUses BY <1>5, TurnAssumption
    <2> QED BY <1>1, <1>4, <1>5, <2>1, <2>2, <2>3 DEF TypeOK
  <1>7. AnsweredSoFar' /\ BlocksOK' /\ AnsweredInOrder' /\ ObjectionsHold' /\ NewTurn'
    BY ClearTurnInv
  <1>8. ReportsSeen' BY <1>5 DEF ReportsSeen
  <1>9. BetweenTurns' BY <1>1, <1>7 DEF BetweenTurns
  <1>10. MemoryShownOnce'
    BY <1>1, <1>2, <1>3, <1>4, ClearTurnInv DEF MemoryShownOnce, MemoryOnce, InjectedIsShown, TypeOK
  <1> QED BY <1>6, <1>7, <1>8, <1>9, <1>10

LEMMA CrashInv == ASSUME IInv, Crash PROVE TurnInv'
  <1> USE DEF IInv, TurnInv, Crash
  <1>1. UNCHANGED <<write, begun, turns, shown>> OBVIOUS
  <1>2. /\ uses' = <<>> /\ answers' = <<>> /\ texts' = <<>> /\ payload' = 0
        /\ terminalSeen' = FALSE /\ objected' = {} /\ ran' = {} /\ touched' = {} /\ asides' = 0
    BY DEF ClearTurn
  <1>3. TypeOK'
    <2>1. {write', begun', terminalSeen', stopActive'} \subseteq BOOLEAN
      BY <1>1, <1>2 DEF TypeOK
    <2>2. crashes' \in 0..MaxCrashes BY TurnAssumption DEF TypeOK
    <2>3. uses' \in Seq(Tools) /\ Len(uses') <= MaxUses BY <1>2, TurnAssumption
    <2>4. outcome' # "none" <=> (step' = "patching" \/ (step' = "dead" /\ outcome' = "killed"))
      OBVIOUS
    <2> QED BY <1>1, <1>2, <2>1, <2>2, <2>3, <2>4 DEF TypeOK
  <1>4. AnsweredSoFar' /\ BlocksOK' /\ AnsweredInOrder' /\ ObjectionsHold' /\ NewTurn'
    BY ClearTurnInv
  <1>5. ReportsSeen' BY <1>2 DEF ReportsSeen
  <1>6. BetweenTurns' BY <1>1, <1>4 DEF BetweenTurns
  <1>7. \A d : Shows(d) \in Nat BY TypesOfATurn, ShowsType
  <1>8. MemoryShownOnce'
    BY <1>1, <1>7, ClearTurnInv DEF MemoryShownOnce, MemoryOnce, InjectedIsShown, TypeOK
  <1> QED BY <1>3, <1>4, <1>5, <1>6, <1>8

LEMMA RelaunchInv == ASSUME IInv, Relaunch PROVE TurnInv'
  <1> USE DEF IInv, TurnInv, Relaunch
  <1>1. UNCHANGED <<uses, answers, texts, payload, terminalSeen, objected, ran, touched, asides,
                    write, begun, stopActive, shown, turns, crashes, injected, lost>>
    BY DEF inTurn, atUse, job, memory
  <1>2. outcome' = "none" BY DEF Forget
  <1>3. TypeOK' BY <1>1, <1>2 DEF TypeOK
  <1>4. AnsweredSoFar' /\ BlocksOK' /\ ReportsSeen' /\ AnsweredInOrder' /\ ObjectionsHold'
    BY <1>1 DEF AnsweredSoFar, BlocksOK, ReportsSeen, AnsweredInOrder, ObjectionsHold, Answered
  <1>5. BetweenTurns' BY <1>1 DEF BetweenTurns, NewTurn
  <1>6. MemoryShownOnce'
    BY <1>1 DEF MemoryShownOnce, MemoryOnce, InjectedIsShown, Shows
  <1> QED BY <1>3, <1>4, <1>5, <1>6

-----------------------------------------------------------------------------
(* The next use.                                                           *)
LEMMA NextUse ==
    ASSUME TurnInv, NEW tool \in Tools, Use(tool)
    PROVE  /\ step = "next" /\ N \in Nat /\ N + 1 \in Nat /\ N + 1 <= MaxUses
           /\ uses' \in Seq(Tools) /\ Len(uses') = N + 1 /\ uses'[N + 1] = tool
           /\ \A i \in 1..N : uses'[i] = uses[i]
           /\ Answered = (1..N) \ {payload}
           /\ payload \in 0..N /\ objected \cup ran \subseteq 1..N
  BY TypesOfATurn DEF Use, TurnInv, TypeOK, AnsweredSoFar

(* What every use of a turn leaves alone.                                  *)
LEMMA UseKeeps ==
    ASSUME TurnInv, NEW tool \in Tools, Use(tool),
           step' \in {"next", "dispatch"}, UNCHANGED <<texts, job, memory, outcome>>
    PROVE  /\ UNCHANGED <<write, begun, stopActive, shown, turns, crashes, injected, lost>>
           /\ begun /\ outcome = "none"
           /\ BetweenTurns' /\ MemoryShownOnce'
           /\ \A i \in 1..Len(texts') : texts'[i].use \in 1..(N + 1)
           /\ texts' \in Seq(Blocks)
           /\ \A i, k \in 1..Len(texts') : i < k => texts'[i].use <= texts'[k].use
  <1>1. UNCHANGED <<write, begun, stopActive, shown, turns, crashes, injected, lost>>
    BY DEF job, memory
  <1>2. step = "next" BY NextUse
  <1>3. begun BY <1>2 DEF TurnInv, BetweenTurns
  <1>4. BetweenTurns' BY <1>1, <1>3 DEF BetweenTurns
  <1>5. MemoryShownOnce' BY <1>1, <1>2, MemoryKept DEF Shows, TurnInv
  <1>6. outcome = "none" BY <1>2 DEF TurnInv, TypeOK
  <1>7. \A i \in 1..Len(texts') : texts'[i].use \in 1..(N + 1)
    BY NextUse DEF TurnInv, TypeOK
  <1> QED BY <1>1, <1>3, <1>4, <1>5, <1>6, <1>7 DEF TurnInv, BlocksOK, AnsweredInOrder

(* A use that is answered with an error and not run.                       *)
LEMMA RefusedUse ==
    ASSUME TurnInv, NEW tool \in Tools, Use(tool), Refuse, step' = "next",
           UNCHANGED <<texts, payload, ran, asides, job, memory, outcome>>,
           touched' \subseteq Memories,
           objected' \in {objected, objected \cup {N + 1}},
           terminalSeen' \in BOOLEAN, terminalSeen => terminalSeen',
           ~terminalSeen' => tool # "report"
    PROVE  TurnInv'
  <1>1. \A i \in 1..Len(answers) : answers[i].use < N + 1 /\ answers[i].use \in 1..N
    BY NextUse DEF TurnInv, TypeOK
  <1>2. answers' = Append(answers, [use |-> N + 1, ok |-> FALSE])
    BY NextUse DEF Refuse, Answer
  <1>3. /\ answers' \in Seq(Answers)
        /\ Answered' = Answered \cup {N + 1}
        /\ \A i, k \in 1..Len(answers') : i < k => answers'[i].use < answers'[k].use
    BY <1>1, <1>2, NextUse, OneMoreAnswer DEF TurnInv, AnsweredInOrder
  <1>4. Answered' = (1..(N + 1)) \ {payload} BY <1>3, NextUse
  <1>5. TypeOK'
    <2>1. {write', begun', terminalSeen', stopActive'} \subseteq BOOLEAN
      BY UseKeeps DEF TurnInv, TypeOK
    <2>2. ASSUME NEW i \in 1..Len(answers') PROVE answers'[i] \in [use : 1..(N + 1), ok : BOOLEAN]
      <3>1. answers'[i].use \in Answered' BY DEF Answered
      <3>2. answers'[i] \in Answers BY <1>3
      <3> QED BY <1>4, <3>1, <3>2 DEF Answers
    <2>3. payload' \in 0..(N + 1) /\ objected' \cup ran' \subseteq 1..(N + 1) BY NextUse
    <2>4. touched' \cup injected' \cup lost' \subseteq Memories
      BY UseKeeps DEF TurnInv, TypeOK
    <2> QED BY <2>1, <2>2, <2>3, <2>4, NextUse, UseKeeps DEF TurnInv, TypeOK
  <1>6. AnsweredSoFar' BY <1>4, NextUse DEF AnsweredSoFar
  <1>7. BlocksOK' BY <1>3, UseKeeps DEF BlocksOK
  <1>8. ReportsSeen'
    BY NextUse DEF TurnInv, ReportsSeen
  <1>9. AnsweredInOrder' BY <1>3, <1>4, NextUse, UseKeeps DEF AnsweredInOrder
  <1>10. ObjectionsHold' BY NextUse DEF TurnInv, ObjectionsHold
  <1> QED BY <1>5, <1>6, <1>7, <1>8, <1>9, <1>10, UseKeeps DEF TurnInv

(* A use whose answer is still to come, or never does.                     *)
LEMMA UnansweredUse ==
    ASSUME TurnInv, NEW tool \in Tools, Use(tool),
           UNCHANGED <<answers, texts, ran, objected, job, memory, outcome>>,
           touched' \subseteq Memories, asides' \in Nat,
           \/ /\ step' = "dispatch" /\ tool # "report"
              /\ UNCHANGED <<payload, terminalSeen>>
           \/ /\ step' = "next" /\ ~terminalSeen
              /\ payload' = N + 1 /\ terminalSeen' = TRUE
    PROVE  TurnInv'
  <1>1. TypeOK'
    <2>1. {write', begun', terminalSeen', stopActive'} \subseteq BOOLEAN
      <3>1. terminalSeen' \in BOOLEAN BY DEF TurnInv, TypeOK
      <3> QED BY <3>1, UseKeeps DEF TurnInv, TypeOK
    <2>2. ASSUME NEW i \in 1..Len(answers') PROVE answers'[i] \in [use : 1..(N + 1), ok : BOOLEAN]
      <3>1. answers[i] \in [use : 1..N, ok : BOOLEAN] BY DEF TurnInv, TypeOK
      <3> QED BY <3>1, NextUse
    <2>3. payload' \in 0..(N + 1) /\ objected' \cup ran' \subseteq 1..(N + 1) BY NextUse
    <2>4. touched' \cup injected' \cup lost' \subseteq Memories
      BY UseKeeps DEF TurnInv, TypeOK
    <2> QED BY <2>1, <2>2, <2>3, <2>4, NextUse, UseKeeps DEF TurnInv, TypeOK
  <1>2. Answered' = Answered BY DEF Answered
  <1>3. AnsweredSoFar'
    <2>1. CASE step' = "dispatch" BY <1>2, <2>1, NextUse DEF AnsweredSoFar
    <2>2. CASE step' = "next"
      <3>1. payload = 0 BY <2>2 DEF TurnInv, ReportsSeen
      <3> QED BY <1>2, <2>2, <3>1, NextUse DEF AnsweredSoFar
    <2> QED BY <2>1, <2>2
  <1>4. BlocksOK' BY UseKeeps DEF TurnInv, BlocksOK
  <1>5. ReportsSeen' BY NextUse DEF TurnInv, ReportsSeen
  <1>6. AnsweredInOrder'
    BY <1>3, NextUse, UseKeeps DEF TurnInv, AnsweredInOrder, AnsweredSoFar
  <1>7. ObjectionsHold' BY NextUse DEF TurnInv, ObjectionsHold, ReportsSeen
  <1> QED BY <1>1, <1>3, <1>4, <1>5, <1>6, <1>7, UseKeeps DEF TurnInv

LEMMA RefuseReportInv ==
    ASSUME IInv, NEW tool \in Tools, RefuseReport(tool) PROVE TurnInv'
  <1>1. TurnInv /\ Use(tool) /\ Refuse /\ step = "next" BY DEF IInv, RefuseReport, Use
  <1>2. /\ UNCHANGED <<step, texts, payload, terminalSeen, objected, ran, touched, asides, job, memory, outcome>>
        /\ tool = "report" => terminalSeen
    BY DEF RefuseReport, atUse, patchVars
  <1>3. terminalSeen \in BOOLEAN /\ touched \subseteq Memories BY <1>1 DEF TurnInv, TypeOK
  <1> QED BY <1>1, <1>2, <1>3, RefusedUse

LEMMA ReportInv == ASSUME IInv, NEW blocked, Report(blocked) PROVE TurnInv'
  <1>1. TurnInv /\ Use("report") /\ step = "next" /\ "report" \in Tools
    BY DEF IInv, Report, Use, Tools
  <1>2. /\ UNCHANGED <<step, texts, ran, touched, asides, job, memory, outcome>>
        /\ ~terminalSeen /\ terminalSeen' = TRUE
    BY DEF Report, atUse, patchVars
  <1>3. touched \subseteq Memories /\ asides \in Nat BY <1>1 DEF TurnInv, TypeOK
  <1>4. CASE blocked
    <2>1. Refuse /\ objected' = objected \cup {N + 1} /\ payload' = payload BY <1>4 DEF Report
    <2> QED BY <1>1, <1>2, <1>3, <2>1, RefusedUse
  <1>5. CASE ~blocked
    <2>1. payload' = N + 1 /\ UNCHANGED <<answers, objected>> BY <1>5 DEF Report
    <2> QED BY <1>1, <1>2, <1>3, <2>1, UnansweredUse
  <1> QED BY <1>4, <1>5

(* The verdict of PreToolUse.                                              *)
LEMMA JudgeInv ==
    ASSUME TurnInv, NEW tool \in Tools \ {"report"}, Use(tool),
           NEW events, Len(events) \in Nat, Judge(events),
           touched' \subseteq Memories, outcome' = outcome
    PROVE  TurnInv'
  <1>1. /\ UNCHANGED <<texts, payload, terminalSeen, ran, job, memory>>
        /\ objected' \in {objected, objected \cup {N + 1}}
    BY DEF Judge
  <1>2. terminalSeen \in BOOLEAN /\ asides \in Nat BY DEF TurnInv, TypeOK
  <1>3. CASE Veto(events)
    <2>1. Refuse /\ step' = "next" /\ asides' = asides BY <1>3 DEF Judge
    <2> QED BY <1>1, <1>2, <2>1, RefusedUse
  <1>4. CASE ~Veto(events)
    <2>1. step' = "dispatch" /\ UNCHANGED <<answers, objected>> BY <1>4 DEF Judge, Veto
    <2>2. asides' = Total([i \in 1..Len(events) |-> events[i].contexts], PreHooks)
      BY <1>4 DEF Judge
    <2>3. Len([i \in 1..Len(events) |-> events[i].contexts]) \in Nat OBVIOUS
    <2>4. asides' \in Nat BY <2>2, <2>3, TotalType, TurnAssumption
    <2> QED BY <1>1, <2>1, <2>4, UnansweredUse
  <1> QED BY <1>3, <1>4

LEMMA PreToolInv ==
    ASSUME IInv, NEW tool \in Tools, NEW dirs \in Touches, NEW event \in PreEvents,
           PreTool(tool, dirs, event)
    PROVE  TurnInv'
  <1>1. /\ TurnInv /\ Use(tool) /\ tool # "report" /\ Judge(<<event>>)
        /\ touched' \in {dirs, {}} /\ outcome' = outcome
    BY DEF IInv, PreTool, patchVars
  <1>2. touched' \subseteq Memories BY <1>1, TurnAssumption DEF Memories
  <1>3. Len(<<event>>) \in Nat OBVIOUS
  <1> QED BY <1>1, <1>2, <1>3, JudgeInv

LEMMA PrePatchInv ==
    ASSUME IInv, NEW d \in Diffs, NEW events \in [1..Len(Files(d)) -> PreEvents],
           PrePatch(d, events)
    PROVE  IInv'
  <1>1. TurnInv /\ PatchInv /\ Use("patch") /\ Judge(events) /\ "patch" \in Tools \ {"report"}
    BY DEF IInv, PrePatch, Tools
  <1>2. outcome = "none" /\ step = "next" BY <1>1, NextUse DEF TurnInv, TypeOK
  <1>3. Len(events) \in Nat
    <2>1. Len(Files(d)) \in Nat BY PatchAssumption DEF Files
    <2> QED BY <2>1
  <1>4. touched \subseteq Memories BY <1>1 DEF TurnInv, TypeOK
  <1>5. UNION {DirOf[p] : p \in Paths \cap {Target(e) : e \in Range(Files(d))}} \subseteq Memories
    BY TurnAssumption DEF Memories
  <1>6. touched' \subseteq Memories /\ outcome' = outcome
    BY <1>4, <1>5 DEF PrePatch, patchVars
  <1>7. TurnInv' BY <1>1, <1>3, <1>6, JudgeInv
  <1>8. PatchInv'
    <2>1. CASE step' = "dispatch"
      <3>1. diff' = d /\ UNCHANGED <<disk, staged, before, todo, outcome, fault>>
        BY <1>6, <2>1 DEF PrePatch
      <3> QED BY <1>1, <1>2, <3>1, NewDiffInv
    <2>2. CASE step' # "dispatch"
      BY <1>1, <2>2, PatchStutters DEF PrePatch
    <2> QED BY <2>1, <2>2
  <1> QED BY <1>7, <1>8 DEF IInv

-----------------------------------------------------------------------------
(* The answer of a use that was run, or could not be.                      *)
LEMMA ResultInv ==
    ASSUME TurnInv, step \in {"dispatch", "patching"}, NEW ok \in BOOLEAN, Result(ok),
           ran' = ran \/ (step = "dispatch" /\ ran' = ran \cup {N}),
           outcome' = "none"
    PROVE  TurnInv'
  <1>1. /\ N \in Nat /\ N > 0 /\ payload # N /\ Answered = (1..(N - 1)) \ {payload}
        /\ payload \in 0..N
    BY TypesOfATurn DEF TurnInv, AnsweredSoFar, TypeOK
  <1>2. UNCHANGED <<uses, payload, terminalSeen, objected, write, begun, stopActive, shown,
                    turns, crashes, injected, lost>>
    BY DEF Result, job, memory
  <1>3. answers' = Append(answers, [use |-> N, ok |-> ok])
    BY <1>2 DEF Result, Answer
  <1>4. ASSUME NEW i \in 1..Len(answers) PROVE answers[i].use < N
    <2>1. answers[i].use \in Answered BY DEF Answered
    <2> QED BY <1>1, <2>1
  <1>5. /\ answers' \in Seq(Answers)
        /\ Answered' = Answered \cup {N}
        /\ \A i, k \in 1..Len(answers') : i < k => answers'[i].use < answers'[k].use
    BY <1>1, <1>3, <1>4, OneMoreAnswer DEF TurnInv, AnsweredInOrder
  <1>6. Answered' = (1..N) \ {payload} BY <1>1, <1>5
  <1> DEFINE s == Texts(asides, "pre")
  <1>7. s \in Seq(Blocks) /\ \A i \in 1..Len(s) : s[i].use = N /\ s[i].what = "pre"
    BY <1>1, TextsOfEvent DEF TurnInv, TypeOK
  <1>8. texts' = texts \o s BY DEF Result
  <1> HIDE DEF s
  <1>9. /\ texts' \in Seq(Blocks)
        /\ \A i \in 1..Len(texts') : texts'[i].use \in 1..N
        /\ \A i, k \in 1..Len(texts') : i < k => texts'[i].use <= texts'[k].use
    BY <1>1, <1>7, <1>8, MoreTexts DEF TurnInv, TypeOK, AnsweredInOrder
  <1>10. ASSUME NEW d \in Memories PROVE Shows(d)' = Shows(d)
    <2>1. d # "pre" BY TurnAssumption DEF Memories
    <2> QED BY <1>7, <1>8, <2>1, TypesOfATurn, ShowsSame
  <1>11. step' \in {"post", "next"} /\ touched' \in {touched, {}} /\ asides' = 0
    BY DEF Result
  <1>12. TypeOK'
    <2>1. {write', begun', terminalSeen', stopActive'} \subseteq BOOLEAN
      BY <1>2 DEF TurnInv, TypeOK
    <2>2. ASSUME NEW i \in 1..Len(answers') PROVE answers'[i] \in [use : 1..N, ok : BOOLEAN]
      <3>1. answers'[i].use \in Answered' BY DEF Answered
      <3>2. answers'[i] \in Answers BY <1>5
      <3> QED BY <1>6, <3>1, <3>2 DEF Answers
    <2>3. objected' \cup ran' \subseteq 1..N BY <1>1, <1>2 DEF TurnInv, TypeOK
    <2>4. touched' \cup injected' \cup lost' \subseteq Memories
      BY <1>2, <1>11 DEF TurnInv, TypeOK
    <2> QED BY <1>2, <1>9, <1>11, <2>1, <2>2, <2>3, <2>4 DEF TurnInv, TypeOK
  <1>13. AnsweredSoFar' BY <1>1, <1>2, <1>6, <1>11 DEF AnsweredSoFar
  <1>14. BlocksOK' BY <1>5, <1>9 DEF BlocksOK
  <1>15. ReportsSeen' BY <1>2, <1>11 DEF TurnInv, ReportsSeen
  <1>16. BetweenTurns' BY <1>2, <1>11 DEF TurnInv, BetweenTurns
  <1>17. AnsweredInOrder' BY <1>2, <1>5, <1>6, <1>9 DEF AnsweredInOrder
  <1>18. ObjectionsHold' BY <1>2 DEF TurnInv, ObjectionsHold, ReportsSeen
  <1>19. MemoryShownOnce' BY <1>2, <1>10, MemoryKept DEF TurnInv
  <1> QED BY <1>12, <1>13, <1>14, <1>15, <1>16, <1>17, <1>18, <1>19 DEF TurnInv

LEMMA DispatchInv ==
    ASSUME IInv, NEW ok \in BOOLEAN, Dispatch(ok) \/ NoSuchTool \/ PatchReturns
    PROVE  TurnInv'
  <1>1. TurnInv BY DEF IInv
  <1>2. CASE Dispatch(ok)
    <2>1. step = "dispatch" /\ Result(ok) /\ ran' = ran \cup {N} /\ outcome' = outcome
      BY <1>2 DEF Dispatch, patchVars
    <2>2. outcome = "none" BY <1>1, <2>1 DEF TurnInv, TypeOK
    <2> QED BY <1>1, <2>1, <2>2, ResultInv
  <1>3. CASE NoSuchTool
    <2>1. step = "dispatch" /\ Result(FALSE) /\ ran' = ran /\ outcome' = "none"
      BY <1>3 DEF NoSuchTool, Forget
    <2> QED BY <1>1, <2>1, ResultInv
  <1>4. CASE PatchReturns
    <2>1. step = "patching" /\ Result(outcome = "ok") /\ ran' = ran /\ outcome' = "none"
      BY <1>4 DEF PatchReturns, Forget
    <2>2. (outcome = "ok") \in BOOLEAN OBVIOUS
    <2> QED BY <1>1, <2>1, <2>2, ResultInv
  <1> QED BY <1>2, <1>3, <1>4

(* A patch that is being applied.                                          *)
LEMMA PatchingInv ==
    ASSUME TurnInv, step \in {"dispatch", "patching"}, step' = "patching",
           UNCHANGED <<uses, answers, texts, payload, terminalSeen, objected, atUse, job, memory>>,
           ran' = ran \/ (step = "dispatch" /\ ran' = ran \cup {N}),
           outcome' # "none"
    PROVE  TurnInv'
  <1>1. UNCHANGED <<touched, asides, write, begun, stopActive, shown, turns, crashes, injected, lost>>
    BY DEF atUse, job, memory
  <1>2. N \in Nat /\ N > 0 BY TypesOfATurn DEF TurnInv, AnsweredSoFar
  <1>3. TypeOK'
    <2>1. {write', begun', terminalSeen', stopActive'} \subseteq BOOLEAN
      BY <1>1 DEF TurnInv, TypeOK
    <2>2. objected' \cup ran' \subseteq 1..N BY <1>2 DEF TurnInv, TypeOK
    <2> QED BY <1>1, <2>1, <2>2 DEF TurnInv, TypeOK
  <1>4. Answered' = Answered BY DEF Answered
  <1>5. AnsweredSoFar' /\ AnsweredInOrder'
    BY <1>4 DEF TurnInv, AnsweredSoFar, AnsweredInOrder
  <1>6. BlocksOK' BY DEF TurnInv, BlocksOK
  <1>7. ReportsSeen' BY DEF TurnInv, ReportsSeen
  <1>8. BetweenTurns' BY <1>1 DEF TurnInv, BetweenTurns
  <1>9. ObjectionsHold' BY DEF TurnInv, ObjectionsHold, ReportsSeen
  <1>10. MemoryShownOnce' BY <1>1, MemoryKept DEF TurnInv, Shows
  <1> QED BY <1>3, <1>5, <1>6, <1>7, <1>8, <1>9, <1>10 DEF TurnInv

LEMMA PatchCallInv ==
    ASSUME IInv, NEW files, StartPatch(files) \/ PatchStep PROVE TurnInv'
  <1>1. TurnInv BY DEF IInv
  <1>2. CASE StartPatch(files)
    <2>1. outcome' # "none" BY <1>2 DEF StartPatch, Plan
    <2> QED BY <1>1, <1>2, <2>1, PatchingInv DEF StartPatch
  <1>3. CASE PatchStep
    <2>1. outcome' # "none"
      BY <1>3 DEF PatchStep, Proceed, Applied, StageFile, RenameFile, UnlinkFile, Done, Running,
                  StageFails, CommitFails, FileIsGone, Fail
    <2>2. UNCHANGED <<step, uses, answers, texts, payload, terminalSeen, objected, ran, atUse, job, memory>>
      BY <1>3 DEF PatchStep, inTurn
    <2>3. step = "patching" BY <1>3 DEF PatchStep
    <2> QED BY <1>1, <2>1, <2>2, <2>3, PatchingInv
  <1> QED BY <1>2, <1>3

-----------------------------------------------------------------------------
(* More texts of a use that was answered.                                  *)
LEMMA AnsweredUse ==
    ASSUME TurnInv, step \in {"post", "memory"}, step' \in {"next", "memory"},
           UNCHANGED <<uses, answers, payload, terminalSeen, objected, ran, asides, job>>,
           touched' \in {touched, {}}, injected' \cup lost' \subseteq Memories,
           outcome' = "none",
           NEW s \in Seq(Blocks), \A i \in 1..Len(s) : s[i].use = N, texts' = texts \o s,
           MemoryShownOnce'
    PROVE  TurnInv'
  <1>1. UNCHANGED <<write, begun, stopActive, shown, turns, crashes>> BY DEF job
  <1>2. N \in Nat /\ N > 0 BY TypesOfATurn DEF TurnInv, AnsweredSoFar
  <1>3. /\ texts' \in Seq(Blocks)
        /\ \A i \in 1..Len(texts') : texts'[i].use \in 1..N
        /\ \A i, k \in 1..Len(texts') : i < k => texts'[i].use <= texts'[k].use
    BY <1>2, MoreTexts DEF TurnInv, TypeOK, AnsweredInOrder
  <1>4. TypeOK'
    <2>1. {write', begun', terminalSeen', stopActive'} \subseteq BOOLEAN
      BY <1>1 DEF TurnInv, TypeOK
    <2>2. touched' \cup injected' \cup lost' \subseteq Memories BY DEF TurnInv, TypeOK
    <2> QED BY <1>1, <1>3, <2>1, <2>2 DEF TurnInv, TypeOK
  <1>5. Answered' = Answered BY DEF Answered
  <1>6. AnsweredSoFar' /\ AnsweredInOrder'
    BY <1>3, <1>5 DEF TurnInv, AnsweredSoFar, AnsweredInOrder
  <1>7. BlocksOK' BY <1>3 DEF TurnInv, BlocksOK
  <1>8. ReportsSeen' BY DEF TurnInv, ReportsSeen
  <1>9. BetweenTurns' BY <1>1 DEF TurnInv, BetweenTurns
  <1>10. ObjectionsHold' BY DEF TurnInv, ObjectionsHold
  <1> QED BY <1>4, <1>6, <1>7, <1>8, <1>9, <1>10 DEF TurnInv

LEMMA PostInv ==
    ASSUME IInv, NEW events \in [1..Events -> PostEvents], Post(events) PROVE TurnInv'
  <1>1. TurnInv /\ step = "post" /\ outcome' = "none" BY DEF IInv, Post, Forget
  <1>2. /\ UNCHANGED <<uses, answers, payload, terminalSeen, objected, ran, asides, job, memory>>
        /\ step' \in {"next", "memory"} /\ touched' = touched
    BY DEF Post, atUse
  <1>3. N \in Nat BY <1>1, TypesOfATurn
  <1>4. Total(events, PostHooks) \in Nat
    <2>1. Len(diff) \in Nat BY DiffLength DEF IInv, PatchInv, PatchTypeOK
    <2>2. Events \in Nat BY <2>1 DEF Events, Files
    <2>3. Len(events) \in Nat BY <2>2
    <2> QED BY <2>3, TotalType, TurnAssumption
  <1> DEFINE s == Texts(Total(events, PostHooks), "post")
  <1>5. s \in Seq(Blocks) /\ \A i \in 1..Len(s) : s[i].use = N /\ s[i].what = "post"
    BY <1>3, <1>4, TextsOfEvent
  <1>6. texts' = texts \o s BY DEF Post
  <1> HIDE DEF s
  <1>7. ASSUME NEW d \in Memories PROVE Shows(d)' = Shows(d)
    <2>1. d # "post" BY TurnAssumption DEF Memories
    <2> QED BY <1>1, <1>5, <1>6, <2>1, TypesOfATurn, ShowsSame
  <1>8. UNCHANGED <<shown, injected, lost>> BY <1>2 DEF job, memory
  <1>9. MemoryShownOnce' BY <1>1, <1>7, <1>8, MemoryKept DEF TurnInv
  <1>10. injected' \cup lost' \subseteq Memories BY <1>1, <1>8 DEF TurnInv, TypeOK
  <1>11. \A i \in 1..Len(s) : s[i].use = N BY <1>5
  <1> QED BY <1>1, <1>2, <1>5, <1>6, <1>9, <1>10, <1>11, AnsweredUse

(* A listing of a set without repetitions has each of its members once.    *)
LEMMA ListsAll ==
    ASSUME NEW S, IsFiniteSet(S), NEW s \in SetToSeqs(S)
    PROVE  /\ s \in Seq(S)
           /\ \A d \in S : \E j \in 1..Len(s) : s[j] = d
           /\ \A i, j \in 1..Len(s) : s[i] = s[j] => i = j
  <1> DEFINE n == Cardinality(S)
  <1>1. n \in Nat BY FS_CardinalityType
  <1>2. s \in [1..n -> S] /\ \A i, j \in 1..n : i # j => s[i] # s[j] BY DEF SetToSeqs
  <1>3. s \in Seq(S) /\ Len(s) = n BY <1>1, <1>2
  <1>4. s \in Injection(1..n, S) BY <1>2 DEF Injection, IsInjective
  <1>5. Cardinality(1..n) = n BY <1>1, FS_Interval
  <1>6. s \in Surjection(1..n, S) BY <1>4, <1>5, FS_Injection
  <1> QED BY <1>2, <1>3, <1>6 DEF Surjection

LEMMA LazyMemoryInv ==
    ASSUME IInv, NEW read \in SUBSET touched, NEW fresh \in SetToSeqs(read \ injected),
           LazyMemory(read, fresh)
    PROVE  TurnInv'
  <1> DEFINE new == read \ injected
  <1>1. TurnInv /\ step = "memory" /\ outcome' = outcome
    BY DEF IInv, LazyMemory, patchVars
  <1>2. /\ UNCHANGED <<uses, answers, payload, terminalSeen, objected, ran, asides, job>>
        /\ step' = "next" /\ touched' = {} /\ injected' = injected \cup new
    BY DEF LazyMemory
  <1>3. outcome = "none" BY <1>1 DEF TurnInv, TypeOK
  <1>4. new \subseteq Memories BY <1>1 DEF TurnInv, TypeOK
  <1>5. IsFiniteSet(new)
    <2>1. IsFiniteSet(Memories) BY TurnAssumption, FS_AddElement DEF Memories
    <2> QED BY <1>4, <2>1, FS_Subset
  <1> fresh \in SetToSeqs(new) OBVIOUS
  <1> new = read \ injected OBVIOUS
  <1> HIDE DEF new
  <1>6. /\ fresh \in Seq(new) /\ \A d \in new : \E j \in 1..Len(fresh) : fresh[j] = d
        /\ \A i, j \in 1..Len(fresh) : fresh[i] = fresh[j] => i = j
    BY <1>5, ListsAll
  <1>7. N \in Nat /\ \A d : Shows(d) \in Nat BY <1>1, TypesOfATurn, ShowsType
  <1>8. /\ \A d \in new : shown[d] + Shows(d) = 0
        /\ injected = {d \in Memories : shown[d] + Shows(d) > 0} \cup lost
        /\ shown' = shown /\ shown \in [Memories -> Nat]
        /\ \A d \in Memories : shown[d] + Shows(d) <= 1
    BY <1>1, <1>2, <1>4, <1>7 DEF TurnInv, TypeOK, MemoryShownOnce, InjectedIsShown, MemoryOnce, job
  <1>9. lost' \subseteq Memories /\ injected' \subseteq Memories
    BY <1>1, <1>2, <1>4 DEF LazyMemory, TurnInv, TypeOK
  <1>10. CASE read = touched
    <2> DEFINE s == [i \in 1..Len(fresh) |-> [use |-> N, what |-> fresh[i]]]
    <2>1. texts' = texts \o s /\ lost' = lost BY <1>10 DEF LazyMemory
    <2>2. /\ s \in Seq(Blocks) /\ Len(s) = Len(fresh)
          /\ \A i \in 1..Len(s) : s[i].use = N /\ s[i].what = fresh[i]
      BY <1>4, <1>6, <1>7 DEF Blocks
    <2> HIDE DEF s
    <2>3. ASSUME NEW d \in Memories PROVE Shows(d)' = IF d \in new THEN Shows(d) + 1 ELSE Shows(d)
      <3>1. CASE d \in new
        <4>1. PICK j \in 1..Len(s) : s[j].what = d BY <1>6, <2>2, <3>1
        <4>2. \A i \in 1..Len(s) : s[i].what = d => i = j BY <1>6, <2>2, <4>1
        <4> QED BY <1>1, <2>1, <2>2, <3>1, <4>1, <4>2, TypesOfATurn, ShowsOneMore
      <3>2. CASE d \notin new
        <4>1. \A i \in 1..Len(s) : s[i].what # d BY <1>6, <2>2, <3>2
        <4> QED BY <1>1, <2>1, <2>2, <3>2, <4>1, TypesOfATurn, ShowsSame
      <3> QED BY <3>1, <3>2
    <2>4. \A d \in Memories : /\ shown'[d] + Shows(d)' <= 1
                              /\ shown'[d] + Shows(d)' > 0 <=> d \in new \/ shown[d] + Shows(d) > 0
      BY <1>7, <1>8, <2>3
    <2>5. MemoryShownOnce'
      BY <1>2, <1>4, <1>8, <2>1, <2>4 DEF MemoryShownOnce, MemoryOnce, InjectedIsShown
    <2> QED BY <1>1, <1>2, <1>3, <1>9, <2>1, <2>2, <2>5, AnsweredUse
  <1>11. CASE read # touched
    <2>1. texts' = texts /\ lost' = lost \cup new BY <1>11 DEF LazyMemory
    <2>2. \A d : Shows(d)' = Shows(d) BY <2>1 DEF Shows
    <2>3. MemoryShownOnce'
      BY <1>2, <1>4, <1>8, <2>1, <2>2 DEF MemoryShownOnce, MemoryOnce, InjectedIsShown
    <2>4. <<>> \in Seq(Blocks) /\ \A i \in 1..Len(<<>>) : <<>>[i].use = N OBVIOUS
    <2>5. texts' = texts \o <<>> BY <1>1, <2>1, TypesOfATurn
    <2> QED BY <1>1, <1>2, <1>3, <1>9, <2>3, <2>4, <2>5, AnsweredUse
  <1> QED BY <1>10, <1>11

-----------------------------------------------------------------------------
LEMMA InitInv == Init => IInv
  <1> SUFFICES ASSUME Init PROVE IInv OBVIOUS
  <1> USE DEF Init
  <1>1. PatchInv BY IdleInv
  <1>2. /\ uses = <<>> /\ answers = <<>> /\ texts = <<>> /\ payload = 0
        /\ terminalSeen = FALSE /\ objected = {} /\ ran = {} /\ touched = {} /\ asides = 0
        /\ outcome = "none"
    BY DEF NewTurn, Idle
  <1>3. TypeOK
    <2>1. {write, begun, terminalSeen, stopActive} \subseteq BOOLEAN
      <3>1. write \in BOOLEAN OBVIOUS
      <3> QED BY <1>2, <3>1
    <2>2. shown \in [Memories -> Nat] OBVIOUS
    <2>3. uses \in Seq(Tools) /\ Len(uses) <= MaxUses BY <1>2, TurnAssumption
    <2> QED BY <1>2, <2>1, <2>2, <2>3, TurnAssumption DEF TypeOK
  <1>4. Answered = {} /\ 1..0 = {} BY <1>2 DEF Answered
  <1>5. AnsweredSoFar /\ AnsweredInOrder BY <1>2, <1>4 DEF AnsweredSoFar, AnsweredInOrder
  <1>6. BlocksOK /\ ReportsSeen /\ BetweenTurns /\ ObjectionsHold
    BY <1>2 DEF BlocksOK, ReportsSeen, BetweenTurns, ObjectionsHold
  <1>7. \A d : Shows(d) = 0
    <2>1. \A d : {i \in 1..Len(texts) : texts[i].what = d} = {} BY <1>2
    <2> QED BY <2>1, FS_EmptySet DEF Shows
  <1>8. MemoryShownOnce BY <1>7 DEF MemoryShownOnce, MemoryOnce, InjectedIsShown
  <1> QED BY <1>1, <1>3, <1>5, <1>6, <1>8 DEF IInv, TurnInv

LEMMA NextInv == ASSUME IInv, [Next]_vars PROVE IInv'
  <1>1. PatchInv BY DEF IInv
  <1>2. CASE Seed BY <1>1, <1>2, SeedInv, PatchStutters DEF Seed, IInv
  <1>3. CASE Turn BY <1>1, <1>3, ReceiveInv, PatchStutters DEF Turn, IInv
  <1>4. CASE EndTurn BY <1>1, <1>4, EndTurnInv, PatchStutters DEF EndTurn, IInv
  <1>5. CASE Crash BY <1>1, <1>5, CrashInv, KilledInv DEF Crash, IInv
  <1>6. CASE Relaunch BY <1>1, <1>6, RelaunchInv, ForgetInv DEF Relaunch, IInv
  <1>7. ASSUME NEW tool \in Tools, RefuseReport(tool) PROVE IInv'
    BY <1>1, <1>7, RefuseReportInv, PatchStutters DEF RefuseReport, IInv
  <1>8. ASSUME NEW blocked \in StopEvents, Report(blocked) PROVE IInv'
    BY <1>1, <1>8, ReportInv, PatchStutters DEF Report, IInv
  <1>9. ASSUME NEW tool \in Tools, NEW dirs \in Touches, NEW event \in PreEvents,
               PreTool(tool, dirs, event)
        PROVE  IInv'
    BY <1>1, <1>9, PreToolInv, PatchStutters DEF PreTool, IInv
  <1>10. ASSUME NEW d \in Diffs, NEW events \in [1..Len(Files(d)) -> PreEvents], PrePatch(d, events)
         PROVE  IInv'
    BY <1>10, PrePatchInv
  <1>11. ASSUME NEW ok \in BOOLEAN, Dispatch(ok) PROVE IInv'
    BY <1>1, <1>11, DispatchInv, PatchStutters DEF Dispatch, IInv
  <1>12. CASE NoSuchTool BY <1>1, <1>12, DispatchInv, ForgetInv DEF NoSuchTool, IInv
  <1>13. CASE PatchReturns
    <2>1. (outcome = "ok") \in BOOLEAN /\ Forget(outcome = "ok") BY <1>13 DEF PatchReturns
    <2>2. PatchInv' BY <1>1, <2>1, ForgetInv
    <2> QED BY <1>13, <2>2, DispatchInv DEF IInv
  <1>14. ASSUME NEW files \in Disks \cup {MadeFrom(diff)}, StartPatch(files) PROVE IInv'
    <2>1. Plan(diff, files) BY <1>14 DEF StartPatch
    <2> QED BY <1>1, <1>14, <2>1, PlanInv, PatchCallInv DEF IInv
  <1>15. CASE PatchStep BY <1>1, <1>15, PatchCallInv, ProceedInv DEF PatchStep, IInv
  <1>16. ASSUME NEW events \in [1..Events -> PostEvents], Post(events) PROVE IInv'
    BY <1>1, <1>16, PostInv, ForgetInv DEF Post, IInv
  <1>17. ASSUME NEW read \in SUBSET touched, NEW fresh \in SetToSeqs(read \ injected),
                LazyMemory(read, fresh)
         PROVE  IInv'
    BY <1>1, <1>17, LazyMemoryInv, PatchStutters DEF LazyMemory, IInv
  <1>18. CASE UNCHANGED vars
    <2>1. /\ UNCHANGED <<step, uses, answers, texts, payload, terminalSeen, objected, ran,
                         touched, asides, write, begun, stopActive, shown, turns, crashes,
                         injected, lost, outcome>>
          /\ UNCHANGED patchVars
      BY <1>18 DEF vars, inTurn, atUse, job, memory, patchVars
    <2>2. PatchInv' BY <1>1, <2>1, PatchStutters
    <2>3. TypeOK' BY <2>1 DEF IInv, TurnInv, TypeOK
    <2>4. AnsweredSoFar' /\ BlocksOK' /\ ReportsSeen' /\ BetweenTurns' /\ AnsweredInOrder'
          /\ ObjectionsHold'
      BY <2>1 DEF IInv, TurnInv, AnsweredSoFar, BlocksOK, ReportsSeen, BetweenTurns, NewTurn,
                  AnsweredInOrder, ObjectionsHold, Answered
    <2>5. MemoryShownOnce'
      BY <2>1 DEF IInv, TurnInv, MemoryShownOnce, MemoryOnce, InjectedIsShown, Shows
    <2> QED BY <2>2, <2>3, <2>4, <2>5 DEF IInv, TurnInv
  <1> QED BY <1>2, <1>3, <1>4, <1>5, <1>6, <1>7, <1>8, <1>9, <1>10, <1>11, <1>12, <1>13,
             <1>14, <1>15, <1>16, <1>17, <1>18 DEF Next

-----------------------------------------------------------------------------
(* The invariant that keeps account of a turn - which of its uses are      *)
(* answered, what its texts show, how far its patch has come - holds       *)
(* throughout.                                                             *)
THEOREM Inductive == Spec => []IInv
  BY InitInv, NextInv, PTL DEF Spec

(* The state of a turn stays of its type; in particular a call of the      *)
(* patch tool is under way exactly while the loop waits for it.            *)
THEOREM TypeCorrect == Spec => []TypeOK
  BY Inductive, PTL DEF IInv, TurnInv

(* Whatever the hooks say, the tools return and the crashes interrupt:     *)
(* every tool_use of a turn is answered once and in order, but for the     *)
(* accepted report, and the texts follow in the order of their uses.       *)
THEOREM EveryUseAnswered == Spec => []AnsweredInOrder
  BY Inductive, PTL DEF IInv, TurnInv

(* No tool runs that a hook objected to - of a patch, for any of its files *)
(* - and no report that the Stop hooks blocked ends the Job.               *)
THEOREM ObjectionsRespected == Spec => []ObjectionsHold
  BY Inductive, PTL DEF IInv, TurnInv

(* A directory's Memory is shown at most once, and what a worker believes  *)
(* it has shown is in the Thread or about to be, over crashes and replays. *)
THEOREM MemoryOnceShown == Spec => []MemoryShownOnce
  BY Inductive, PTL DEF IInv, TurnInv

(* A patch is applied whole or not at all, wherever it is interrupted, but *)
(* for a rename or deletion that fails and for a path named twice.         *)
THEOREM PatchIsWhole == Spec => []WholeOrNothing
  BY Inductive, PatchInvImplies, PTL DEF IInv

(* What a successful call leaves is what the diff means, for the files it  *)
(* was made from: for files of any length, with the diff cut into hunks    *)
(* anywhere.                                                               *)
THEOREM PatchMeansItsDiff == Spec => []OkIsTheDiff
  BY Inductive, PatchInvMeans, PTL DEF IInv
=============================================================================
