------------------------------- MODULE Ladder -------------------------------
(***************************************************************************)
(* One assistant turn through the retry ladder (src/chinamax/liveness.py). *)
(*                                                                         *)
(* Two threads: the loop thread opens a stream, reads it, and classifies   *)
(* what it got; the watchdog thread of the attempt fires on silence and    *)
(* breaks the stream.  The endpoint sends what it likes.  `done`, `fired`  *)
(* and the silence since the last beat are what the threads share.         *)
(***************************************************************************)
EXTENDS Naturals

CONSTANTS Attempts,   \* ladder_attempts
          Timeout,    \* inactivity_timeout_s, in ticks
          Margin,     \* READ_TIMEOUT_MARGIN_S
          Base, Cap,  \* backoff_base_s, backoff_cap_s
          MaxRetryAfter \* the largest Retry-After an endpoint sends

ASSUME LadderAssumption ==
    /\ {Attempts, Timeout, Margin} \subseteq Nat \ {0}
    /\ {Base, Cap, MaxRetryAfter} \subseteq Nat

VARIABLES attempt,  \* 1 .. Attempts
          reader,   \* the loop thread
          held,     \* what ended the reading of this attempt
          after,    \* its Retry-After, 0 for none
          watch,    \* the watchdog thread
          done, fired, closed,
          silence,  \* since the last beat
          quiet,    \* since the last traffic of any kind
          content,  \* flips with every content-bearing event
          stopped,  \* whether message_stop has been delivered in this turn
          sleep,    \* the backoff sleep that is being slept
          result
ladderVars == <<attempt, reader, held, after, watch, done, fired, closed, silence,
          quiet, content, stopped, sleep, result>>
time == <<silence, quiet>>
shared == <<done, fired, closed>>
turn == <<attempt, sleep, result>>

-----------------------------------------------------------------------------
Least(a, b)    == IF a < b THEN a ELSE b
Greatest(a, b) == IF a < b THEN b ELSE a
Endings == {"message", "eof", "connection", "transient", "permanent"}

LadderTypeOK ==
    /\ attempt \in 1..Attempts
    /\ reader \in {"requesting", "reading", "leaving", "joining", "settling",
                   "sleeping", "finished"}
    /\ held \in Endings \cup {"none"}
    /\ after \in 0..MaxRetryAfter
    /\ watch \in {"off", "waiting", "checking", "closing"}
    /\ {done, fired, closed, content, stopped} \subseteq BOOLEAN
    /\ quiet <= silence /\ silence \in 0..(Timeout + Margin) /\ quiet \in Nat
    /\ sleep \in 0..Greatest(Cap, MaxRetryAfter)
    /\ result \in {"pending", "message", "permanent", "exhausted"}
    /\ result = "pending" <=> reader # "finished"

LadderInit ==
    /\ attempt = 1 /\ reader = "requesting"
    /\ held = "none" /\ after = 0
    /\ watch = "off" /\ done = FALSE /\ fired = FALSE /\ closed = FALSE
    /\ silence = 0 /\ quiet = 0 /\ content = FALSE /\ stopped = FALSE
    /\ sleep = 0 /\ result = "pending"

-----------------------------------------------------------------------------
(* The request is answered: the watchdog is armed over the open stream.    *)
Open ==
    /\ reader = "requesting"
    /\ reader' = "reading"
    /\ watch' = "waiting" /\ silence' = 0 /\ quiet' = 0
    /\ UNCHANGED <<turn, held, after, shared, content, stopped>>

(* The request fails before there is a stream, and so without a watchdog.  *)
RequestFails ==
    /\ reader = "requesting"
    /\ held' \in {"connection", "transient", "permanent"}
    /\ after' \in IF held' = "transient" THEN 0..MaxRetryAfter ELSE {0}
    /\ reader' = "settling"
    /\ UNCHANGED <<turn, watch, shared, time, content, stopped>>

(* httpx's read timeout, while the response or its next bytes are awaited. *)
ReadTimeout ==
    /\ reader \in {"requesting", "reading"}
    /\ quiet = Timeout + Margin
    /\ held' = "connection"
    /\ reader' = IF reader = "reading" THEN "leaving" ELSE "settling"
    /\ UNCHANGED <<turn, after, watch, shared, time, content, stopped>>

(* What-if: any traffic counts as a sign of life.                          *)
AnyTraffic == {"content", "ping"}
ContentBearing == {"content"}

(* An event short of the last.                                             *)
Receive(kind) ==
    /\ reader = "reading"
    /\ silence' = IF kind \in ContentBearing THEN 0 ELSE silence
    /\ quiet' = 0
    /\ content' = IF kind = "content" THEN ~content ELSE content
    /\ UNCHANGED <<turn, reader, held, after, watch, shared, stopped>>

(* `message_stop` is read; the watchdog may have broken the stream behind  *)
(* it.                                                                     *)
Stop ==
    /\ reader = "reading"
    /\ silence' = 0 /\ quiet' = 0 /\ content' = ~content /\ stopped' = TRUE
    /\ held' = "message" /\ reader' = "leaving"
    /\ UNCHANGED <<turn, after, watch, shared>>

(* The stream ends early or breaks, by the endpoint or by the watchdog.    *)
Break ==
    /\ reader = "reading"
    /\ held' \in {"eof", "connection"}
    /\ reader' = "leaving"
    /\ UNCHANGED <<turn, after, watch, shared, time, content, stopped>>

(* An `error` event after the 200.                                         *)
ErrorEvent ==
    /\ reader = "reading"
    /\ held' \in {"transient", "permanent"}
    /\ after' \in IF held' = "transient" THEN 0..MaxRetryAfter ELSE {0}
    /\ reader' = "leaving"
    /\ UNCHANGED <<turn, watch, shared, time, content, stopped>>

-----------------------------------------------------------------------------

(* `disarm`                                                                *)
Disarm ==
    /\ reader = "leaving"
    /\ done' = TRUE /\ reader' = "joining"
    /\ UNCHANGED <<turn, held, after, watch, fired, closed, time, content, stopped>>

Join ==
    /\ reader = "joining" /\ watch = "off"
    /\ reader' = "settling"
    /\ UNCHANGED <<turn, held, after, watch, shared, time, content, stopped>>

(* `_watch`: wait, look at the clock, note that it fired, close.           *)
WatchWakes ==
    /\ watch = "waiting"
    /\ watch' = IF done THEN "off" ELSE "checking"
    /\ UNCHANGED <<turn, reader, held, after, shared, time, content, stopped>>

WatchLooks ==
    /\ watch = "checking"
    /\ fired' = (silence >= Timeout)
    /\ watch' = IF fired' THEN "closing" ELSE "waiting"
    /\ UNCHANGED <<turn, reader, held, after, done, closed, time, content, stopped>>

WatchCloses ==
    /\ watch = "closing"
    /\ closed' = TRUE /\ watch' = "off"
    /\ UNCHANGED <<turn, reader, held, after, done, fired, time, content, stopped>>

-----------------------------------------------------------------------------
(* What-if: a fired watchdog outranks the message.                         *)
FiredFirst == IF fired THEN "transient" ELSE held

(* `run_attempt`: a message counts whatever the watchdog did; otherwise a  *)
(* watchdog that fired explains the ending.                                *)
Outcome ==
    CASE held = "message" -> "message"
      [] held # "message" /\ fired -> "transient"
      [] held \in {"eof", "connection", "transient"} /\ ~fired -> "transient"
      [] held = "permanent" /\ ~fired -> "permanent"

RetryAfter == IF fired THEN 0 ELSE after

(* What-if: the floor is applied after the clamp.                          *)
FloorLast(n) ==
    {Greatest(jitter, RetryAfter) : jitter \in 0..Least(Base * 2^(n - 1), Cap)}

(* `backoff_sleep`: Retry-After is a floor after the jitter, then clamped. *)
BackoffSleep(n) ==
    LET computed == Least(Base * 2^(n - 1), Cap)
    IN {Least(Greatest(jitter, RetryAfter), Cap) : jitter \in 0..computed}

Finish(verdict) == /\ result' = verdict /\ reader' = "finished"
                   /\ UNCHANGED <<attempt, sleep, held, after>>

Settle ==
    /\ reader = "settling"
    /\ \/ Outcome = "message" /\ Finish("message")
       \/ Outcome = "permanent" /\ Finish("permanent")
       \/ Outcome = "transient" /\ attempt = Attempts /\ Finish("exhausted")
       \/ /\ Outcome = "transient" /\ attempt < Attempts
          /\ sleep' \in BackoffSleep(attempt)
          /\ reader' = "sleeping"
          /\ UNCHANGED <<attempt, result, held, after>>
    /\ UNCHANGED <<watch, shared, time, content, stopped>>

(* The next attempt: a new request, and nothing left of the last.          *)
NextAttempt ==
    /\ reader = "sleeping"
    /\ attempt' = attempt + 1 /\ reader' = "requesting"
    /\ held' = "none" /\ after' = 0 /\ sleep' = 0
    /\ done' = FALSE /\ fired' = FALSE /\ closed' = FALSE
    /\ silence' = 0 /\ quiet' = 0
    /\ UNCHANGED <<watch, content, stopped, result>>

(* A tick without traffic.  The watchdog polls far more often than the     *)
(* margin is long.                                                         *)
Tick ==
    /\ reader \in {"requesting", "reading"}
    /\ quiet < Timeout + Margin
    /\ reader = "reading" => silence < Timeout \/ watch = "off"
    /\ silence' = Least(silence + 1, Timeout + Margin) /\ quiet' = quiet + 1
    /\ UNCHANGED <<turn, reader, held, after, watch, shared, content, stopped>>

-----------------------------------------------------------------------------
LoopSteps == Disarm \/ Join \/ Settle \/ NextAttempt
WatchSteps == WatchWakes \/ WatchLooks \/ WatchCloses
EndpointSteps == \/ Open \/ RequestFails \/ Stop \/ Break \/ ErrorEvent
                 \/ \E kind \in {"content", "ping"} : Receive(kind)

LadderNext == LoopSteps \/ WatchSteps \/ EndpointSteps \/ ReadTimeout \/ Tick

LadderSpec == LadderInit /\ [][LadderNext]_ladderVars

(* Both threads run and time passes; a broken stream ends its reading.  Of *)
(* the endpoint nothing is asked.                                          *)
LadderFairSpec ==
    /\ LadderSpec
    /\ WF_ladderVars(LoopSteps) /\ WF_ladderVars(WatchWakes)
    /\ WF_ladderVars(WatchLooks) /\ WF_ladderVars(WatchCloses)
    /\ WF_ladderVars(ReadTimeout) /\ WF_ladderVars(Tick) /\ WF_ladderVars(closed /\ Break)

-----------------------------------------------------------------------------
(* A turn that was read to `message_stop` is never retried or lost, also   *)
(* when the watchdog fires behind it (`run_attempt`).                      *)
CompleteTurnIsKept ==
    stopped => /\ held = "message"
               /\ result \in {"pending", "message"}

(* A watchdog never outlives its attempt, so it cannot break a later one's *)
(* stream (`InactivityWatchdog`).                                          *)
WatchdogStaysInItsAttempt ==
    watch # "off" => reader \in {"reading", "leaving", "joining"}

(* The watchdog costs a Job neither a turn that was read to its end nor a  *)
(* later attempt (`run_attempt`, `InactivityWatchdog`).                    *)
WatchdogIsHarmless == CompleteTurnIsKept /\ WatchdogStaysInItsAttempt

(* No Retry-After parks a Job for longer than the cap, and one within the  *)
(* cap is respected (`backoff_sleep`).                                     *)
RetryAfterIsClampedFloor ==
    reader = "sleeping" => /\ sleep <= Cap
                           /\ sleep >= Least(RetryAfter, Cap)

(* Unless content keeps coming, the turn ends: neither an endpoint that    *)
(* never answers nor one that only pings holds the Job (ADR 0002).         *)
SilenceEndsTheTurn ==
    <>[][content' = content]_ladderVars => <>(result # "pending")

-----------------------------------------------------------------------------
(* Promises that the code does not keep; the bounds of MCLadder_turn.cfg   *)
(* refute both.                                                            *)

(* A permanent error ends the Job at once, "the ladder's degenerate        *)
(* zero-retry case" (module docstring of liveness.py).                     *)
PermanentFailsFast ==
    held = "permanent" => reader # "sleeping" /\ result \in {"pending", "permanent"}

(* The read timeout never ends an attempt ahead of the watchdog, "which    *)
(* always fires first" (READ_TIMEOUT_MARGIN_S of provider.py).             *)
WatchdogFiresFirst ==
    [][ReadTimeout => fired]_ladderVars
=============================================================================
