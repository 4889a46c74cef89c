------------------------------- MODULE Calls --------------------------------
(***************************************************************************)
(* The waits of a Job's loop thread on processes that are not its own: the *)
(* stdio MCP servers (src/chinamax/policy.py, `WorkerMCP`), a hook         *)
(* (`_run_hook`) and a command of the bash tool (tools/bash.py,            *)
(* `run_bash`), on POSIX.  The loop thread waits for one of them at a      *)
(* time; the servers go on in the background event loop meanwhile.         *)
(***************************************************************************)
EXTENDS Naturals, FiniteSets

CONSTANTS MaxServers,     \* bound on the servers configured
          MaxCalls,       \* bound on the MCP calls of the Job
          MaxDescendants, \* bound on a shell's descendants, by the servers configured
          Limit,          \* `spent` is counted up to here
          ConnectTimeout, CallTimeout, CloseTimeout, ChildTimeout, Grace \* ticks

ASSUME CallsAssumption ==
    /\ {ConnectTimeout, CallTimeout, CloseTimeout, ChildTimeout} \subseteq Nat \ {0}
    /\ {MaxServers, MaxCalls, Limit, Grace} \subseteq Nat
    /\ MaxDescendants \in [0..MaxServers -> Nat]
(* `spent` is told apart beyond each single timeout.                       *)
ASSUME LimitAssumption ==
    {ConnectTimeout, CallTimeout, CloseTimeout, ChildTimeout, Grace} \subseteq 0..Limit

VARIABLES phase,    \* what the loop thread is in
          waited,   \* ticks in the bounded wait it is in
          spent,    \* ticks since its timer was, or would have been, started
          calls,    \* MCP calls made so far
          child,    \* the process it has spawned last
          outcome,  \* how the shell ended, for the code that waits on it
          targets,  \* the processes `terminate_tree` is after
          configured, \* how many servers there are, 1..configured
          server,   \* the server it waits for
          session,  \* the serve task of each server
          since,    \* ghost: when each server's session was registered
          routes,   \* the servers with an advertised tool
          told,     \* those whose shutdown event is set
          pending   \* the MCP calls sent whose effect has not landed
vars == <<phase, waited, spent, calls, child, outcome, targets, configured, server,
          session, since, routes, told, pending>>
children == <<child, outcome, targets>>
servers == <<configured, session, since, told>>
dispatched == <<routes, pending>>

-----------------------------------------------------------------------------
(* A command's processes.  `shell` is what was spawned; what it leaves     *)
(* behind is told apart by what a kill can see of it.                      *)
Descendants == {"peer",     \* in the shell's group, its child
                "orphan",   \* in the shell's group, adopted by init
                "escaped",  \* in a session of its own, the shell's child
                "detached"} \* in a session of its own, adopted by init
Members == {"shell"} \cup Descendants
Group   == {"shell", "peer", "orphan"}
Tree    == {"shell", "peer", "escaped"}

Child == [kind : {"bash", "hook"}, alive : SUBSET Members,
          pipes : SUBSET Members, \* those of them that hold the pipes
          deaf : SUBSET Members,  \* those deaf to SIGTERM
          reads : BOOLEAN]        \* its payload is read, or fits the pipe

ChildPhases == {"writing", "waiting", "expired", "grace", "joining"}
Connected == {"serving", "dead"}

TypeOK ==
    /\ phase \in ChildPhases \cup {"connecting", "ready", "calling", "closing", "stopping", "closed"}
    /\ waited \in 0..Limit /\ spent \in 0..Limit /\ calls \in 0..MaxCalls
    /\ child \in Child
    /\ outcome \in {"none", "exited", "timed_out"} /\ targets \subseteq Members
    /\ configured \in 0..MaxServers /\ server \in {1} \cup 1..configured
    /\ session \in [1..configured -> {"connecting", "failed", "ended"} \cup Connected]
    /\ since \in [1..configured -> {"never", "promptly", "starting", "working", "closing"}]
    /\ routes \subseteq 1..configured /\ told \subseteq 1..configured
    /\ pending \subseteq 1..calls

NoChild == [kind |-> "bash", alive |-> {}, pipes |-> {}, deaf |-> {}, reads |-> TRUE]

(* `start`: every connect is submitted before the first is awaited.        *)
Init ==
    /\ configured \in 0..MaxServers /\ server = 1
    /\ phase = (IF configured = 0 THEN "ready" ELSE "connecting")
    /\ waited = 0 /\ spent = 0 /\ calls = 0
    /\ child = NoChild /\ outcome = "none" /\ targets = {}
    /\ session = [s \in 1..configured |-> "connecting"]
    /\ since = [s \in 1..configured |-> "never"]
    /\ routes = {} /\ told = {} /\ pending = {}

Timed == [connecting |-> ConnectTimeout, calling |-> CallTimeout,
          waiting |-> ChildTimeout, grace |-> Grace,
          closing |-> CloseTimeout, stopping |-> CloseTimeout]
Expired == phase \in DOMAIN Timed /\ waited = Timed[phase]

-----------------------------------------------------------------------------
(* The servers, in the event loop.                                         *)

(* Session and shutdown event are registered, then the future is resolved. *)
Register(s) ==
    /\ session[s] = "connecting"
    /\ session' = [session EXCEPT ![s] = "serving"]
    /\ since' = [since EXCEPT ![s] =
          CASE phase = "connecting" /\ spent < ConnectTimeout -> "promptly"
            [] phase = "connecting" -> "starting"
            [] phase \in {"closing", "stopping"} -> "closing"
            [] OTHER                -> "working"]
    /\ UNCHANGED <<configured, told>>

FailToConnect(s) ==
    /\ session[s] = "connecting"
    /\ session' = [session EXCEPT ![s] = "failed"]
    /\ UNCHANGED <<configured, since, told>>

Die(s) ==
    /\ session[s] = "serving"
    /\ session' = [session EXCEPT ![s] = "dead"]
    /\ UNCHANGED <<configured, since, told>>

TearDown(s) ==
    /\ s \in told /\ session[s] \in Connected
    /\ session' = [session EXCEPT ![s] = "ended"]
    /\ UNCHANGED <<configured, since, told>>

ServerStep ==
    /\ phase # "closed"
    /\ \E s \in 1..configured : Register(s) \/ FailToConnect(s) \/ Die(s) \/ TearDown(s)
    /\ UNCHANGED <<phase, waited, spent, calls, children, server, dispatched>>

(* A request that was sent is acted upon, now or later.                    *)
Land(n) ==
    /\ n \in pending
    /\ pending' = pending \ {n}
    /\ UNCHANGED <<phase, waited, spent, calls, children, server, servers, routes>>

-----------------------------------------------------------------------------
(* `start` awaits one connect after the other, in config order, each for   *)
(* ConnectTimeout from where its turn comes.                               *)
(* What-if: the loop looks one server too far.                             *)
CollectPastTheEnd(s) ==
    /\ routes' = IF session[s] \in Connected THEN routes \cup {s} ELSE routes
    /\ server' = s + 1 /\ phase' = (IF s > configured THEN "ready" ELSE phase)
Collect(s) ==
    /\ routes' = IF session[s] \in Connected THEN routes \cup {s} ELSE routes
    /\ IF s = configured THEN phase' = "ready" /\ UNCHANGED server
                      ELSE server' = s + 1 /\ UNCHANGED phase

ConnectOver ==
    /\ phase = "connecting" /\ (session[server] # "connecting" \/ Expired)
    /\ Collect(server)
    /\ waited' = 0 /\ spent' = IF phase' = "ready" THEN 0 ELSE spent
    /\ UNCHANGED <<calls, children, servers, pending>>

Forget == child' = NoChild /\ outcome' = "none" /\ targets' = {}

(* `dispatch`.                                                             *)
Dispatch(s) ==
    /\ phase = "ready" /\ s \in routes /\ calls < MaxCalls
    /\ calls' = calls + 1 /\ pending' = pending \cup {calls + 1}
    /\ phase' = "calling" /\ server' = s /\ waited' = 0 /\ spent' = 0
    /\ Forget
    /\ UNCHANGED <<servers, routes>>

CallOver ==
    /\ phase = "calling"
    /\ \/ calls \notin pending            \* the result is in
       \/ session[server] # "serving"    \* the session has failed
       \/ Expired                        \* and the call is left pending
    /\ phase' = "ready" /\ waited' = 0 /\ spent' = 0
    /\ UNCHANGED <<calls, children, server, servers, routes, pending>>

-----------------------------------------------------------------------------
(* A child.  It is spawned in a session of its own, with pipes.            *)
Seen(kind) == IF kind = "bash" THEN Group ELSE Group \cup Tree
Without(ms) ==
    [child EXCEPT !.alive = @ \ ms, !.pipes = @ \ ms, !.deaf = @ \ ms]

Spawn(kind) ==
    /\ phase = "ready"
    /\ \E others \in {D \in SUBSET Descendants : Cardinality(D) <= MaxDescendants[configured]} :
       \E inheriting \in SUBSET others, deaf \in SUBSET ({"shell"} \cup (others \cap Seen(kind))) :
       \E reads \in IF kind = "hook" THEN BOOLEAN ELSE {TRUE} :
          child' = [kind |-> kind, alive |-> {"shell"} \cup others,
                    pipes |-> {"shell"} \cup inheriting, deaf |-> deaf, reads |-> reads]
    /\ outcome' = "none" /\ targets' = {}
    /\ phase' = (IF kind = "hook" THEN "writing" ELSE "waiting")
    /\ waited' = 0 /\ spent' = 0
    /\ UNCHANGED <<calls, server, servers, dispatched>>

(* What a call leaves behind is not followed beyond the next call.         *)
Exit(m) ==
    /\ phase \in ChildPhases /\ m \in child.alive
    /\ child' = Without({m})
    /\ UNCHANGED <<phase, waited, spent, calls, outcome, targets, server, servers, dispatched>>

Holders == child.pipes
Running == "shell" \in child.alive

(* The payload is written before the timed wait begins.                    *)
Written ==
    /\ phase = "writing" /\ (child.reads \/ Holders = {})
    /\ phase' = "waiting" /\ spent' = 0
    /\ UNCHANGED <<waited, calls, children, server, servers, dispatched>>

(* `process.wait(timeout=...)`.                                            *)
WaitOver ==
    /\ phase = "waiting" /\ (~Running \/ Expired)
    /\ IF Running THEN outcome' = "timed_out" /\ phase' = "expired"
                  ELSE outcome' = "exited" /\ phase' = "joining"
    /\ waited' = 0
    /\ UNCHANGED <<spent, calls, child, targets, server, servers, dispatched>>

(* SIGTERM: bash to the group, a hook to the groups of its tree, which is  *)
(* the shell alone if that has exited since.                               *)
Rooted == IF Running THEN Tree \cap child.alive ELSE {}
Reached(ps) == ps \cup (IF ps \cap Group # {} THEN Group ELSE {})
Terminate ==
    /\ phase = "expired"
    /\ targets' = IF child.kind = "bash" THEN {"shell"} \cap child.alive ELSE Rooted
    /\ child' = Without(Reached(targets' \cup {"shell"}) \ child.deaf)
    /\ phase' = "grace"
    /\ UNCHANGED <<waited, spent, calls, outcome, server, servers, dispatched>>

(* SIGKILL, bash to the group whatever became of the shell, a hook to the  *)
(* groups of what is left of its tree.                                     *)
(* What-if: only a shell that sat out the grace has its group killed.      *)
KilledUnlessShellExited == Reached(targets \cap child.alive)
(* What-if: the process is killed, not its group.                          *)
KilledAlone == IF child.kind = "bash" THEN {"shell"} ELSE targets \cap child.alive
Killed == IF child.kind = "bash" THEN Group ELSE Reached(targets \cap child.alive)
Kill ==
    /\ phase = "grace" /\ (targets \cap child.alive = {} \/ Expired)
    /\ child' = Without(Killed)
    /\ phase' = "joining" /\ waited' = 0
    /\ UNCHANGED <<spent, calls, outcome, targets, server, servers, dispatched>>

(* The readers see the end of both pipes.                                  *)
Join ==
    /\ phase = "joining" /\ Holders = {}
    /\ phase' = "ready" /\ spent' = 0
    /\ UNCHANGED <<waited, calls, children, server, servers, dispatched>>

-----------------------------------------------------------------------------
(* `close`: the registered servers are told, then the tasks are awaited,   *)
(* then the thread of the event loop.  Without servers there is no loop.   *)
(* What-if: the servers of the snapshot are told.                          *)
AdvertisedOnly == routes
Registered == {s \in 1..configured : session[s] \in Connected}
Tasks == {s \in 1..configured : session[s] \in {"connecting"} \cup Connected}

Close ==
    /\ phase = "ready"
    /\ told' = Registered
    /\ phase' = (IF configured = 0 THEN "closed" ELSE "closing")
    /\ waited' = 0 /\ spent' = 0
    /\ Forget
    /\ UNCHANGED <<calls, configured, server, session, since, dispatched>>

(* All have ended, or time is up: the event loop is told to stop.          *)
CloseOver ==
    /\ phase = "closing" /\ (Tasks = {} \/ Expired)
    /\ phase' = "stopping" /\ waited' = 0
    /\ UNCHANGED <<spent, calls, children, server, servers, dispatched>>

(* Its thread ends, now or later, or is given up.                          *)
StopOver ==
    /\ phase = "stopping"
    /\ phase' = "closed"
    /\ UNCHANGED <<waited, spent, calls, children, server, servers, dispatched>>

-----------------------------------------------------------------------------
LoopSteps == \/ ConnectOver \/ CallOver \/ Written \/ WaitOver
             \/ Terminate \/ Kill \/ Join \/ CloseOver \/ StopOver

(* Whether the loop thread has what it waits for, or has waited enough.    *)
Due ==
    \/ Expired
    \/ phase \in {"ready", "closed", "expired"}
    \/ phase = "connecting" /\ session[server] # "connecting"
    \/ phase = "calling" /\ (calls \notin pending \/ session[server] # "serving")
    \/ phase = "writing" /\ (child.reads \/ Holders = {})
    \/ phase = "waiting" /\ ~Running
    \/ phase = "grace" /\ targets \cap child.alive = {}
    \/ phase = "joining" /\ Holders = {}
    \/ phase = "closing" /\ Tasks = {}

(* Time passes while the loop thread waits.                                *)
Tick ==
    /\ ~Due
    /\ waited' = IF phase \in DOMAIN Timed THEN waited + 1 ELSE waited
    /\ spent' = IF spent < Limit THEN spent + 1 ELSE spent
    /\ UNCHANGED <<phase, calls, children, server, servers, dispatched>>

Next ==
    \/ LoopSteps \/ Tick \/ Close \/ ServerStep
    \/ \E s \in 1..MaxServers : Dispatch(s)
    \/ \E kind \in {"bash", "hook"} : Spawn(kind)
    \/ \E m \in Members : Exit(m)
    \/ \E n \in 1..MaxCalls : Land(n)

Spec == Init /\ [][Next]_vars

-----------------------------------------------------------------------------
(* The ways a child keeps the loop thread although its time is up: a hook  *)
(* that does not read what it is sent, a shell that exited in time and     *)
(* left its pipes to somebody, or a process its kill cannot see.           *)
Beyond ==
    IF child.kind = "bash" THEN {"escaped", "detached"}
    ELSE {"detached"} \cup ({"orphan"} \cap child.deaf)
         \cup (IF targets = {} THEN Descendants ELSE {})
Held ==
    \/ phase = "writing" /\ ~child.reads
    \/ phase = "joining" /\ outcome = "exited" /\ Holders # {}
    \/ phase = "joining" /\ outcome = "timed_out" /\ Holders \cap Beyond # {}

Allowed ==
    IF phase = "connecting" THEN server * ConnectTimeout
    ELSE IF phase = "calling" THEN CallTimeout
    ELSE IF phase = "closing" THEN CloseTimeout
    ELSE IF phase = "stopping" THEN 2 * CloseTimeout
    ELSE IF phase = "writing" THEN 0
    ELSE ChildTimeout + Grace

(* No wait lasts longer than its timeouts but for the causes of Held       *)
(* (`run_bash`, `_run_hook`, `WorkerMCP`).                                 *)
OverrunHasACause ==
    ~Due /\ spent > Allowed => Held

(* When a command is reported as timed out with its process group killed   *)
(* (`format_bash_result`), the group is gone, and so is the tree a hook's  *)
(* sweep went for.                                                         *)
TimedOutIsGone ==
    phase = "ready" /\ outcome = "timed_out" =>
        child.alive \cap (IF child.kind = "bash" THEN Group ELSE targets) = {}

(* A server that connects within the timeout is advertised, however slow   *)
(* the ones before it (`WorkerMCP.start`).                                 *)
PromptIsAdvertised ==
    phase # "connecting" => {s \in 1..configured : since[s] = "promptly"} \subseteq routes

(* After the close, a server still serving was told to stop, unless it     *)
(* came up during the close; one that connected too late to be advertised  *)
(* is told too (`WorkerMCP._shutdown_all`).                                *)
RegisteredIsTold ==
    phase = "closed" =>
        \A s \in 1..configured \ told :
            session[s] \in Connected => since[s] = "closing"

(* Every server that comes up in time is advertised, and every one that    *)
(* comes up is told to stop at the end (`WorkerMCP`).                      *)
ServersAreKnown == PromptIsAdvertised /\ RegisteredIsTold

-----------------------------------------------------------------------------
(* What the docstring of WorkerMCP says of the servers' start, "turn-1     *)
(* delay = max, not sum"; the bounds of MCCalls_waits.cfg refute it.       *)
StartIsMaxNotSum ==
    phase = "connecting" => spent <= ConnectTimeout
=============================================================================
