---------------------------- MODULE Calls_proofs ----------------------------
(***************************************************************************)
(* Proofs about Calls: the waits of a loop thread, for any number of       *)
(* servers and calls, any timeouts, and any descendants of a command.      *)
(***************************************************************************)
EXTENDS Calls, Integers, TLAPS

(* The types, in the parts that the steps touch.                           *)
Phases == ChildPhases \cup {"connecting", "ready", "calling", "closing", "stopping", "closed"}
WaitTypes ==
    /\ phase \in Phases
    /\ waited \in Nat /\ waited <= Limit
    /\ spent \in Nat /\ spent <= Limit
CallTypes ==
    /\ calls \in Nat /\ calls <= MaxCalls
    /\ pending \subseteq 1..calls
ChildTypes ==
    /\ child \in Child
    /\ outcome \in {"none", "exited", "timed_out"}
    /\ targets \subseteq Members
ServerTypes ==
    /\ configured \in Nat /\ configured <= MaxServers
    /\ server \in Nat /\ 1 <= server /\ (server = 1 \/ server <= configured)
    /\ session \in [1..configured -> {"connecting", "failed", "ended"} \cup Connected]
    /\ since \in [1..configured -> {"never", "promptly", "starting", "working", "closing"}]
    /\ routes \subseteq 1..configured /\ told \subseteq 1..configured

(* No bounded wait outlasts its own timeout, and only those are counted.   *)
WaitedWithin ==
    /\ waited \in Nat
    /\ phase = "connecting" => waited <= ConnectTimeout
    /\ phase = "calling" => waited <= CallTimeout
    /\ phase = "waiting" => waited <= ChildTimeout
    /\ phase = "grace"   => waited <= Grace
    /\ phase \in {"closing", "stopping", "closed"} => waited <= CloseTimeout
    /\ phase \in {"writing", "expired", "joining", "ready"} => waited = 0

(* What has been spent is what the waits before have used up at most.      *)
SpentWithin ==
    /\ phase = "connecting" => /\ spent <= (server - 1) * ConnectTimeout + waited
                               /\ waited <= spent
    /\ phase \in {"calling", "waiting", "closing"} => spent <= waited
    /\ phase = "expired" => spent <= ChildTimeout
    /\ phase = "grace" => spent <= ChildTimeout + waited
    /\ phase = "stopping" => spent <= CloseTimeout + waited

(* Only the living hold pipes; the outcome goes with the phase.            *)
ChildInOrder ==
    /\ child.pipes \subseteq child.alive
    /\ phase \in {"expired", "grace"} => outcome = "timed_out"
    /\ phase = "joining" => outcome \in {"exited", "timed_out"}
    /\ phase \in {"connecting", "calling", "writing", "waiting",
                "closing", "stopping", "closed"}
          => outcome = "none"

(* Between SIGTERM and SIGKILL of a hook: what lives of its tree is a      *)
(* target, and what lives of its group is deaf; without a target there was *)
(* no shell any more.                                                      *)
Signalled ==
    phase = "grace" /\ child.kind = "hook" =>
        /\ targets = {} => "shell" \notin child.alive
        /\ targets # {} => /\ Tree \cap child.alive \subseteq targets
                           /\ "orphan" \in child.alive => "orphan" \in child.deaf

(* After SIGKILL: the group, or the tree that was gone for, is gone, and   *)
(* whoever still holds a pipe is beyond the kill.                          *)
Swept ==
    outcome = "timed_out" /\ phase \notin {"expired", "grace"} =>
        /\ child.alive \cap (IF child.kind = "bash" THEN Group ELSE targets) = {}
        /\ phase = "joining" => Holders \subseteq Beyond

(* A server that connected in time is advertised, or its turn is to come;  *)
(* one whose turn has passed without it had its time.                      *)
Collected ==
    /\ phase = "connecting" => server \in 1..configured
    /\ phase \notin {"closing", "stopping", "closed"} => told = {}
    /\ \A s \in 1..configured :
          /\ session[s] = "connecting" => since[s] = "never"
          /\ session[s] = "ended" => s \in told
          /\ since[s] = "promptly" =>
                \/ s \in routes
                \/ phase = "connecting" /\ s >= server /\ session[s] # "failed"
          /\ phase = "connecting" /\ s < server /\ session[s] = "connecting"
                => spent >= ConnectTimeout

(* From the close on, who serves was told or came up afterwards.           *)
ToldInTime ==
    phase \in {"closing", "stopping", "closed"} =>
        \A s \in 1..configured \ told :
            session[s] \in Connected => since[s] = "closing"

IInv == /\ WaitTypes /\ CallTypes /\ ChildTypes /\ ServerTypes
        /\ WaitedWithin /\ SpentWithin /\ ChildInOrder
        /\ Signalled /\ Swept /\ Collected /\ ToldInTime

LEMMA Numbers ==
    /\ MaxServers \in Nat /\ MaxCalls \in Nat /\ Limit \in Nat
    /\ ConnectTimeout \in Nat /\ 0 < ConnectTimeout /\ ConnectTimeout <= Limit
    /\ CallTimeout \in Nat /\ CallTimeout <= Limit
    /\ CloseTimeout \in Nat /\ CloseTimeout <= Limit
    /\ ChildTimeout \in Nat /\ ChildTimeout <= Limit
    /\ Grace \in Nat /\ Grace <= Limit
  BY CallsAssumption, LimitAssumption

USE Numbers DEF ChildPhases, Connected, children, servers, dispatched


LEMMA TypeParts == TypeOK <=> WaitTypes /\ CallTypes /\ ChildTypes /\ ServerTypes
  <1> USE Numbers
  <1>1. WaitTypes <=> phase \in Phases /\ waited \in 0..Limit /\ spent \in 0..Limit
    BY DEF WaitTypes
  <1>2. CallTypes <=> calls \in 0..MaxCalls /\ pending \subseteq 1..calls
    BY DEF CallTypes
  <1>3. /\ configured \in 0..MaxServers <=> configured \in Nat /\ configured <= MaxServers
        /\ configured \in Nat => (server \in {1} \cup 1..configured <=>
              server \in Nat /\ 1 <= server /\ (server = 1 \/ server <= configured))
    OBVIOUS
  <1>4. TypeOK <=> /\ phase \in Phases /\ waited \in 0..Limit /\ spent \in 0..Limit
                   /\ calls \in 0..MaxCalls /\ pending \subseteq 1..calls
                   /\ ChildTypes
                   /\ configured \in 0..MaxServers /\ server \in {1} \cup 1..configured
                   /\ session \in [1..configured -> {"connecting", "failed", "ended"} \cup Connected]
                   /\ since \in [1..configured -> {"never", "promptly", "starting", "working", "closing"}]
                   /\ routes \subseteq 1..configured /\ told \subseteq 1..configured
    BY Zenon DEF TypeOK, ChildTypes, Phases
  <1> QED BY <1>1, <1>2, <1>3, <1>4, Zenon DEF ServerTypes

-----------------------------------------------------------------------------
(* Which waits are timed, and when they are over.                          *)
LEMMA ExpiredAt ==
    /\ phase = "connecting" => (Expired <=> waited = ConnectTimeout)
    /\ phase = "calling" => (Expired <=> waited = CallTimeout)
    /\ phase = "waiting" => (Expired <=> waited = ChildTimeout)
    /\ phase = "grace"   => (Expired <=> waited = Grace)
    /\ phase \in {"closing", "stopping"} => (Expired <=> waited = CloseTimeout)
    /\ phase \in DOMAIN Timed <=>
          phase \in {"connecting", "calling", "waiting", "grace", "closing", "stopping"}
  BY DEF Expired, Timed

LEMMA InitInv == Init => IInv
  <1> SUFFICES ASSUME Init PROVE IInv OBVIOUS
  <1>1. child \in Child /\ child.pipes = {} /\ child.alive = {}
    BY DEF Init, NoChild, Child
  <1>2. WaitTypes /\ CallTypes /\ ChildTypes /\ ServerTypes
    BY <1>1 DEF Init, WaitTypes, CallTypes, ChildTypes, ServerTypes, Phases
  <1>3. WaitedWithin /\ Signalled /\ Swept /\ ToldInTime
    BY DEF Init, WaitedWithin, Signalled, Swept, ToldInTime
  <1>4. SpentWithin
    <2>1. (server - 1) * ConnectTimeout = 0
      <3>1. server - 1 = 0 BY DEF Init
      <3>2. 0 * ConnectTimeout = 0 OBVIOUS
      <3> QED BY <3>1, <3>2
    <2> QED BY <2>1 DEF Init, SpentWithin
  <1>5. ChildInOrder BY <1>1 DEF Init, ChildInOrder
  <1>6. Collected BY DEF Init, Collected
  <1> QED BY <1>2, <1>3, <1>4, <1>5, <1>6 DEF IInv

-----------------------------------------------------------------------------
(* What a step owes to the parts of the state it does not write.           *)
LEMMA ServersStay ==
    ASSUME WaitTypes, ServerTypes, Collected, ToldInTime, UNCHANGED <<configured, session, since, told, routes>>,
           phase' = "connecting" =>
              phase = "connecting" /\ server' = server /\ spent' \in Nat /\ spent <= spent',
           phase = "connecting" => phase' = "connecting",
           phase' \in {"closing", "stopping", "closed"} <=> phase \in {"closing", "stopping", "closed"}
    PROVE  Collected' /\ ToldInTime'
  <1>1. Collected'
    <2>1. spent \in Nat /\ server \in Nat BY DEF WaitTypes, ServerTypes
    <2> QED BY <2>1 DEF Collected
  <1>2. ToldInTime' BY DEF ToldInTime
  <1> QED BY <1>1, <1>2

(* A child that is forgotten, or one nobody is waiting for any more.       *)
LEMMA ChildForgotten ==
    ASSUME Forget
    PROVE  /\ child' \in Child /\ outcome' = "none" /\ targets' = {}
           /\ child'.pipes \subseteq child'.alive
           /\ Swept'
  BY DEF Forget, NoChild, Child, Swept

LEMMA ChildStays ==
    ASSUME ChildInOrder, Swept, UNCHANGED <<child, outcome, targets>>,
           phase \notin {"expired", "grace"}, phase' \notin {"expired", "grace"},
           phase' = "joining" => phase = "joining" \/ outcome # "timed_out"
    PROVE  Swept' /\ Signalled'
  <1>1. Swept' BY DEF Swept, Holders, Beyond
  <1>2. Signalled' BY DEF Signalled
  <1> QED BY <1>1, <1>2

(* A child that loses processes is still a child.                          *)
LEMMA WithoutIs ==
    ASSUME child \in Child, NEW ms
    PROVE  /\ Without(ms) \in Child
           /\ Without(ms).alive = child.alive \ ms
           /\ Without(ms).pipes = child.pipes \ ms
           /\ Without(ms).deaf = child.deaf \ ms
           /\ Without(ms).kind = child.kind
           /\ Without(ms).reads = child.reads
  <1> DEFINE c1 == [child EXCEPT !.alive = @ \ ms]
             c2 == [c1 EXCEPT !.pipes = @ \ ms]
             c3 == [c2 EXCEPT !.deaf = @ \ ms]
  <1>1. Without(ms) = c3 BY DEF Without
  <1>2. /\ c1 \in Child /\ c1.alive = child.alive \ ms /\ c1.pipes = child.pipes
        /\ c1.deaf = child.deaf /\ c1.kind = child.kind /\ c1.reads = child.reads
    BY DEF Child
  <1> HIDE DEF c1
  <1>3. /\ c2 \in Child /\ c2.alive = c1.alive /\ c2.pipes = c1.pipes \ ms
        /\ c2.deaf = c1.deaf /\ c2.kind = c1.kind /\ c2.reads = c1.reads
    BY <1>2 DEF Child
  <1> HIDE DEF c2
  <1>4. /\ c3 \in Child /\ c3.alive = c2.alive /\ c3.pipes = c2.pipes
        /\ c3.deaf = c2.deaf \ ms /\ c3.kind = c2.kind /\ c3.reads = c2.reads
    BY <1>3 DEF Child
  <1> HIDE DEF c3
  <1> QED BY <1>1, <1>2, <1>3, <1>4

-----------------------------------------------------------------------------
(* The servers.                                                            *)
LEMMA ServerStepInv == ASSUME IInv, ServerStep PROVE IInv'
  <1> USE DEF IInv
  <1>1. /\ UNCHANGED <<phase, waited, spent, calls, children, server, dispatched>>
        /\ configured' = configured /\ told' = told /\ phase # "closed"
    BY DEF ServerStep, Register, FailToConnect, Die, TearDown
  <1>2. WaitedWithin' /\ SpentWithin' /\ ChildInOrder' /\ Signalled' /\ Swept'
    BY <1>1 DEF WaitedWithin, SpentWithin, ChildInOrder, Signalled, Swept, Holders, Beyond
  <1>3. PICK s \in 1..configured : Register(s) \/ FailToConnect(s) \/ Die(s) \/ TearDown(s)
    BY DEF ServerStep
  <1>4. /\ session' \in [1..configured -> {"connecting", "failed", "ended"} \cup Connected]
        /\ since' \in [1..configured -> {"never", "promptly", "starting", "working", "closing"}]
        /\ \A t \in 1..configured : t # s => session'[t] = session[t] /\ since'[t] = since[t]
    <2>1. CASE Register(s)
      <3> DEFINE mark == CASE phase = "connecting" /\ spent < ConnectTimeout -> "promptly"
                           [] phase = "connecting" -> "starting"
                           [] phase \in {"closing", "stopping"} -> "closing"
                           [] OTHER                -> "working"
      <3>1. mark \in {"promptly", "starting", "closing", "working"} OBVIOUS
      <3>2. /\ session' = [session EXCEPT ![s] = "serving"]
            /\ since' = [since EXCEPT ![s] = mark]
        BY <2>1 DEF Register
      <3> HIDE DEF mark
      <3> QED BY <3>1, <3>2 DEF ServerTypes
    <2>2. CASE FailToConnect(s) BY <2>2 DEF FailToConnect, ServerTypes
    <2>3. CASE Die(s) BY <2>3 DEF Die, ServerTypes
    <2>4. CASE TearDown(s) BY <2>4 DEF TearDown, ServerTypes
    <2> QED BY <1>3, <2>1, <2>2, <2>3, <2>4
  <1>5. WaitTypes' /\ CallTypes' /\ ChildTypes' /\ ServerTypes'
    BY <1>1, <1>4 DEF WaitTypes, CallTypes, ChildTypes, ServerTypes, Phases
  <1>6. \/ /\ session[s] = "connecting" /\ session'[s] = "serving"
           /\ since'[s] = "promptly" => phase = "connecting" /\ spent < ConnectTimeout
           /\ phase \in {"closing", "stopping"} => since'[s] = "closing"
        \/ session[s] = "connecting" /\ session'[s] = "failed" /\ since'[s] = since[s]
        \/ session[s] = "serving" /\ session'[s] = "dead" /\ since'[s] = since[s]
        \/ s \in told /\ session'[s] = "ended" /\ since'[s] = since[s]
    BY <1>3 DEF Register, FailToConnect, Die, TearDown, ServerTypes
  <1>7. Collected'
    <2>1. spent \in Nat /\ server \in Nat /\ s \in Nat BY DEF WaitTypes, ServerTypes
    <2>2. /\ phase' = "connecting" => server' \in 1..configured'
          /\ phase' \notin {"closing", "stopping", "closed"} => told' = {}
      BY <1>1 DEF Collected
    <2>3. ASSUME NEW t \in 1..configured, t # s
          PROVE  /\ session'[t] = "connecting" => since'[t] = "never"
                 /\ session'[t] = "ended" => t \in told'
                 /\ since'[t] = "promptly" =>
                       \/ t \in routes'
                       \/ phase' = "connecting" /\ t >= server' /\ session'[t] # "failed"
                 /\ phase' = "connecting" /\ t < server' /\ session'[t] = "connecting"
                       => spent' >= ConnectTimeout
      BY <1>1, <1>4, <2>3 DEF Collected
    <2>4. /\ session'[s] = "connecting" => since'[s] = "never"
          /\ session'[s] = "ended" => s \in told'
          /\ since'[s] = "promptly" =>
                \/ s \in routes'
                \/ phase' = "connecting" /\ s >= server' /\ session'[s] # "failed"
          /\ phase' = "connecting" /\ s < server' /\ session'[s] = "connecting"
                => spent' >= ConnectTimeout
      BY <1>1, <1>6, <2>1 DEF Collected
    <2> QED BY <1>1, <2>2, <2>3, <2>4 DEF Collected
  <1>8. ToldInTime' BY <1>1, <1>4, <1>6 DEF ToldInTime
  <1> QED BY <1>2, <1>5, <1>7, <1>8

LEMMA LandInv == ASSUME IInv, NEW n, Land(n) PROVE IInv'
  <1> USE DEF IInv
  <1>1. /\ UNCHANGED <<phase, waited, spent, calls, children, server, servers, routes>>
        /\ pending' \subseteq pending
    BY DEF Land
  <1>2. WaitTypes' /\ CallTypes' /\ ChildTypes' /\ ServerTypes'
    BY <1>1 DEF WaitTypes, CallTypes, ChildTypes, ServerTypes, Phases
  <1>3. WaitedWithin' /\ SpentWithin' /\ ChildInOrder' /\ Signalled' /\ Swept'
    BY <1>1 DEF WaitedWithin, SpentWithin, ChildInOrder, Signalled, Swept, Holders, Beyond
  <1>4. Collected' /\ ToldInTime' BY <1>1 DEF Collected, ToldInTime
  <1> QED BY <1>2, <1>3, <1>4

-----------------------------------------------------------------------------
(* The connects, collected in order.                                       *)
LEMMA ConnectOverInv == ASSUME IInv, ConnectOver PROVE IInv'
  <1> USE DEF IInv
  <1>1. /\ phase = "connecting" /\ (session[server] # "connecting" \/ Expired)
        /\ Collect(server)
        /\ waited' = 0 /\ spent' = IF phase' = "ready" THEN 0 ELSE spent
        /\ UNCHANGED <<calls, children, servers, pending>>
    BY DEF ConnectOver
  <1>2. server \in 1..configured /\ configured \in Nat /\ told = {} /\ outcome = "none"
    BY <1>1 DEF Collected, ServerTypes, ChildInOrder
  <1>3. /\ routes' = IF session[server] \in Connected THEN routes \cup {server} ELSE routes
        /\ \/ server = configured /\ phase' = "ready" /\ server' = server
           \/ server < configured /\ phase' = "connecting" /\ server' = server + 1
    BY <1>1, <1>2 DEF Collect
  <1>4. spent' \in Nat /\ spent' <= Limit /\ spent \in Nat /\ waited \in Nat
    BY <1>1 DEF WaitTypes
  <1>5. WaitTypes' /\ CallTypes' /\ ChildTypes' /\ ServerTypes'
    BY <1>1, <1>2, <1>3, <1>4 DEF WaitTypes, CallTypes, ChildTypes, ServerTypes, Phases
  <1>6. WaitedWithin' BY <1>1, <1>3 DEF WaitedWithin
  <1>7. SpentWithin'
    <2>1. spent <= (server - 1) * ConnectTimeout + waited /\ waited <= ConnectTimeout
      BY <1>1 DEF SpentWithin, WaitedWithin
    <2>2. (server - 1) * ConnectTimeout + ConnectTimeout = server * ConnectTimeout
      BY <1>2
    <2>3. (server - 1) * ConnectTimeout \in Nat /\ server * ConnectTimeout \in Nat
      BY <1>2
    <2>4. spent <= server * ConnectTimeout BY <1>4, <2>1, <2>2, <2>3
    <2>5. phase' = "connecting" => server' - 1 = server BY <1>2, <1>3
    <2> QED BY <1>1, <1>3, <1>4, <2>3, <2>4, <2>5 DEF SpentWithin
  <1>8. ChildInOrder' /\ Signalled' /\ Swept'
    BY <1>1, <1>2, <1>3 DEF ChildInOrder, Signalled, Swept
  <1>9. Collected'
    <2>1. since[server] = "promptly" => server \in routes'
      BY <1>1, <1>2, <1>3 DEF Collected, ServerTypes
    <2>2. session[server] = "connecting" => spent >= ConnectTimeout
      BY <1>1, ExpiredAt DEF SpentWithin, WaitTypes
    <2> QED BY <1>1, <1>2, <1>3, <1>4, <2>1, <2>2 DEF Collected
  <1>10. ToldInTime' BY <1>3 DEF ToldInTime
  <1> QED BY <1>5, <1>6, <1>7, <1>8, <1>9, <1>10

-----------------------------------------------------------------------------
(* The MCP calls.                                                          *)
LEMMA DispatchInv == ASSUME IInv, NEW s, Dispatch(s) PROVE IInv'
  <1> USE DEF IInv
  <1>1. /\ phase = "ready" /\ phase' = "calling" /\ s \in routes /\ server' = s
        /\ waited' = 0 /\ spent' = 0 /\ calls' = calls + 1 /\ calls < MaxCalls
        /\ pending' = pending \cup {calls + 1}
        /\ Forget /\ UNCHANGED <<servers, routes>>
    BY DEF Dispatch
  <1>2. /\ child' \in Child /\ outcome' = "none" /\ targets' = {}
        /\ child'.pipes \subseteq child'.alive
        /\ Swept'
    BY <1>1, ChildForgotten
  <1>3. WaitTypes' /\ CallTypes' /\ ChildTypes' /\ ServerTypes'
    <2>1. CallTypes' BY <1>1 DEF CallTypes
    <2> QED BY <1>1, <1>2, <2>1 DEF WaitTypes, CallTypes, ChildTypes, ServerTypes, Phases
  <1>4. WaitedWithin' /\ SpentWithin' BY <1>1 DEF WaitedWithin, SpentWithin
  <1>5. ChildInOrder' /\ Signalled' BY <1>1, <1>2 DEF ChildInOrder, Signalled
  <1>6. Collected' /\ ToldInTime' BY <1>1, ServersStay
  <1> QED BY <1>2, <1>3, <1>4, <1>5, <1>6

LEMMA CallOverInv == ASSUME IInv, CallOver PROVE IInv'
  <1> USE DEF IInv
  <1>1. /\ phase = "calling" /\ phase' = "ready" /\ waited' = 0 /\ spent' = 0
        /\ UNCHANGED <<calls, children, server, servers, routes, pending>>
    BY DEF CallOver
  <1>2. WaitTypes' /\ CallTypes' /\ ChildTypes' /\ ServerTypes'
    BY <1>1 DEF WaitTypes, CallTypes, ChildTypes, ServerTypes, Phases
  <1>3. WaitedWithin' /\ SpentWithin' /\ ChildInOrder'
    BY <1>1 DEF WaitedWithin, SpentWithin, ChildInOrder
  <1>4. Signalled' /\ Swept' BY <1>1, ChildStays
  <1>5. Collected' /\ ToldInTime' BY <1>1, ServersStay
  <1> QED BY <1>2, <1>3, <1>4, <1>5

-----------------------------------------------------------------------------
(* A child, from its spawn to the end of its pipes.                        *)
LEMMA SpawnInv == ASSUME IInv, NEW kind \in {"bash", "hook"}, Spawn(kind) PROVE IInv'
  <1> USE DEF IInv
  <1>1. /\ phase = "ready" /\ outcome' = "none" /\ targets' = {}
        /\ phase' = (IF kind = "hook" THEN "writing" ELSE "waiting")
        /\ waited' = 0 /\ spent' = 0
        /\ UNCHANGED <<calls, server, servers, dispatched>>
    BY DEF Spawn
  <1>2. PICK others \in SUBSET Descendants :
          \E inheriting \in SUBSET others, deaf \in SUBSET ({"shell"} \cup (others \cap Seen(kind))) :
          \E reads \in IF kind = "hook" THEN BOOLEAN ELSE {TRUE} :
             child' = [kind |-> kind, alive |-> {"shell"} \cup others,
                       pipes |-> {"shell"} \cup inheriting, deaf |-> deaf, reads |-> reads]
    BY DEF Spawn
  <1>a. PICK inheriting \in SUBSET others, deaf \in SUBSET ({"shell"} \cup (others \cap Seen(kind))) :
          \E reads \in IF kind = "hook" THEN BOOLEAN ELSE {TRUE} :
             child' = [kind |-> kind, alive |-> {"shell"} \cup others,
                       pipes |-> {"shell"} \cup inheriting, deaf |-> deaf, reads |-> reads]
    BY <1>2
  <1>b. PICK reads \in BOOLEAN :
             child' = [kind |-> kind, alive |-> {"shell"} \cup others,
                       pipes |-> {"shell"} \cup inheriting, deaf |-> deaf, reads |-> reads]
    BY <1>a
  <1>3. child' \in Child /\ child'.pipes \subseteq child'.alive
    BY <1>b DEF Child, Members
  <1>4. WaitTypes' /\ CallTypes' /\ ChildTypes' /\ ServerTypes'
    BY <1>1, <1>3 DEF WaitTypes, CallTypes, ChildTypes, ServerTypes, Phases
  <1>5. WaitedWithin' /\ SpentWithin' /\ ChildInOrder' /\ Signalled' /\ Swept'
    BY <1>1, <1>3 DEF WaitedWithin, SpentWithin, ChildInOrder, Signalled, Swept
  <1>6. Collected' /\ ToldInTime' BY <1>1, ServersStay
  <1> QED BY <1>4, <1>5, <1>6

LEMMA ExitInv == ASSUME IInv, NEW m, Exit(m) PROVE IInv'
  <1> USE DEF IInv
  <1>1. /\ phase \in ChildPhases /\ child' = Without({m})
        /\ UNCHANGED <<phase, waited, spent, calls, outcome, targets, server, servers, dispatched>>
    BY DEF Exit
  <1>2. /\ child' \in Child
        /\ child'.alive = child.alive \ {m} /\ child'.pipes = child.pipes \ {m}
        /\ child'.deaf = child.deaf \ {m} /\ child'.kind = child.kind
    BY <1>1, WithoutIs DEF ChildTypes
  <1>3. WaitTypes' /\ CallTypes' /\ ChildTypes' /\ ServerTypes'
    BY <1>1, <1>2 DEF WaitTypes, CallTypes, ChildTypes, ServerTypes, Phases
  <1>4. WaitedWithin' /\ SpentWithin' BY <1>1 DEF WaitedWithin, SpentWithin
  <1>5. ChildInOrder' BY <1>1, <1>2 DEF ChildInOrder
  <1>6. Signalled' BY <1>1, <1>2 DEF Signalled
  <1>7. Swept' BY <1>1, <1>2 DEF Swept, Holders, Beyond
  <1>8. Collected' /\ ToldInTime' BY <1>1, ServersStay DEF WaitTypes
  <1> QED BY <1>3, <1>4, <1>5, <1>6, <1>7, <1>8

LEMMA WrittenInv == ASSUME IInv, Written PROVE IInv'
  <1> USE DEF IInv
  <1>1. /\ phase = "writing" /\ phase' = "waiting" /\ spent' = 0
        /\ UNCHANGED <<waited, calls, children, server, servers, dispatched>>
    BY DEF Written
  <1>2. WaitTypes' /\ CallTypes' /\ ChildTypes' /\ ServerTypes'
    BY <1>1 DEF WaitTypes, CallTypes, ChildTypes, ServerTypes, Phases
  <1>3. WaitedWithin' /\ SpentWithin' /\ ChildInOrder'
    BY <1>1 DEF WaitedWithin, SpentWithin, ChildInOrder
  <1>4. Signalled' /\ Swept' BY <1>1, ChildStays
  <1>5. Collected' /\ ToldInTime' BY <1>1, ServersStay
  <1> QED BY <1>2, <1>3, <1>4, <1>5

LEMMA WaitOverInv == ASSUME IInv, WaitOver PROVE IInv'
  <1> USE DEF IInv
  <1>1. /\ phase = "waiting" /\ waited' = 0
        /\ \/ Running /\ outcome' = "timed_out" /\ phase' = "expired"
           \/ ~Running /\ outcome' = "exited" /\ phase' = "joining"
        /\ UNCHANGED <<spent, calls, child, targets, server, servers, dispatched>>
    BY DEF WaitOver
  <1>2. WaitTypes' /\ CallTypes' /\ ChildTypes' /\ ServerTypes'
    BY <1>1 DEF WaitTypes, CallTypes, ChildTypes, ServerTypes, Phases
  <1>3. WaitedWithin' /\ ChildInOrder' /\ Signalled' /\ Swept'
    BY <1>1 DEF WaitedWithin, ChildInOrder, Signalled, Swept
  <1>4. SpentWithin'
    <2>1. spent <= ChildTimeout BY <1>1 DEF SpentWithin, WaitedWithin, WaitTypes
    <2> QED BY <1>1, <2>1 DEF SpentWithin
  <1>5. Collected' /\ ToldInTime' BY <1>1, ServersStay
  <1> QED BY <1>2, <1>3, <1>4, <1>5

(* SIGTERM.  A hook's sweep that finds the shell reaches its whole group.  *)
LEMMA TerminateInv == ASSUME IInv, Terminate PROVE IInv'
  <1> USE DEF IInv
  <1> DEFINE ms == Reached(targets' \cup {"shell"}) \ child.deaf
  <1>1. /\ phase = "expired" /\ phase' = "grace"
        /\ targets' = IF child.kind = "bash" THEN {"shell"} \cap child.alive ELSE Rooted
        /\ child' = Without(ms)
        /\ UNCHANGED <<waited, spent, calls, outcome, server, servers, dispatched>>
    BY DEF Terminate
  <1>2. /\ child' \in Child
        /\ child'.alive = child.alive \ ms /\ child'.pipes = child.pipes \ ms
        /\ child'.deaf = child.deaf \ ms /\ child'.kind = child.kind
    BY <1>1, WithoutIs DEF ChildTypes
  <1>3. targets' \subseteq Members BY <1>1 DEF Rooted, Tree, Members, Descendants
  <1>4. Group \subseteq Reached(targets' \cup {"shell"}) BY DEF Reached, Group
  <1>5. \A x \in Group : x \in child'.alive => x \in child'.deaf
    BY <1>2, <1>4
  <1>6. Signalled'
    <2> SUFFICES ASSUME child.kind = "hook"
                 PROVE  /\ targets' = {} => "shell" \notin child'.alive
                        /\ targets' # {} =>
                              /\ Tree \cap child'.alive \subseteq targets'
                              /\ "orphan" \in child'.alive => "orphan" \in child'.deaf
      BY <1>2 DEF Signalled
    <2>1. targets' = Rooted BY <1>1
    <2>2. targets' = {} => "shell" \notin child.alive BY <2>1 DEF Rooted, Running, Tree
    <2>3. targets' # {} => Tree \cap child.alive \subseteq targets' BY <2>1 DEF Rooted
    <2>4. "orphan" \in Group BY DEF Group
    <2> QED BY <1>2, <1>5, <2>2, <2>3, <2>4
  <1> HIDE DEF ms
  <1>7. WaitTypes' /\ CallTypes' /\ ChildTypes' /\ ServerTypes'
    BY <1>1, <1>2, <1>3 DEF WaitTypes, CallTypes, ChildTypes, ServerTypes, Phases
  <1>8. WaitedWithin' /\ SpentWithin' /\ Swept'
    BY <1>1 DEF WaitedWithin, SpentWithin, Swept
  <1>9. ChildInOrder' BY <1>1, <1>2 DEF ChildInOrder
  <1>10. Collected' /\ ToldInTime' BY <1>1, ServersStay
  <1> QED BY <1>6, <1>7, <1>8, <1>9, <1>10

(* SIGKILL.                                                                *)
LEMMA KillInv == ASSUME IInv, Kill PROVE IInv'
  <1> USE DEF IInv
  <1>1. /\ phase = "grace" /\ phase' = "joining" /\ waited' = 0 /\ child' = Without(Killed)
        /\ UNCHANGED <<spent, calls, outcome, targets, server, servers, dispatched>>
    BY DEF Kill
  <1>2. /\ child' \in Child
        /\ child'.alive = child.alive \ Killed /\ child'.pipes = child.pipes \ Killed
        /\ child'.deaf = child.deaf \ Killed /\ child'.kind = child.kind
        /\ child.pipes \subseteq child.alive /\ child.alive \subseteq Members
    BY <1>1, WithoutIs DEF ChildTypes, ChildInOrder, Child
  <1>3. ASSUME child.kind = "bash" PROVE Swept'
    <2>1. Killed = Group BY <1>3 DEF Killed
    <2>2. Beyond' = {"escaped", "detached"} BY <1>2, <1>3 DEF Beyond
    <2>3. child'.pipes \subseteq {"escaped", "detached"}
      BY <1>2, <2>1 DEF Members, Descendants, Group
    <2>4. child'.alive \cap Group = {} BY <1>2, <2>1
    <2>5. Holders' = child'.pipes BY DEF Holders
    <2>6. Holders' \subseteq Beyond' BY <2>2, <2>3, <2>5
    <2>7. (IF child.kind = "bash" THEN Group ELSE targets)' = Group BY <1>2, <1>3
    <2> QED BY <2>4, <2>6, <2>7 DEF Swept
  <1>4. ASSUME child.kind = "hook" PROVE Swept'
    <2>1. targets \cap child.alive \subseteq Killed BY <1>4 DEF Killed, Reached
    <2>2. child'.alive \cap targets' = {} BY <1>1, <1>2, <2>1
    <2>3. ASSUME NEW x \in child'.pipes PROVE x \in Beyond'
      <3>1. x \in Members /\ x \in child.alive /\ x \notin Killed BY <1>2, <2>3
      <3>2. CASE targets = {}
        <4>1. x # "shell" BY <1>1, <1>4, <3>1, <3>2 DEF Signalled
        <4>2. x \in Descendants BY <3>1, <4>1 DEF Members
        <4> QED BY <1>1, <1>2, <1>4, <3>2, <4>2 DEF Beyond
      <3>3. CASE targets # {}
        <4>1. /\ Tree \cap child.alive \subseteq targets
              /\ "orphan" \in child.alive => "orphan" \in child.deaf
          BY <1>1, <1>4, <3>3 DEF Signalled
        <4>2. x \notin Tree BY <2>1, <3>1, <4>1
        <4>3. x \in {"orphan", "detached"} BY <3>1, <4>2 DEF Members, Descendants, Tree
        <4>4. x = "orphan" => x \in child'.deaf BY <1>2, <3>1, <4>1
        <4> QED BY <1>2, <1>4, <4>3, <4>4 DEF Beyond
      <3> QED BY <3>2, <3>3
    <2>4. Holders' = child'.pipes BY DEF Holders
    <2>5. Holders' \subseteq Beyond' BY <2>3, <2>4
    <2>6. (IF child.kind = "bash" THEN Group ELSE targets)' = targets' BY <1>2, <1>4
    <2> QED BY <2>2, <2>5, <2>6 DEF Swept
  <1>9. Swept' BY <1>2, <1>3, <1>4 DEF Child
  <1> HIDE DEF Killed
  <1>5. WaitTypes' /\ CallTypes' /\ ChildTypes' /\ ServerTypes'
    BY <1>1, <1>2 DEF WaitTypes, CallTypes, ChildTypes, ServerTypes, Phases
  <1>6. WaitedWithin' /\ SpentWithin' /\ Signalled'
    BY <1>1 DEF WaitedWithin, SpentWithin, Signalled
  <1>7. ChildInOrder' BY <1>1, <1>2 DEF ChildInOrder
  <1>8. Collected' /\ ToldInTime' BY <1>1, ServersStay
  <1> QED BY <1>5, <1>6, <1>7, <1>8, <1>9

LEMMA JoinInv == ASSUME IInv, Join PROVE IInv'
  <1> USE DEF IInv
  <1>1. /\ phase = "joining" /\ phase' = "ready" /\ spent' = 0
        /\ UNCHANGED <<waited, calls, children, server, servers, dispatched>>
    BY DEF Join
  <1>2. WaitTypes' /\ CallTypes' /\ ChildTypes' /\ ServerTypes'
    BY <1>1 DEF WaitTypes, CallTypes, ChildTypes, ServerTypes, Phases
  <1>3. WaitedWithin' /\ SpentWithin' /\ ChildInOrder'
    BY <1>1 DEF WaitedWithin, SpentWithin, ChildInOrder
  <1>4. Signalled' /\ Swept' BY <1>1, ChildStays
  <1>5. Collected' /\ ToldInTime' BY <1>1, ServersStay
  <1> QED BY <1>2, <1>3, <1>4, <1>5

-----------------------------------------------------------------------------
(* The close, and time.                                                    *)
LEMMA CloseInv == ASSUME IInv, Close PROVE IInv'
  <1> USE DEF IInv
  <1>1. /\ phase = "ready" /\ told' = Registered
        /\ phase' \in {"closing", "closed"} /\ waited' = 0 /\ spent' = 0 /\ Forget
        /\ UNCHANGED <<calls, configured, server, session, since, dispatched>>
    BY DEF Close
  <1>2. /\ child' \in Child /\ outcome' = "none" /\ targets' = {}
        /\ child'.pipes \subseteq child'.alive
        /\ Swept'
    BY <1>1, ChildForgotten
  <1>3. WaitTypes' /\ CallTypes' /\ ChildTypes' /\ ServerTypes'
    BY <1>1, <1>2 DEF WaitTypes, CallTypes, ChildTypes, ServerTypes, Phases, Registered
  <1>4. WaitedWithin' /\ SpentWithin' BY <1>1 DEF WaitedWithin, SpentWithin
  <1>5. ChildInOrder' /\ Signalled' BY <1>1, <1>2 DEF ChildInOrder, Signalled
  <1>6. \A s \in 1..configured : session[s] # "ended"
    BY <1>1 DEF Collected
  <1>7. Collected' /\ ToldInTime' BY <1>1, <1>6 DEF Collected, ToldInTime, Registered
  <1> QED BY <1>2, <1>3, <1>4, <1>5, <1>7

LEMMA CloseOverInv == ASSUME IInv, CloseOver PROVE IInv'
  <1> USE DEF IInv
  <1>1. /\ phase = "closing" /\ phase' = "stopping" /\ waited' = 0
        /\ UNCHANGED <<spent, calls, children, server, servers, dispatched>>
    BY DEF CloseOver
  <1>2. WaitTypes' /\ CallTypes' /\ ChildTypes' /\ ServerTypes'
    BY <1>1 DEF WaitTypes, CallTypes, ChildTypes, ServerTypes, Phases
  <1>3. WaitedWithin' /\ ChildInOrder' BY <1>1 DEF WaitedWithin, ChildInOrder
  <1>a. SpentWithin'
    <2>1. spent <= waited /\ waited <= CloseTimeout BY <1>1 DEF SpentWithin, WaitedWithin
    <2> QED BY <1>1, <2>1 DEF SpentWithin, WaitTypes
  <1>4. Signalled' /\ Swept' BY <1>1, ChildStays
  <1>5. Collected' /\ ToldInTime' BY <1>1, ServersStay
  <1> QED BY <1>2, <1>3, <1>a, <1>4, <1>5

LEMMA StopOverInv == ASSUME IInv, StopOver PROVE IInv'
  <1> USE DEF IInv
  <1>1. /\ phase = "stopping" /\ phase' = "closed"
        /\ UNCHANGED <<waited, spent, calls, children, server, servers, dispatched>>
    BY DEF StopOver
  <1>2. WaitTypes' /\ CallTypes' /\ ChildTypes' /\ ServerTypes'
    BY <1>1 DEF WaitTypes, CallTypes, ChildTypes, ServerTypes, Phases
  <1>3. WaitedWithin' /\ SpentWithin' /\ ChildInOrder'
    BY <1>1 DEF WaitedWithin, SpentWithin, ChildInOrder
  <1>4. Signalled' /\ Swept' BY <1>1, ChildStays
  <1>5. Collected' /\ ToldInTime' BY <1>1, ServersStay
  <1> QED BY <1>2, <1>3, <1>4, <1>5

LEMMA TickInv == ASSUME IInv, Tick PROVE IInv'
  <1> USE DEF IInv
  <1>1. /\ ~Due
        /\ waited' = IF phase \in DOMAIN Timed THEN waited + 1 ELSE waited
        /\ spent' = IF spent < Limit THEN spent + 1 ELSE spent
        /\ UNCHANGED <<phase, calls, children, server, servers, dispatched>>
    BY DEF Tick
  <1>2. ~Expired /\ phase \notin {"ready", "closed", "expired"} BY <1>1 DEF Due
  <1>3. /\ waited \in Nat /\ spent \in Nat /\ spent <= Limit
        /\ server \in Nat /\ 1 <= server
    BY DEF WaitTypes, ServerTypes
  <1>4. WaitedWithin' BY <1>1, <1>2, <1>3, ExpiredAt DEF WaitedWithin
  <1>5. SpentWithin'
    <2>1. (server - 1) * ConnectTimeout \in Int BY <1>3
    <2> DEFINE before == (server - 1) * ConnectTimeout
    <2>2. phase = "connecting" => spent <= before + waited /\ waited <= spent
      BY DEF SpentWithin
    <2>3. before \in Int BY <2>1
    <2>4. before' = before BY <1>1
    <2> HIDE DEF before
    <2>5. phase' = "connecting" => spent' <= before + waited' /\ waited' <= spent'
      BY <1>1, <1>3, <1>4, <2>2, <2>3, ExpiredAt DEF WaitedWithin
    <2>6. /\ phase' \in {"calling", "waiting", "closing"} => spent' <= waited'
          /\ phase' = "expired" => spent' <= ChildTimeout
          /\ phase' = "grace" => spent' <= ChildTimeout + waited'
          /\ phase' = "stopping" => spent' <= CloseTimeout + waited'
      BY <1>1, <1>2, <1>3, ExpiredAt DEF SpentWithin
    <2> QED BY <2>4, <2>5, <2>6 DEF SpentWithin, before
  <1>6. WaitTypes' /\ CallTypes' /\ ChildTypes' /\ ServerTypes'
    <2>1. waited' <= Limit /\ waited' \in Nat
      BY <1>1, <1>2, <1>3, <1>4, ExpiredAt DEF WaitedWithin, WaitTypes, Phases
    <2>2. spent' \in Nat /\ spent' <= Limit BY <1>1, <1>3
    <2> QED BY <1>1, <2>1, <2>2 DEF WaitTypes, CallTypes, ChildTypes, ServerTypes, Phases
  <1>7. ChildInOrder' /\ Signalled' /\ Swept'
    BY <1>1 DEF ChildInOrder, Signalled, Swept, Holders, Beyond
  <1>8. Collected' /\ ToldInTime' BY <1>1, <1>3, ServersStay
  <1> QED BY <1>4, <1>5, <1>6, <1>7, <1>8

LEMMA StutterInv == ASSUME IInv, UNCHANGED vars PROVE IInv'
  <1> USE DEF IInv, vars
  <1>1. WaitTypes' /\ CallTypes' /\ ChildTypes' /\ ServerTypes'
    BY DEF WaitTypes, CallTypes, ChildTypes, ServerTypes, Phases
  <1>2. WaitedWithin' /\ SpentWithin' /\ ChildInOrder' /\ Signalled' /\ Swept'
    BY DEF WaitedWithin, SpentWithin, ChildInOrder, Signalled, Swept, Holders, Beyond
  <1>3. Collected' /\ ToldInTime' BY DEF Collected, ToldInTime
  <1> QED BY <1>1, <1>2, <1>3

LEMMA NextInv == ASSUME IInv, [Next]_vars PROVE IInv'
  <1>1. CASE LoopSteps
    BY <1>1, ConnectOverInv, CallOverInv, WrittenInv, WaitOverInv, TerminateInv, KillInv,
       JoinInv, CloseOverInv, StopOverInv
       DEF LoopSteps
  <1>2. CASE \/ Tick \/ Close \/ ServerStep
             \/ \E s \in 1..MaxServers : Dispatch(s)
             \/ \E kind \in {"bash", "hook"} : Spawn(kind)
             \/ \E m \in Members : Exit(m)
             \/ \E n \in 1..MaxCalls : Land(n)
    BY <1>2, TickInv, CloseInv, ServerStepInv, DispatchInv, SpawnInv, ExitInv, LandInv
  <1>3. CASE UNCHANGED vars BY <1>3, StutterInv
  <1> QED BY <1>1, <1>2, <1>3 DEF Next

-----------------------------------------------------------------------------
(* The invariant that keeps account of the loop thread's timers, of the    *)
(* processes of its commands and hooks, and of the servers it knows.       *)
THEOREM Inductive == Spec => []IInv
  BY InitInv, NextInv, PTL DEF Spec

(* Types; in particular the loop's index into the configured servers and   *)
(* the count of the calls stay in their ranges.                            *)
THEOREM TypeCorrect == Spec => []TypeOK
  <1>1. IInv => TypeOK BY TypeParts DEF IInv
  <1> QED BY <1>1, Inductive, PTL

(* The loop thread is never kept beyond the timeouts of what it waits for, *)
(* but by the causes Held names.                                           *)
THEOREM OverrunsExplained == Spec => []OverrunHasACause
  <1>1. ASSUME IInv, ~Due, spent > Allowed PROVE Held
    <2> USE DEF IInv
    <2>1. waited \in Nat /\ spent \in Nat /\ server \in Nat /\ 1 <= server /\ phase \in Phases
      BY <1>1 DEF WaitTypes, ServerTypes
    <2>2. ~Expired /\ phase \notin {"ready", "closed", "expired"} BY <1>1 DEF Due
    <2>3. phase # "connecting"
      <3> SUFFICES ASSUME phase = "connecting" PROVE FALSE OBVIOUS
      <3>1. spent <= (server - 1) * ConnectTimeout + waited /\ waited <= ConnectTimeout
        BY <1>1 DEF SpentWithin, WaitedWithin
      <3>2. (server - 1) * ConnectTimeout + ConnectTimeout = server * ConnectTimeout
        BY <2>1
      <3>3. (server - 1) * ConnectTimeout \in Int /\ server * ConnectTimeout \in Int
        BY <2>1
      <3>4. spent <= server * ConnectTimeout BY <2>1, <3>1, <3>2, <3>3
      <3> QED BY <1>1, <2>1, <3>3, <3>4 DEF Allowed
    <2>4. phase \notin {"calling", "waiting", "closing", "stopping", "grace"}
      BY <1>1, <2>1 DEF SpentWithin, WaitedWithin, Allowed
    <2>5. CASE phase = "writing" BY <1>1, <2>5 DEF Due, Held
    <2>6. CASE phase = "joining"
      <3>1. Holders # {} BY <1>1, <2>6 DEF Due
      <3>2. outcome \in {"exited", "timed_out"} BY <1>1, <2>6 DEF ChildInOrder
      <3>3. outcome = "timed_out" => Holders \subseteq Beyond BY <1>1, <2>6 DEF Swept
      <3> QED BY <2>6, <3>1, <3>2, <3>3 DEF Held
    <2> QED BY <2>1, <2>2, <2>3, <2>4, <2>5, <2>6 DEF Phases
  <1>2. IInv => OverrunHasACause BY <1>1 DEF OverrunHasACause
  <1> QED BY <1>2, Inductive, PTL

(* A command reported as timed out has left nothing in its group, a hook   *)
(* nothing of the tree that was gone for, however they die meanwhile.      *)
THEOREM TimedOutGone == Spec => []TimedOutIsGone
  <1>1. IInv => TimedOutIsGone BY DEF IInv, Swept, TimedOutIsGone
  <1> QED BY <1>1, Inductive, PTL

(* Every server that comes up in time is advertised, every one that comes  *)
(* up before the close is told to stop, in whichever order they come up.   *)
THEOREM ServersKnown == Spec => []ServersAreKnown
  <1>1. IInv => ServersAreKnown
    BY DEF IInv, Collected, ToldInTime, ServersAreKnown, PromptIsAdvertised, RegisteredIsTold
  <1> QED BY <1>1, Inductive, PTL
=============================================================================
