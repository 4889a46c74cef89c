--------------------------- MODULE Sessions_proofs ---------------------------
(***************************************************************************)
(* Proofs about Sessions: any number of Claude processes, sessions and     *)
(* Jobs, in any interleaving of their hooks.                               *)
(***************************************************************************)
EXTENDS Sessions, TLAPS

(* TypeOK with its sets named.                                             *)
Processes == [alive : BOOLEAN, session : Sessions \cup {None}, registered : BOOLEAN]
Phases == {"none", "register", "predecessors", "predecessor", "list",
           "reap", "mark", "unlink"}
Hooks == [pc : Phases, target : Sessions \cup {None}, todo : SUBSET (Jobs \X BOOLEAN),
          found : SUBSET (Sessions \X Claudes), current : Jobs \cup {None},
          stale : SUBSET Sessions]
Statuses == {"none", "starting", "finished", "cancelled", "interrupted"} \cup StoredActive
Records == [status : Statuses, session : Sessions \cup {None},
            pid : BOOLEAN, worker : {"none", "alive", "dead"}]

Types == /\ claude \in [Claudes -> Processes]
         /\ hook \in [Claudes -> Hooks]
         /\ \A c \in Claudes : hook[c].pc = "mark" <=> hook[c].current # None
         /\ registry \in [Sessions -> Claudes \cup {None}]
         /\ job \in [Jobs -> Records]
         /\ spent \in 0..Budget

-----------------------------------------------------------------------------
(* A session has one host, which is alive.                                 *)
HostsAreSingle ==
    \A c, d \in Claudes : claude[c].session # None =>
        /\ claude[c].alive
        /\ claude[d].session = claude[c].session => d = c

(* Once its SessionStart has registered a session, only its host can be    *)
(* in the registration.                                                    *)
HostsAreRegistered ==
    \A c \in Claudes : (claude[c].session # None /\ hook[c].pc # "register") =>
        registry[claude[c].session] \in {None, c}

(* The session may be reaped: no living process is registered for it but   *)
(* one that lately resumed it, or the reaping one, which left it.          *)
Left(c, h, s) ==
    \/ registry[s] = None
    \/ ~claude[registry[s]].alive
    \/ s \in h.stale
    \/ registry[s] = c /\ claude[c].session # s

(* A Job a hook may settle.                                                *)
MaySettle(c, h, j) ==
    /\ job[j].status # "none"
    /\ job[j].session = None => job[j].worker = "dead"
    /\ job[j].session # None => Left(c, h, job[j].session)

(* What the hook of c holds from one step to the next.                     *)
RegistersItsSession(c, h) == h.pc = "register" => claude[c].session # None

ReapsWhatWasLeft(c, h) ==
    h.target # None =>
        h.pc \in {"list", "reap", "mark"} /\ claude[c].session # h.target /\ Left(c, h, h.target)

FoundLeft(c, h) ==
    h.pc # "unlink" => \A entry \in h.found :
        claude[c].session # entry[1] /\ Left(c, h, entry[1])

FoundStale(c, h) ==
    h.pc = "unlink" => \A entry \in h.found :
        /\ registry[entry[1]] \in {None, entry[2]} \/ entry[1] \in h.stale
        /\ claude[c].session = entry[1] => entry[2] = c

FoundOnce(h) ==
    /\ \A entry, other \in h.found : entry[1] = other[1] => entry = other
    /\ \A entry \in h.found : entry[1] # h.target
    /\ (h.pc \in {"list", "reap", "mark"} /\ h.target = None) => h.found = {}

ListedOfTarget(h) ==
    h.pc \in {"reap", "mark"} => \A entry \in h.todo :
        /\ job[entry[1]].status # "none"
        /\ h.target # None => job[entry[1]].session = h.target

Settles(c, h) == h.current # None => MaySettle(c, h, h.current)

Fits(c, h) == /\ RegistersItsSession(c, h) /\ ReapsWhatWasLeft(c, h)
              /\ FoundLeft(c, h) /\ FoundStale(c, h) /\ FoundOnce(h)
              /\ ListedOfTarget(h) /\ Settles(c, h)
HooksFit == \A c \in Claudes : Fits(c, hook[c])

IInv == Types /\ HostsAreSingle /\ HostsAreRegistered /\ HooksFit

-----------------------------------------------------------------------------
(* The types.                                                              *)
LEMMA TypesOfOne ==
    ASSUME Types
    PROVE  /\ hook \in [Claudes -> Hooks] /\ \A c \in Claudes : hook[c] \in Hooks
           /\ claude \in [Claudes -> Processes] /\ \A c \in Claudes : claude[c] \in Processes
           /\ job \in [Jobs -> Records] /\ \A j \in Jobs : job[j] \in Records
           /\ registry \in [Sessions -> Claudes \cup {None}]
  BY DEF Types

LEMMA HookOf == ASSUME Types, NEW c \in Claudes PROVE hook[c] \in Hooks
  BY DEF Types

LEMMA NoHookIs == /\ NoHook \in Hooks /\ NoHook.pc = "none" /\ NoHook.target = None
                  /\ NoHook.todo = {} /\ NoHook.found = {} /\ NoHook.current = None
                  /\ NoHook.stale = {}
  BY DEF NoHook, Hooks, Phases

LEMMA InitTypes == Init => Types
  <1> SUFFICES ASSUME Init PROVE Types OBVIOUS
  <1>1. NoJob \in Records BY DEF NoJob, Records, Statuses
  <1>2. spent \in 0..Budget BY BoundAssumption DEF Init
  <1> QED BY <1>1, <1>2, NoHookIs DEF Init, Types, Processes

(* The step of one hook: where it goes, and what it takes along.           *)
Moved(c) == /\ hook' \in [Claudes -> Hooks]
            /\ \A d \in Claudes \ {c} : hook'[d] = hook[d]
Carries(c, target, todo, found, current, stale) ==
    /\ hook'[c].target = target /\ hook'[c].todo = todo
    /\ hook'[c].found = found /\ hook'[c].current = current /\ hook'[c].stale = stale

LEMMA Moves ==
    ASSUME Types, NEW c \in Claudes, NEW h \in Hooks, hook' = [hook EXCEPT ![c] = h]
    PROVE  Moved(c) /\ hook'[c] = h
  BY TypesOfOne DEF Moved

LEMMA StartSessionMoves ==
    ASSUME Types, NEW c \in Claudes, hook' = [hook EXCEPT ![c] = [NoHook EXCEPT !.pc = "register"]]
    PROVE  Moved(c) /\ hook'[c].pc = "register" /\ Carries(c, None, {}, {}, None, {})
  <1>1. PICK h : h = [NoHook EXCEPT !.pc = "register"] OBVIOUS
  <1>2. /\ h \in Hooks /\ h.pc = "register" /\ h.target = None
        /\ h.todo = {} /\ h.found = {} /\ h.current = None /\ h.stale = {}
    BY <1>1 DEF NoHook, Hooks, Phases
  <1> QED BY <1>1, <1>2, Moves DEF Carries

LEMMA EndSessionMoves ==
    ASSUME Types, NEW c \in Claudes, EndSession(c)
    PROVE  /\ Moved(c) /\ hook'[c].pc = "list"
           /\ Carries(c, claude[c].session, {}, {}, None, {})
  <1>1. PICK h : h = [NoHook EXCEPT !.pc = "list", !.target = claude[c].session] OBVIOUS
  <1>2. claude[c].session \in Sessions \cup {None} BY TypesOfOne DEF Processes
  <1>3. /\ h \in Hooks /\ h.pc = "list" /\ h.target = claude[c].session
        /\ h.todo = {} /\ h.found = {} /\ h.current = None /\ h.stale = {}
    BY <1>1, <1>2 DEF NoHook, Hooks, Phases
  <1>4. hook' = [hook EXCEPT ![c] = h] BY <1>1 DEF EndSession
  <1> QED BY <1>3, <1>4, Moves DEF Carries

LEMMA NoHookMoves ==
    ASSUME Types, NEW c \in Claudes, hook' = [hook EXCEPT ![c] = NoHook]
    PROVE  Moved(c) /\ hook'[c].pc = "none" /\ Carries(c, None, {}, {}, None, {})
  <1>1. hook'[c] = NoHook /\ Moved(c) BY NoHookIs, TypesOfOne DEF Moved
  <1> QED BY <1>1, NoHookIs DEF Carries

LEMMA ListPredecessorsMoves ==
    ASSUME Types, NEW c \in Claudes, ListPredecessors(c)
    PROVE  /\ Moved(c)
           /\ hook'[c].pc = IF Predecessors(c) = {} THEN "list" ELSE "predecessor"
           /\ Carries(c, hook[c].target, hook[c].todo, Predecessors(c) \X {c}, hook[c].current,
                      hook[c].stale)
  <1>1. PICK found : found = Predecessors(c) \X {c} OBVIOUS
  <1>2. found \in SUBSET (Sessions \X Claudes) BY <1>1 DEF Predecessors
  <1>3. PICK pc \in {"list", "predecessor"} :
           pc = IF Predecessors(c) = {} THEN "list" ELSE "predecessor"
    OBVIOUS
  <1>4. PICK h : h = [hook[c] EXCEPT !.pc = pc, !.found = found] OBVIOUS
  <1>5. /\ h \in Hooks /\ h.pc = pc
        /\ h.target = hook[c].target /\ h.todo = hook[c].todo
        /\ h.found = found /\ h.current = hook[c].current /\ h.stale = hook[c].stale
    BY <1>2, <1>4, HookOf DEF Hooks, Phases
  <1>6. hook' = [hook EXCEPT ![c] = h] BY <1>1, <1>3, <1>4 DEF ListPredecessors
  <1> QED BY <1>1, <1>3, <1>5, <1>6, Moves DEF Carries

LEMMA NextPredecessorMoves ==
    ASSUME Types, NEW c \in Claudes, NextPredecessor(c)
    PROVE  /\ Moved(c) /\ hook'[c].pc = "list"
           /\ \/ \E entry \in hook[c].found :
                    /\ entry \in Sessions \X Claudes
                    /\ Carries(c, entry[1], hook[c].todo, hook[c].found \ {entry}, hook[c].current,
                               hook[c].stale)
              \/ /\ hook[c].found = {}
                 /\ Carries(c, None, hook[c].todo, {}, hook[c].current, hook[c].stale)
  <1>1. CASE \E entry \in hook[c].found :
               hook' = [hook EXCEPT ![c] = [hook[c] EXCEPT !.pc = "list", !.target = entry[1],
                                                           !.found = @ \ {entry}]]
    <2>1. PICK entry \in hook[c].found :
               hook' = [hook EXCEPT ![c] = [hook[c] EXCEPT !.pc = "list", !.target = entry[1],
                                                           !.found = @ \ {entry}]]
      BY <1>1
    <2>2. hook[c].found \subseteq Sessions \X Claudes BY TypesOfOne DEF Hooks
    <2>3. entry \in Sessions \X Claudes /\ entry[1] \in Sessions BY <2>2
    <2>4. PICK t \in Sessions : t = entry[1] BY <2>3
    <2>5. PICK found : found = hook[c].found \ {entry} OBVIOUS
    <2>6. PICK h : h = [hook[c] EXCEPT !.pc = "list", !.target = t, !.found = found] OBVIOUS
    <2>7. /\ h \in Hooks /\ h.pc = "list"
          /\ h.target = t /\ h.todo = hook[c].todo
          /\ h.found = found /\ h.current = hook[c].current /\ h.stale = hook[c].stale
      BY <2>2, <2>5, <2>6, HookOf DEF Hooks, Phases
    <2>8. hook' = [hook EXCEPT ![c] = h] BY <2>1, <2>4, <2>5, <2>6
    <2> QED BY <2>3, <2>4, <2>5, <2>7, <2>8, Moves DEF Carries
  <1>2. CASE /\ hook[c].found = {}
             /\ hook' = [hook EXCEPT ![c] = [@ EXCEPT !.pc = "list", !.target = None]]
    <2>1. PICK h : h = [hook[c] EXCEPT !.pc = "list", !.target = None] OBVIOUS
    <2>2. /\ h \in Hooks /\ h.pc = "list"
          /\ h.target = None /\ h.todo = hook[c].todo
          /\ h.found = hook[c].found /\ h.current = hook[c].current /\ h.stale = hook[c].stale
      BY <2>1, HookOf DEF Hooks, Phases
    <2>3. hook' = [hook EXCEPT ![c] = h] BY <1>2, <2>1
    <2> QED BY <1>2, <2>2, <2>3, Moves DEF Carries
  <1> QED BY <1>1, <1>2 DEF NextPredecessor

LEMMA ListActiveMoves ==
    ASSUME Types, NEW c \in Claudes, ListActive(c)
    PROVE  /\ Moved(c) /\ hook'[c].pc = "reap"
           /\ \E todo \in SUBSET (Jobs \X BOOLEAN) :
                 /\ Carries(c, hook[c].target, todo, hook[c].found, hook[c].current, hook[c].stale)
                 /\ \A entry \in todo :
                       /\ job[entry[1]].status \in StoredActive
                       /\ hook[c].target # None => job[entry[1]].session = hook[c].target
  <1> DEFINE mine == {j \in Jobs : /\ job[j].status \in StoredActive
                                   /\ hook[c].target # None => job[j].session = hook[c].target}
  <1>1. PICK todo : todo = {<<j, job[j].pid>> : j \in mine} OBVIOUS
  <1>2. todo \in SUBSET (Jobs \X BOOLEAN) BY <1>1, TypesOfOne DEF Records
  <1>3. \A entry \in todo : entry[1] \in mine BY <1>1
  <1>4. hook' = [hook EXCEPT ![c] = [@ EXCEPT !.pc = "reap", !.todo = todo]]
    BY <1>1 DEF ListActive
  <1>5. PICK h : h = [hook[c] EXCEPT !.pc = "reap", !.todo = todo] OBVIOUS
  <1>6. /\ h \in Hooks /\ h.pc = "reap"
        /\ h.target = hook[c].target /\ h.todo = todo
        /\ h.found = hook[c].found /\ h.current = hook[c].current /\ h.stale = hook[c].stale
    BY <1>2, <1>5, HookOf DEF Hooks, Phases
  <1>7. hook' = [hook EXCEPT ![c] = h] BY <1>4, <1>5
  <1>8. Moved(c) /\ hook'[c] = h BY <1>6, <1>7, Moves
  <1> QED BY <1>2, <1>3, <1>6, <1>8 DEF Carries

LEMMA EntryIsOfAJob ==
    ASSUME Types, NEW c \in Claudes, NEW entry \in hook[c].todo
    PROVE  entry \in Jobs \X BOOLEAN /\ entry[1] \in Jobs /\ entry[1] # None
  <1>1. hook[c].todo \subseteq Jobs \X BOOLEAN BY TypesOfOne DEF Hooks
  <1> QED BY <1>1, NoneAssumption

(* The two ways to be done with an entry without a kill.                   *)
LEMMA PassOverMoves ==
    ASSUME Types, NEW c \in Claudes, NEW entry \in hook[c].todo,
           hook' = [hook EXCEPT ![c].todo = @ \ {entry}]
    PROVE  /\ Moved(c) /\ hook'[c].pc = hook[c].pc
           /\ Carries(c, hook[c].target, hook[c].todo \ {entry}, hook[c].found, hook[c].current,
                      hook[c].stale)
  <1>1. hook[c].todo \subseteq Jobs \X BOOLEAN BY TypesOfOne DEF Hooks
  <1>2. PICK h : h = [hook[c] EXCEPT !.todo = @ \ {entry}] OBVIOUS
  <1>3. /\ h \in Hooks /\ h.pc = hook[c].pc
        /\ h.target = hook[c].target /\ h.todo = hook[c].todo \ {entry}
        /\ h.found = hook[c].found /\ h.current = hook[c].current /\ h.stale = hook[c].stale
    BY <1>1, <1>2, HookOf DEF Hooks
  <1>4. hook' = [hook EXCEPT ![c] = h] BY <1>2
  <1> QED BY <1>3, <1>4, Moves DEF Carries

LEMMA KillOneMoves ==
    ASSUME Types, NEW c \in Claudes, NEW entry \in hook[c].todo,
           hook' = [hook EXCEPT ![c] = [hook[c] EXCEPT !.pc = "mark", !.todo = @ \ {entry},
                                                       !.current = entry[1]]]
    PROVE  /\ Moved(c) /\ hook'[c].pc = "mark"
           /\ Carries(c, hook[c].target, hook[c].todo \ {entry}, hook[c].found, entry[1],
                      hook[c].stale)
  <1>1. hook[c].todo \subseteq Jobs \X BOOLEAN /\ entry[1] \in Jobs
    BY EntryIsOfAJob, TypesOfOne DEF Hooks
  <1>2. PICK left : left = hook[c].todo \ {entry} OBVIOUS
  <1>3. PICK j \in Jobs : j = entry[1] BY <1>1
  <1>4. PICK h : h = [hook[c] EXCEPT !.pc = "mark", !.todo = left, !.current = j] OBVIOUS
  <1>5. /\ h \in Hooks /\ h.pc = "mark"
        /\ h.target = hook[c].target /\ h.todo = left
        /\ h.found = hook[c].found /\ h.current = j /\ h.stale = hook[c].stale
    BY <1>1, <1>2, <1>4, HookOf DEF Hooks, Phases
  <1>6. hook' = [hook EXCEPT ![c] = h] BY <1>2, <1>3, <1>4
  <1> QED BY <1>2, <1>3, <1>5, <1>6, Moves DEF Carries

LEMMA MarkOneMoves ==
    ASSUME Types, NEW c \in Claudes, MarkOne(c)
    PROVE  /\ Moved(c) /\ hook'[c].pc = "reap"
           /\ Carries(c, hook[c].target, hook[c].todo, hook[c].found, None,
                      IF hook[c].target = None THEN {} ELSE hook[c].stale)
  <1>1. PICK stale : stale = IF hook[c].target = None THEN {} ELSE hook[c].stale OBVIOUS
  <1>2. hook' = [hook EXCEPT ![c] = [hook[c] EXCEPT !.pc = "reap", !.current = None,
                                                    !.stale = stale]]
    BY <1>1 DEF MarkOne
  <1>3. stale \in SUBSET Sessions BY <1>1, HookOf DEF Hooks
  <1>4. PICK h : h = [hook[c] EXCEPT !.pc = "reap", !.current = None, !.stale = stale] OBVIOUS
  <1>5. /\ h \in Hooks /\ h.pc = "reap"
        /\ h.target = hook[c].target /\ h.todo = hook[c].todo
        /\ h.found = hook[c].found /\ h.current = None /\ h.stale = stale
    BY <1>3, <1>4, HookOf DEF Hooks, Phases
  <1>6. hook' = [hook EXCEPT ![c] = h] BY <1>2, <1>4
  <1> QED BY <1>1, <1>5, <1>6, Moves DEF Carries

LEMMA RemoveMoves ==
    ASSUME Types, NEW c \in Claudes, RemoveRegistration(c)
    PROVE  /\ Moved(c)
           /\ \/ hook'[c].pc = "none" /\ Carries(c, None, {}, {}, None, {})
              \/ /\ hook'[c].pc = "predecessor"
                 /\ Carries(c, None, hook[c].todo, hook[c].found, hook[c].current,
                            hook[c].stale \ {hook[c].target})
  <1>1. CASE claude[c].session = None
    <2>1. hook' = [hook EXCEPT ![c] = NoHook] BY <1>1 DEF RemoveRegistration
    <2> QED BY <2>1, NoHookMoves
  <1>2. CASE claude[c].session # None
    <2>1. hook' = [hook EXCEPT ![c] = [hook[c] EXCEPT !.pc = "predecessor", !.target = None,
                                                      !.stale = hook[c].stale \ {hook[c].target}]]
      BY <1>2 DEF RemoveRegistration
    <2>2. PICK h : h = [hook[c] EXCEPT !.pc = "predecessor", !.target = None,
                                 !.stale = hook[c].stale \ {hook[c].target}] OBVIOUS
    <2>3. /\ h \in Hooks /\ h.pc = "predecessor"
          /\ h.target = None /\ h.todo = hook[c].todo
          /\ h.found = hook[c].found /\ h.current = hook[c].current
          /\ h.stale = hook[c].stale \ {hook[c].target}
      BY <2>2, HookOf DEF Hooks, Phases
    <2>4. hook' = [hook EXCEPT ![c] = h] BY <2>1, <2>2
    <2> QED BY <2>3, <2>4, Moves DEF Carries
  <1> QED BY <1>1, <1>2

LEMMA ListRegistrationsMoves ==
    ASSUME Types, NEW c \in Claudes, ListRegistrations(c)
    PROVE  /\ Moved(c) /\ hook'[c].pc = "unlink"
           /\ \E found \in SUBSET (Sessions \X Claudes) :
                 /\ Carries(c, hook[c].target, hook[c].todo, found, hook[c].current, hook[c].stale)
                 /\ \A entry \in found : /\ entry[1] \in Sessions /\ entry[2] \in Claudes
                                         /\ registry[entry[1]] = entry[2]
  <1>1. PICK found : found = UNION {Registered(s) : s \in Sessions} OBVIOUS
  <1>2. ASSUME NEW entry \in found
        PROVE  /\ entry \in Sessions \X Claudes
               /\ entry[1] \in Sessions /\ entry[2] \in Claudes /\ registry[entry[1]] = entry[2]
    <2>1. PICK s \in Sessions : entry \in Registered(s) BY <1>1
    <2>2. entry = <<s, registry[s]>> /\ registry[s] # None BY <2>1 DEF Registered
    <2> QED BY <2>2, TypesOfOne
  <1>3. found \in SUBSET (Sessions \X Claudes) BY <1>2
  <1>4. hook' = [hook EXCEPT ![c] = [@ EXCEPT !.pc = "unlink", !.found = found]]
    BY <1>1 DEF ListRegistrations
  <1>5. PICK h : h = [hook[c] EXCEPT !.pc = "unlink", !.found = found] OBVIOUS
  <1>6. /\ h \in Hooks /\ h.pc = "unlink"
        /\ h.target = hook[c].target /\ h.todo = hook[c].todo
        /\ h.found = found /\ h.current = hook[c].current /\ h.stale = hook[c].stale
    BY <1>3, <1>5, HookOf DEF Hooks, Phases
  <1>7. hook' = [hook EXCEPT ![c] = h] BY <1>4, <1>5
  <1>8. Moved(c) /\ hook'[c] = h BY <1>6, <1>7, Moves
  <1> QED BY <1>2, <1>3, <1>6, <1>8 DEF Carries

LEMMA UnlinkMoves ==
    ASSUME Types, NEW c \in Claudes, NEW entry \in hook[c].found,
           hook' = [hook EXCEPT ![c] = [hook[c] EXCEPT !.found = @ \ {entry},
                                                       !.stale = @ \ {entry[1]}]]
    PROVE  /\ Moved(c) /\ hook'[c].pc = hook[c].pc
           /\ entry[1] \in Sessions /\ entry[2] \in Claudes
           /\ Carries(c, hook[c].target, hook[c].todo, hook[c].found \ {entry}, hook[c].current,
                      hook[c].stale \ {entry[1]})
  <1>1. hook[c].found \subseteq Sessions \X Claudes BY TypesOfOne DEF Hooks
  <1>2. PICK h : h = [hook[c] EXCEPT !.found = @ \ {entry}, !.stale = @ \ {entry[1]}] OBVIOUS
  <1>3. /\ h \in Hooks /\ h.pc = hook[c].pc
        /\ h.target = hook[c].target /\ h.todo = hook[c].todo
        /\ h.found = hook[c].found \ {entry} /\ h.current = hook[c].current
        /\ h.stale = hook[c].stale \ {entry[1]}
    BY <1>1, <1>2, HookOf DEF Hooks
  <1>4. hook' = [hook EXCEPT ![c] = h] BY <1>2
  <1>5. entry \in Sessions \X Claudes BY <1>1
  <1> QED BY <1>3, <1>4, <1>5, Moves DEF Carries

-----------------------------------------------------------------------------
-----------------------------------------------------------------------------
(* What no step undoes: a Job keeps its owner, a dead worker and a dead    *)
(* process stay dead; and what all but a SessionStart leave: registrations *)
(* only go.                                                                *)
JobOnward(j) ==
    job[j].status # "none" =>
        /\ job'[j].status # "none" /\ job'[j].session = job[j].session
        /\ job[j].worker = "dead" => job'[j].worker = "dead"
Onward ==
    /\ \A c \in Claudes : claude'[c].alive => claude[c].alive
    /\ \A j \in Jobs : JobOnward(j)
OnlyGoes == \A s \in Sessions : registry'[s] \in {None, registry[s]}

(* The sessions that AtWorkOn takes from a hook.                           *)
WorksOn(h, s) == \/ s = h.target
                 \/ \E entry \in h.found : entry[1] = s
                 \/ h.current # None /\ job[h.current].session = s

(* Another hook adds to what this one knows to be resumed.                 *)
SameWork(h, g) == /\ g.pc = h.pc /\ g.target = h.target /\ g.todo = h.todo
                  /\ g.found = h.found /\ g.current = h.current /\ h.stale \subseteq g.stale

(* Any session the hook works on keeps its registration, loses it or is    *)
(* known to be resumed.                                                    *)
Watched(h, g) == \A s \in Sessions : WorksOn(h, s) =>
                    registry'[s] \in {None, registry[s]} \/ s \in g.stale

LEMMA StillLeft ==
    ASSUME Types, Onward, NEW c \in Claudes, NEW h \in Hooks, NEW g \in Hooks,
           SameWork(h, g), Watched(h, g), claude'[c].session = claude[c].session,
           NEW s \in Sessions, WorksOn(h, s), Left(c, h, s)
    PROVE  Left(c, g, s)'
  <1>1. registry'[s] \in {None, registry[s]} \/ s \in g.stale BY DEF Watched
  <1>2. registry[s] \in Claudes \cup {None} BY TypesOfOne
  <1>3. CASE s \in g.stale BY <1>3 DEF Left
  <1>4. CASE registry'[s] = None BY <1>4 DEF Left
  <1>5. CASE registry'[s] = registry[s] /\ registry[s] # None
    <2>1. CASE ~claude[registry[s]].alive BY <1>2, <1>5, <2>1 DEF Left, Onward
    <2>2. CASE s \in h.stale BY <2>2 DEF Left, SameWork
    <2>3. CASE registry[s] = c /\ claude[c].session # s BY <1>5, <2>3 DEF Left
    <2> QED BY <1>5, <2>1, <2>2, <2>3 DEF Left
  <1> QED BY <1>1, <1>3, <1>4, <1>5

LEMMA StillFits ==
    ASSUME Types, Onward, NEW c \in Claudes, NEW h \in Hooks, NEW g \in Hooks,
           SameWork(h, g), Watched(h, g), claude'[c].session = claude[c].session, Fits(c, h)
    PROVE  Fits(c, g)'
  <1>1. /\ h.todo \subseteq Jobs \X BOOLEAN /\ h.found \subseteq Sessions \X Claudes
        /\ h.target \in Sessions \cup {None} /\ h.current \in Jobs \cup {None}
    BY DEF Hooks
  <1>2. /\ g.pc = h.pc /\ g.target = h.target /\ g.todo = h.todo
        /\ g.found = h.found /\ g.current = h.current /\ h.stale \subseteq g.stale
    BY DEF SameWork
  <1>3. RegistersItsSession(c, g)' BY <1>2 DEF Fits, RegistersItsSession
  <1>4. ReapsWhatWasLeft(c, g)'
    <2>1. SUFFICES ASSUME h.target # None
                   PROVE  /\ h.pc \in {"list", "reap", "mark"} /\ claude[c].session # h.target
                          /\ Left(c, g, h.target)'
      BY <1>2 DEF ReapsWhatWasLeft
    <2>2. /\ h.pc \in {"list", "reap", "mark"} /\ claude[c].session # h.target
          /\ Left(c, h, h.target)
      BY <2>1 DEF Fits, ReapsWhatWasLeft
    <2>3. PICK s \in Sessions : s = h.target BY <1>1, <2>1
    <2>4. WorksOn(h, s) BY <2>3 DEF WorksOn
    <2>5. Left(c, h, s) BY <2>2, <2>3
    <2>6. Left(c, g, s)' BY <2>4, <2>5, StillLeft
    <2> QED BY <2>2, <2>3, <2>6
  <1>5. FoundLeft(c, g)'
    <2>1. SUFFICES ASSUME h.pc # "unlink", NEW entry \in h.found
                   PROVE  claude[c].session # entry[1] /\ Left(c, g, entry[1])'
      BY <1>2 DEF FoundLeft
    <2>2. claude[c].session # entry[1] /\ Left(c, h, entry[1])
      BY <2>1 DEF Fits, FoundLeft
    <2>3. PICK s \in Sessions : s = entry[1] BY <1>1
    <2>4. WorksOn(h, s) BY <2>3 DEF WorksOn
    <2>5. Left(c, h, s) BY <2>2, <2>3
    <2>6. Left(c, g, s)' BY <2>4, <2>5, StillLeft
    <2> QED BY <2>2, <2>3, <2>6
  <1>6. FoundStale(c, g)'
    <2>1. SUFFICES ASSUME h.pc = "unlink", NEW entry \in h.found
                   PROVE  /\ registry'[entry[1]] \in {None, entry[2]} \/ entry[1] \in g.stale
                          /\ claude[c].session = entry[1] => entry[2] = c
      BY <1>2 DEF FoundStale
    <2>2. /\ registry[entry[1]] \in {None, entry[2]} \/ entry[1] \in h.stale
          /\ claude[c].session = entry[1] => entry[2] = c
      BY <2>1 DEF Fits, FoundStale
    <2>3. entry[1] \in Sessions BY <1>1
    <2>4. WorksOn(h, entry[1]) BY DEF WorksOn
    <2>5. registry'[entry[1]] \in {None, registry[entry[1]]} \/ entry[1] \in g.stale
      BY <2>3, <2>4 DEF Watched
    <2> QED BY <1>2, <2>2, <2>5
  <1>7. FoundOnce(g)' BY <1>2 DEF Fits, FoundOnce
  <1>8. ListedOfTarget(g)'
    <2>1. SUFFICES ASSUME h.pc \in {"reap", "mark"}, NEW entry \in h.todo
                   PROVE  /\ job'[entry[1]].status # "none"
                          /\ h.target # None => job'[entry[1]].session = h.target
      BY <1>2 DEF ListedOfTarget
    <2>2. /\ job[entry[1]].status # "none"
          /\ h.target # None => job[entry[1]].session = h.target
      BY <2>1 DEF Fits, ListedOfTarget
    <2>3. entry[1] \in Jobs BY <1>1
    <2>4. JobOnward(entry[1]) BY <2>3 DEF Onward
    <2> QED BY <2>2, <2>4 DEF JobOnward
  <1>9. Settles(c, g)'
    <2>1. SUFFICES ASSUME h.current # None PROVE MaySettle(c, g, h.current)'
      BY <1>2 DEF Settles
    <2>2. PICK j \in Jobs : j = h.current BY <1>1, <2>1
    <2>3. /\ job[j].status # "none"
          /\ job[j].session = None => job[j].worker = "dead"
          /\ job[j].session # None => Left(c, h, job[j].session)
      BY <2>1, <2>2 DEF Fits, Settles, MaySettle
    <2>4. /\ job'[j].status # "none" /\ job'[j].session = job[j].session
          /\ job[j].worker = "dead" => job'[j].worker = "dead"
      BY <2>3 DEF Onward, JobOnward
    <2>5. ASSUME job[j].session # None PROVE Left(c, g, job[j].session)'
      <3>1. job[j].session \in Sessions BY <2>5, TypesOfOne DEF Records
      <3>2. PICK s \in Sessions : s = job[j].session BY <3>1
      <3>3. WorksOn(h, s) BY <2>1, <2>2, <3>2 DEF WorksOn
      <3>4. Left(c, h, s) BY <2>3, <2>5, <3>2
      <3>5. Left(c, g, s)' BY <3>3, <3>4, StillLeft
      <3>6. job'[j].session = s BY <2>4, <3>2
      <3> QED BY <3>5, <3>6
    <2>6. MaySettle(c, g, j)' BY <2>3, <2>4, <2>5 DEF MaySettle
    <2> QED BY <2>2, <2>6
  <1> QED BY <1>3, <1>4, <1>5, <1>6, <1>7, <1>8, <1>9 DEF Fits

LEMMA QuietFits ==
    ASSUME Types, Onward, OnlyGoes, NEW c \in Claudes, NEW h \in Hooks,
           claude'[c].session = claude[c].session, Fits(c, h)
    PROVE  Fits(c, h)'
  <1>1. SameWork(h, h) BY DEF SameWork
  <1>2. Watched(h, h) BY DEF Watched, OnlyGoes
  <1> QED BY <1>1, <1>2, StillFits

(* A step of one hook leaves the others what they hold.                    *)
LEMMA OthersFit ==
    ASSUME IInv, Onward, OnlyGoes, NEW c \in Claudes, Moved(c), Fits(c, hook[c])',
           \A d \in Claudes \ {c} : claude'[d].session = claude[d].session
    PROVE  HooksFit'
  <1>1. ASSUME NEW d \in Claudes, d # c PROVE Fits(d, hook[d])'
    <2>1. PICK g : g = hook[d] OBVIOUS
    <2>2. g \in Hooks /\ Fits(d, g) BY <2>1, TypesOfOne DEF IInv, HooksFit
    <2>3. Types /\ claude'[d].session = claude[d].session BY <1>1 DEF IInv
    <2>4. Fits(d, g)' BY <2>2, <2>3, QuietFits
    <2>5. hook'[d] = g BY <1>1, <2>1 DEF Moved
    <2> QED BY <2>4, <2>5
  <1> QED BY <1>1 DEF HooksFit

(* ... and so does one that is not a hook's.                               *)
LEMMA IdleHooksFit ==
    ASSUME IInv, Onward, OnlyGoes, UNCHANGED <<claude, hook>>
    PROVE  HooksFit'
  <1>1. ASSUME NEW d \in Claudes PROVE Fits(d, hook[d])'
    <2>1. PICK g : g = hook[d] OBVIOUS
    <2>2. g \in Hooks /\ Fits(d, g) BY <2>1, TypesOfOne DEF IInv, HooksFit
    <2>3. Types /\ claude'[d].session = claude[d].session BY DEF IInv
    <2>4. Fits(d, g)' BY <2>2, <2>3, QuietFits
    <2> QED BY <2>1, <2>4
  <1> QED BY <1>1 DEF HooksFit

(* A hook that settles nothing.                                            *)
LEMMA PeacefulInv ==
    ASSUME IInv, UNCHANGED <<claude, job>>, spent' \in 0..Budget,
           registry' \in [Sessions -> Claudes \cup {None}], OnlyGoes,
           NEW c \in Claudes, hook[c].pc # "register", Moved(c), Fits(c, hook[c])',
           (hook[c].pc = "mark" <=> hook[c].current # None)'
    PROVE  IInv'
  <1>1. Onward BY DEF Onward, JobOnward
  <1>2. Types' BY DEF IInv, Types, Moved
  <1>3. HooksFit' BY <1>1, OthersFit
  <1>4. HostsAreSingle' BY DEF IInv, HostsAreSingle
  <1>5. HostsAreRegistered'
    <2>1. SUFFICES ASSUME NEW d \in Claudes, claude[d].session # None, hook'[d].pc # "register"
                   PROVE  registry'[claude[d].session] \in {None, d}
      BY DEF HostsAreRegistered
    <2>2. hook[d].pc # "register" BY <2>1 DEF Moved
    <2>3. claude[d].session \in Sessions BY <2>1, TypesOfOne DEF IInv, Processes
    <2> QED BY <2>1, <2>2, <2>3 DEF IInv, HostsAreRegistered, OnlyGoes
  <1> QED BY <1>2, <1>3, <1>4, <1>5 DEF IInv

(* ... or only looks.                                                      *)
LEMMA LookInv ==
    ASSUME IInv, UNCHANGED <<claude, registry, job>>, spent' \in 0..Budget,
           NEW c \in Claudes, hook[c].pc # "register", Moved(c),
           NEW h \in Hooks, hook'[c] = h, Fits(c, h),
           h.pc = "mark" <=> h.current # None
    PROVE  IInv'
  <1>1. registry' \in [Sessions -> Claudes \cup {None}] BY TypesOfOne DEF IInv
  <1>2. OnlyGoes BY DEF OnlyGoes
  <1>3. Onward BY DEF Onward, JobOnward
  <1>4. Types /\ claude'[c].session = claude[c].session BY DEF IInv
  <1>5. Fits(c, h)' BY <1>2, <1>3, <1>4, QuietFits
  <1>6. Fits(c, hook[c])' BY <1>5
  <1>7. (hook[c].pc = "mark" <=> hook[c].current # None)' OBVIOUS
  <1> QED BY <1>1, <1>2, <1>6, <1>7, PeacefulInv

LEMMA FitsOf ==
    ASSUME IInv, NEW c \in Claudes
    PROVE  /\ Fits(c, hook[c]) /\ hook[c] \in Hooks /\ Types
           /\ hook[c].pc = "mark" <=> hook[c].current # None
           /\ spent \in 0..Budget
  BY TypesOfOne DEF IInv, HooksFit, Types

(* A hook that holds nothing.                                              *)
LEMMA EmptyFits ==
    ASSUME NEW c \in Claudes, NEW h, h.target = None, h.found = {}, h.current = None,
           h.pc \notin {"register", "reap", "mark"}
    PROVE  Fits(c, h)
  BY DEF Fits, RegistersItsSession, ReapsWhatWasLeft, FoundLeft, FoundStale, FoundOnce,
         ListedOfTarget, Settles

-----------------------------------------------------------------------------
(* The host.                                                               *)
LEMMA StartSessionInv ==
    ASSUME IInv, NEW c \in Claudes, NEW s \in Sessions, StartSession(c, s)
    PROVE  IInv'
  <1> USE DEF IInv
  <1>1. /\ claude[c].alive /\ claude[c].session = None /\ ~Hosted(s)
        /\ claude' = [claude EXCEPT ![c] = [@ EXCEPT !.session = s, !.registered = FALSE]]
        /\ UNCHANGED <<registry, job, spent>>
    BY DEF StartSession
  <1>2. Moved(c) /\ hook'[c].pc = "register" /\ Carries(c, None, {}, {}, None, {})
    BY StartSessionMoves DEF StartSession
  <1>3. s # None BY NoneAssumption
  <1>4. /\ claude' \in [Claudes -> Processes]
        /\ claude'[c].session = s /\ claude'[c].alive
        /\ \A d \in Claudes \ {c} : claude'[d] = claude[d]
    BY <1>1, TypesOfOne DEF Processes
  <1>5. Onward BY <1>1, <1>4 DEF Onward, JobOnward
  <1>6. OnlyGoes BY <1>1 DEF OnlyGoes
  <1>7. Fits(c, hook[c])'
    BY <1>2, <1>3, <1>4 DEF Carries, Fits, RegistersItsSession, ReapsWhatWasLeft, FoundLeft,
       FoundStale, FoundOnce, ListedOfTarget, Settles
  <1>8. HooksFit' BY <1>2, <1>4, <1>5, <1>6, <1>7, OthersFit
  <1>9. Types' BY <1>1, <1>2, <1>4 DEF Types, Moved, Carries
  <1>10. HostsAreSingle'
    <2>1. ASSUME NEW d \in Claudes, d # c PROVE claude[d].session # s
      BY <1>1, <1>3, <2>1 DEF HostsAreSingle, Hosted
    <2> QED BY <1>4, <2>1 DEF HostsAreSingle
  <1>11. HostsAreRegistered' BY <1>1, <1>2, <1>4 DEF HostsAreRegistered, Moved
  <1> QED BY <1>8, <1>9, <1>10, <1>11

(* A process that hosts its session no more.                               *)
LEMMA LeaveInv ==
    ASSUME IInv, NEW c \in Claudes, Moved(c), Fits(c, hook[c])', hook'[c].pc # "mark",
           hook'[c].current = None, claude' \in [Claudes -> Processes],
           claude'[c].session = None, claude'[c].alive => claude[c].alive,
           \A d \in Claudes \ {c} : claude'[d] = claude[d],
           UNCHANGED <<registry, job, spent>>
    PROVE  IInv'
  <1> USE DEF IInv
  <1>1. Onward BY DEF Onward, JobOnward
  <1>2. OnlyGoes BY DEF OnlyGoes
  <1>3. HooksFit' BY <1>1, <1>2, OthersFit
  <1>4. Types' BY DEF Types, Moved
  <1>5. HostsAreSingle' BY DEF HostsAreSingle
  <1>6. HostsAreRegistered' BY DEF HostsAreRegistered, Moved
  <1> QED BY <1>3, <1>4, <1>5, <1>6

LEMMA EndSessionInv ==
    ASSUME IInv, NEW c \in Claudes, EndSession(c) PROVE IInv'
  <1>1. /\ claude[c].alive /\ claude[c].session # None /\ hook[c].pc = "none"
        /\ claude' = [claude EXCEPT ![c].session = None]
        /\ UNCHANGED <<registry, job, spent>>
    BY DEF EndSession
  <1>2. /\ claude' \in [Claudes -> Processes] /\ claude'[c].session = None
        /\ claude'[c].alive = claude[c].alive
        /\ \A d \in Claudes \ {c} : claude'[d] = claude[d]
    BY <1>1, TypesOfOne DEF IInv, Processes
  <1>3. Moved(c) /\ hook'[c].pc = "list" /\ Carries(c, claude[c].session, {}, {}, None, {})
    BY EndSessionMoves DEF IInv
  <1>4. PICK s : s = claude[c].session OBVIOUS
  <1>5. registry[s] \in {None, c} /\ s # None BY <1>1, <1>4 DEF IInv, HostsAreRegistered
  <1>6. Left(c, hook[c], s)' BY <1>1, <1>2, <1>5 DEF Left
  <1>7. Fits(c, hook[c])'
    BY <1>2, <1>3, <1>4, <1>5, <1>6 DEF Carries, Fits, RegistersItsSession, ReapsWhatWasLeft,
       FoundLeft, FoundStale, FoundOnce, ListedOfTarget, Settles
  <1> QED BY <1>1, <1>2, <1>3, <1>7, LeaveInv DEF Carries

LEMMA ClaudeDiesInv ==
    ASSUME IInv, NEW c \in Claudes, ClaudeDies(c) PROVE IInv'
  <1>1. /\ claude' = [claude EXCEPT ![c] = [@ EXCEPT !.alive = FALSE, !.session = None]]
        /\ hook' = [hook EXCEPT ![c] = NoHook]
        /\ UNCHANGED <<registry, job, spent>>
    BY DEF ClaudeDies
  <1>2. /\ claude' \in [Claudes -> Processes] /\ claude'[c].session = None
        /\ ~claude'[c].alive
        /\ \A d \in Claudes \ {c} : claude'[d] = claude[d]
    BY <1>1, TypesOfOne DEF IInv, Processes
  <1>3. Moved(c) /\ hook'[c].pc = "none" /\ Carries(c, None, {}, {}, None, {})
    BY <1>1, NoHookMoves DEF IInv
  <1>4. Fits(c, hook[c])'
    BY <1>3 DEF Carries, Fits, RegistersItsSession, ReapsWhatWasLeft,
       FoundLeft, FoundStale, FoundOnce, ListedOfTarget, Settles
  <1> QED BY <1>1, <1>2, <1>3, <1>4, LeaveInv DEF Carries

-----------------------------------------------------------------------------
(* The hooks: the steps that only look.                                    *)
LEMMA StartAgainInv ==
    ASSUME IInv, NEW c \in Claudes, StartAgain(c) PROVE IInv'
  <1>1. /\ claude[c].session # None /\ hook[c].pc = "none"
        /\ hook' = [hook EXCEPT ![c] = [NoHook EXCEPT !.pc = "register"]]
        /\ UNCHANGED <<claude, registry, job, spent>>
    BY DEF StartAgain
  <1>2. Moved(c) /\ hook'[c].pc = "register" /\ Carries(c, None, {}, {}, None, {})
    BY <1>1, StartSessionMoves DEF IInv
  <1>3. PICK h : h = hook'[c] OBVIOUS
  <1>4. h \in Hooks BY <1>2, <1>3 DEF Moved
  <1>5. Fits(c, h)
    BY <1>1, <1>2, <1>3 DEF Carries, Fits, RegistersItsSession, ReapsWhatWasLeft,
       FoundLeft, FoundStale, FoundOnce, ListedOfTarget, Settles
  <1>6. h.current = None /\ h.pc = "register" BY <1>2, <1>3 DEF Carries
  <1> QED BY <1>1, <1>2, <1>3, <1>4, <1>5, <1>6, FitsOf, LookInv

(* A hook that ends, or a verb that begins: it holds nothing.              *)
LEMMA EmptyInv ==
    ASSUME IInv, NEW c \in Claudes, hook[c].pc # "register", Moved(c),
           hook'[c].pc \in {"none", "list"}, Carries(c, None, {}, {}, None, {}),
           UNCHANGED <<claude, registry, job>>, spent' \in 0..Budget
    PROVE  IInv'
  <1>1. PICK h : h = hook'[c] OBVIOUS
  <1>2. h \in Hooks BY <1>1 DEF Moved
  <1>3. /\ h.pc \in {"none", "list"}
        /\ h.target = None /\ h.found = {} /\ h.current = None
    BY <1>1 DEF Carries
  <1>4. Fits(c, h) BY <1>3, EmptyFits
  <1>5. h.pc = "mark" <=> h.current # None BY <1>3
  <1> QED BY <1>1, <1>2, <1>4, <1>5, LookInv

LEMMA HookTimesOutInv ==
    ASSUME IInv, NEW c \in Claudes, HookTimesOut(c) PROVE IInv'
  <1>1. /\ hook' = [hook EXCEPT ![c] = NoHook] /\ hook[c].pc # "register"
        /\ spent < Budget /\ spent' = spent + 1
        /\ UNCHANGED <<claude, registry, job>>
    BY DEF HookTimesOut
  <1>2. Moved(c) /\ hook'[c].pc = "none" /\ Carries(c, None, {}, {}, None, {})
    BY <1>1, NoHookMoves DEF IInv
  <1>3. spent' \in 0..Budget BY <1>1, FitsOf, BoundAssumption
  <1> QED BY <1>1, <1>2, <1>3, EmptyInv

LEMMA ReapVerbInv ==
    ASSUME IInv, NEW c \in Claudes, ReapVerb(c) PROVE IInv'
  <1>1. /\ hook' = [hook EXCEPT ![c] = [NoHook EXCEPT !.pc = "list"]]
        /\ hook[c].pc = "none" /\ spent < Budget /\ spent' = spent + 1
        /\ UNCHANGED <<claude, registry, job>>
    BY DEF ReapVerb
  <1>2. PICK h : h = [NoHook EXCEPT !.pc = "list"] OBVIOUS
  <1>3. /\ h \in Hooks /\ h.pc = "list" /\ h.target = None
        /\ h.todo = {} /\ h.found = {} /\ h.current = None /\ h.stale = {}
    BY <1>2 DEF NoHook, Hooks, Phases
  <1>4. Moved(c) /\ hook'[c] = h BY <1>1, <1>2, <1>3, FitsOf, Moves
  <1>5. Carries(c, None, {}, {}, None, {}) BY <1>3, <1>4 DEF Carries
  <1>6. spent' \in 0..Budget BY <1>1, FitsOf, BoundAssumption
  <1> QED BY <1>1, <1>3, <1>4, <1>5, <1>6, EmptyInv

LEMMA ListPredecessorsInv ==
    ASSUME IInv, NEW c \in Claudes, ListPredecessors(c) PROVE IInv'
  <1>1. hook[c].pc = "predecessors" /\ UNCHANGED <<claude, registry, job, spent>>
    BY DEF ListPredecessors
  <1>2. /\ Moved(c)
        /\ hook'[c].pc = IF Predecessors(c) = {} THEN "list" ELSE "predecessor"
        /\ Carries(c, hook[c].target, hook[c].todo, Predecessors(c) \X {c}, hook[c].current,
                   hook[c].stale)
    BY ListPredecessorsMoves DEF IInv
  <1>3. hook[c].target = None /\ hook[c].current = None
    BY <1>1, FitsOf DEF Fits, ReapsWhatWasLeft
  <1>4. PICK h : h = hook'[c] OBVIOUS
  <1>5. /\ h.target = None /\ h.found = Predecessors(c) \X {c} /\ h.current = None
        /\ h.pc \in {"list", "predecessor"}
        /\ h.pc = "list" => h.found = {}
    BY <1>2, <1>3, <1>4 DEF Carries
  <1>6. ASSUME NEW entry \in h.found
        PROVE  /\ claude[c].session # entry[1] /\ Left(c, h, entry[1])
               /\ entry[1] # None /\ entry = <<entry[1], c>>
    <2>1. PICK s \in Predecessors(c) : entry = <<s, c>> BY <1>5
    <2>2. s \in Sessions /\ registry[s] = c /\ claude[c].session # s BY <2>1 DEF Predecessors
    <2>3. Left(c, h, s) BY <2>2 DEF Left
    <2> QED BY <2>1, <2>2, <2>3, NoneAssumption
  <1>7. FoundLeft(c, h) BY <1>6 DEF FoundLeft
  <1>8. FoundOnce(h) BY <1>5, <1>6 DEF FoundOnce
  <1>9. Fits(c, h)
    BY <1>5, <1>7, <1>8 DEF Fits, RegistersItsSession, ReapsWhatWasLeft, FoundStale,
       ListedOfTarget, Settles
  <1>10. h \in Hooks /\ (h.pc = "mark" <=> h.current # None) BY <1>2, <1>4, <1>5 DEF Moved
  <1> QED BY <1>1, <1>2, <1>4, <1>9, <1>10, FitsOf, LookInv

LEMMA NextPredecessorInv ==
    ASSUME IInv, NEW c \in Claudes, NextPredecessor(c) PROVE IInv'
  <1>1. hook[c].pc = "predecessor" /\ UNCHANGED <<claude, registry, job, spent>>
    BY DEF NextPredecessor
  <1>2. /\ Moved(c) /\ hook'[c].pc = "list"
        /\ \/ \E entry \in hook[c].found :
                 /\ entry \in Sessions \X Claudes
                 /\ Carries(c, entry[1], hook[c].todo, hook[c].found \ {entry}, hook[c].current,
                            hook[c].stale)
           \/ /\ hook[c].found = {}
              /\ Carries(c, None, hook[c].todo, {}, hook[c].current, hook[c].stale)
    BY NextPredecessorMoves DEF IInv
  <1>3. hook[c].current = None BY <1>1, FitsOf
  <1>4. CASE /\ hook[c].found = {}
             /\ Carries(c, None, hook[c].todo, {}, hook[c].current, hook[c].stale)
    <2>1. PICK h : h = hook'[c] OBVIOUS
    <2>2. /\ h.target = None /\ h.found = {} /\ h.current = None /\ h.pc = "list"
      BY <1>2, <1>3, <1>4, <2>1 DEF Carries
    <2>3. Fits(c, h) BY <2>2, EmptyFits
    <2>4. h \in Hooks /\ (h.pc = "mark" <=> h.current # None) BY <1>2, <2>1, <2>2 DEF Moved
    <2> QED BY <1>1, <1>2, <2>1, <2>3, <2>4, FitsOf, LookInv
  <1>5. ASSUME NEW entry \in hook[c].found, entry \in Sessions \X Claudes,
               Carries(c, entry[1], hook[c].todo, hook[c].found \ {entry}, hook[c].current,
                       hook[c].stale)
        PROVE  IInv'
    <2>1. PICK h : h = hook'[c] OBVIOUS
    <2>2. /\ h.target = entry[1] /\ h.found = hook[c].found \ {entry} /\ h.current = None
          /\ h.stale = hook[c].stale /\ h.pc = "list"
      BY <1>2, <1>3, <1>5, <2>1 DEF Carries
    <2>3. /\ FoundLeft(c, hook[c]) /\ FoundOnce(hook[c]) BY FitsOf DEF Fits
    <2>4. entry[1] # None BY <1>5, NoneAssumption
    <2>5. ASSUME NEW other \in hook[c].found
          PROVE  claude[c].session # other[1] /\ Left(c, h, other[1])
      BY <1>1, <2>2, <2>3 DEF FoundLeft, Left
    <2>6. ReapsWhatWasLeft(c, h) BY <2>2, <2>5 DEF ReapsWhatWasLeft
    <2>7. FoundLeft(c, h) BY <2>2, <2>5 DEF FoundLeft
    <2>8. FoundOnce(h) BY <2>2, <2>3, <2>4 DEF FoundOnce
    <2>9. Fits(c, h)
      BY <2>2, <2>6, <2>7, <2>8 DEF Fits, RegistersItsSession, FoundStale, ListedOfTarget, Settles
    <2>10. h \in Hooks /\ (h.pc = "mark" <=> h.current # None) BY <1>2, <2>1, <2>2 DEF Moved
    <2> QED BY <1>1, <1>2, <2>1, <2>9, <2>10, FitsOf, LookInv
  <1> QED BY <1>2, <1>4, <1>5

(* A hook that reads or drops entries of the Jobs it reaps.                *)
LEMMA ReapingInv ==
    ASSUME IInv, NEW c \in Claudes, hook[c].pc \in {"list", "reap"},
           UNCHANGED <<claude, registry, job, spent>>, Moved(c), hook'[c].pc = "reap",
           NEW todo,
           Carries(c, hook[c].target, todo, hook[c].found, hook[c].current, hook[c].stale),
           \A entry \in todo : /\ job[entry[1]].status # "none"
                               /\ hook[c].target # None => job[entry[1]].session = hook[c].target
    PROVE  IInv'
  <1>1. PICK h : h = hook'[c] OBVIOUS
  <1>2. /\ h.target = hook[c].target /\ h.found = hook[c].found /\ h.current = hook[c].current
        /\ h.stale = hook[c].stale /\ h.todo = todo /\ h.pc = "reap"
    BY <1>1 DEF Carries
  <1>3. h.current = None BY <1>2, FitsOf
  <1>4. \A s : Left(c, hook[c], s) => Left(c, h, s) BY <1>2 DEF Left
  <1>5. ReapsWhatWasLeft(c, h) BY <1>2, <1>4, FitsOf DEF Fits, ReapsWhatWasLeft
  <1>6. FoundLeft(c, h) BY <1>2, <1>4, FitsOf DEF Fits, FoundLeft
  <1>7. FoundOnce(h) BY <1>2, FitsOf DEF Fits, FoundOnce
  <1>8. ListedOfTarget(h) BY <1>2 DEF ListedOfTarget
  <1>9. Fits(c, h)
    BY <1>2, <1>3, <1>5, <1>6, <1>7, <1>8 DEF Fits, RegistersItsSession, FoundStale, Settles
  <1>10. h \in Hooks /\ (h.pc = "mark" <=> h.current # None) BY <1>1, <1>2, <1>3 DEF Moved
  <1> QED BY <1>1, <1>9, <1>10, FitsOf, LookInv

LEMMA ListActiveInv ==
    ASSUME IInv, NEW c \in Claudes, ListActive(c) PROVE IInv'
  <1>1. hook[c].pc = "list" /\ UNCHANGED <<claude, registry, job, spent>> BY DEF ListActive
  <1>2. PICK todo \in SUBSET (Jobs \X BOOLEAN) :
           /\ Carries(c, hook[c].target, todo, hook[c].found, hook[c].current, hook[c].stale)
           /\ \A entry \in todo :
                 /\ job[entry[1]].status \in StoredActive
                 /\ hook[c].target # None => job[entry[1]].session = hook[c].target
    BY ListActiveMoves DEF IInv
  <1>3. Moved(c) /\ hook'[c].pc = "reap" BY ListActiveMoves DEF IInv
  <1>4. \A entry \in todo : job[entry[1]].status # "none" BY <1>2 DEF StoredActive
  <1> QED BY <1>1, <1>2, <1>3, <1>4, ReapingInv

LEMMA PassOverInv ==
    ASSUME IInv, NEW c \in Claudes, hook[c].pc = "reap", NEW entry \in hook[c].todo,
           hook' = [hook EXCEPT ![c].todo = @ \ {entry}],
           UNCHANGED <<claude, registry, job, spent>>
    PROVE  IInv'
  <1>1. /\ Moved(c) /\ hook'[c].pc = hook[c].pc
        /\ Carries(c, hook[c].target, hook[c].todo \ {entry}, hook[c].found, hook[c].current,
                   hook[c].stale)
    BY PassOverMoves DEF IInv
  <1>2. PICK todo : todo = hook[c].todo \ {entry} OBVIOUS
  <1>3. \A other \in todo :
           /\ job[other[1]].status # "none"
           /\ hook[c].target # None => job[other[1]].session = hook[c].target
    BY <1>2, FitsOf DEF Fits, ListedOfTarget
  <1> QED BY <1>1, <1>2, <1>3, ReapingInv

LEMMA SpareInv ==
    ASSUME IInv, NEW c \in Claudes, SpareOne(c) \/ WorkerSurvives(c) PROVE IInv'
  BY PassOverInv DEF SpareOne, WorkerSurvives

LEMMA ListRegistrationsInv ==
    ASSUME IInv, NEW c \in Claudes, ListRegistrations(c) PROVE IInv'
  <1>1. /\ hook[c].pc = "reap" /\ hook[c].target = None
        /\ UNCHANGED <<claude, registry, job, spent>>
    BY DEF ListRegistrations, Reaped
  <1>2. PICK found \in SUBSET (Sessions \X Claudes) :
           /\ Carries(c, hook[c].target, hook[c].todo, found, hook[c].current, hook[c].stale)
           /\ \A entry \in found : /\ entry[1] \in Sessions /\ entry[2] \in Claudes
                                   /\ registry[entry[1]] = entry[2]
    BY ListRegistrationsMoves DEF IInv
  <1>3. Moved(c) /\ hook'[c].pc = "unlink" BY ListRegistrationsMoves DEF IInv
  <1>4. PICK h : h = hook'[c] OBVIOUS
  <1>5. h.current = None /\ h.pc = "unlink" /\ h.target = None /\ h.found = found
    BY <1>1, <1>2, <1>3, <1>4, FitsOf DEF Carries
  <1>6. FoundStale(c, h)
    <2>1. ASSUME NEW entry \in found, claude[c].session = entry[1] PROVE entry[2] = c
      <3>1. /\ entry[1] \in Sessions /\ entry[2] \in Claudes /\ registry[entry[1]] = entry[2]
        BY <1>2
      <3>2. registry[entry[1]] \in {None, c}
        BY <1>1, <2>1, <3>1, NoneAssumption DEF IInv, HostsAreRegistered
      <3> QED BY <3>1, <3>2, NoneAssumption
    <2> QED BY <1>2, <1>5, <2>1 DEF FoundStale
  <1>7. FoundOnce(h)
    <2>1. ASSUME NEW entry \in found PROVE entry[1] # None BY <1>2, NoneAssumption
    <2>2. ASSUME NEW entry \in found, NEW other \in found, entry[1] = other[1]
          PROVE  entry = other
      BY <1>2, <2>2
    <2> QED BY <1>5, <2>1, <2>2 DEF FoundOnce
  <1>8. Fits(c, h)
    BY <1>5, <1>6, <1>7 DEF Fits, RegistersItsSession, ReapsWhatWasLeft, FoundLeft,
       ListedOfTarget, Settles
  <1>9. h \in Hooks /\ (h.pc = "mark" <=> h.current # None) BY <1>3, <1>4, <1>5 DEF Moved
  <1> QED BY <1>1, <1>3, <1>4, <1>8, <1>9, FitsOf, LookInv

-----------------------------------------------------------------------------
(* The hooks: the steps that write registrations.                          *)
(* A registration also tells the hooks at work on the session.             *)
LEMMA RegisterMoves ==
    ASSUME Types, NEW c \in Claudes, Register(c), NEW s \in Sessions, s = claude[c].session
    PROVE  /\ hook' \in [Claudes -> Hooks]
           /\ hook'[c].pc = "predecessors"
           /\ Carries(c, hook[c].target, hook[c].todo, hook[c].found, hook[c].current,
                      hook[c].stale)
           /\ \A d \in Claudes \ {c} :
                 SameWork(hook[d], hook'[d]) /\ (s \in AtWorkOn(d) => s \in hook'[d].stale)
  <1>1. \A d \in Claudes : hook'[d] =
           IF d = c THEN [hook[d] EXCEPT !.pc = "predecessors"]
           ELSE [hook[d] EXCEPT !.stale = @ \cup (AtWorkOn(d) \cap {s})]
    BY DEF Register
  <1>2. PICK h : h = [hook[c] EXCEPT !.pc = "predecessors"] OBVIOUS
  <1>3. /\ h \in Hooks /\ h.pc = "predecessors"
        /\ h.target = hook[c].target /\ h.todo = hook[c].todo
        /\ h.found = hook[c].found /\ h.current = hook[c].current /\ h.stale = hook[c].stale
    BY <1>2, HookOf DEF Hooks, Phases
  <1>4. hook'[c] = h BY <1>1, <1>2
  <1>5. ASSUME NEW d \in Claudes, d # c
        PROVE  /\ hook'[d] \in Hooks /\ SameWork(hook[d], hook'[d])
               /\ s \in AtWorkOn(d) => s \in hook'[d].stale
    <2>1. PICK k : k = hook[d] OBVIOUS
    <2>2. k \in Hooks BY <2>1, HookOf
    <2>3. PICK stale : stale = k.stale \cup (AtWorkOn(d) \cap {s}) OBVIOUS
    <2>4. stale \in SUBSET Sessions /\ k.stale \subseteq stale BY <2>2, <2>3 DEF Hooks
    <2>5. PICK g : g = [k EXCEPT !.stale = stale] OBVIOUS
    <2>6. /\ g \in Hooks /\ g.pc = k.pc /\ g.target = k.target /\ g.todo = k.todo
          /\ g.found = k.found /\ g.current = k.current /\ g.stale = stale
      BY <2>2, <2>4, <2>5 DEF Hooks
    <2>7. hook'[d] = g BY <1>1, <1>5, <2>1, <2>3, <2>5
    <2> QED BY <2>1, <2>3, <2>4, <2>6, <2>7 DEF SameWork
  <1>6. hook' \in [Claudes -> Hooks]
    <2>1. hook' = [d \in Claudes |-> hook'[d]] BY DEF Register
    <2>2. \A d \in Claudes : hook'[d] \in Hooks BY <1>3, <1>4, <1>5
    <2> QED BY <2>1, <2>2
  <1> QED BY <1>3, <1>4, <1>5, <1>6 DEF Carries

LEMMA RegisterInv ==
    ASSUME IInv, NEW c \in Claudes, Register(c) PROVE IInv'
  <1> USE DEF IInv
  <1>1. /\ hook[c].pc = "register"
        /\ registry' = [registry EXCEPT ![claude[c].session] = c]
        /\ claude' = [claude EXCEPT ![c].registered = TRUE]
        /\ UNCHANGED <<job, spent>>
    BY DEF Register
  <1>2. claude[c].session # None /\ claude[c].session \in Sessions
    BY <1>1, FitsOf, TypesOfOne DEF Fits, RegistersItsSession, Processes
  <1>3. /\ claude' \in [Claudes -> Processes]
        /\ \A d \in Claudes : /\ claude'[d].session = claude[d].session
                              /\ claude'[d].alive = claude[d].alive
    BY <1>1, TypesOfOne DEF Processes
  <1>4. PICK s \in Sessions : s = claude[c].session BY <1>2
  <1>5. /\ registry' \in [Sessions -> Claudes \cup {None}] /\ registry'[s] = c
        /\ \A t \in Sessions \ {s} : registry'[t] = registry[t]
    BY <1>1, <1>4, TypesOfOne
  <1>6. /\ hook' \in [Claudes -> Hooks]
        /\ hook'[c].pc = "predecessors"
        /\ Carries(c, hook[c].target, hook[c].todo, hook[c].found, hook[c].current, hook[c].stale)
        /\ \A d \in Claudes \ {c} :
              SameWork(hook[d], hook'[d]) /\ (s \in AtWorkOn(d) => s \in hook'[d].stale)
    BY <1>4, RegisterMoves
  <1>7. Onward BY <1>1, <1>3 DEF Onward, JobOnward
  <1>8. ASSUME NEW d \in Claudes, d # c PROVE Fits(d, hook[d])'
    <2>1. PICK h : h = hook[d] OBVIOUS
    <2>2. PICK g : g = hook'[d] OBVIOUS
    <2>3. h \in Hooks /\ g \in Hooks /\ Fits(d, h) BY <1>6, <2>1, <2>2, FitsOf
    <2>4. SameWork(h, g) BY <1>6, <1>8, <2>1, <2>2
    <2>5. Watched(h, g)
      <3>1. SUFFICES ASSUME WorksOn(h, s) PROVE s \in g.stale
        BY <1>5, <3>1 DEF Watched
      <3>2. h.current \in Jobs \cup {None} BY <2>3 DEF Hooks
      <3>3. s \in AtWorkOn(d) BY <2>1, <3>1, <3>2 DEF WorksOn, AtWorkOn
      <3> QED BY <1>6, <1>8, <2>2, <3>3
    <2>6. Types /\ claude'[d].session = claude[d].session BY <1>3
    <2>7. Fits(d, g)' BY <1>7, <2>3, <2>4, <2>5, <2>6, StillFits
    <2> QED BY <2>2, <2>7
  <1>9. hook[c].target = None /\ hook[c].current = None
    BY <1>1, FitsOf DEF Fits, ReapsWhatWasLeft
  <1>10. Fits(c, hook[c])'
    <2>1. PICK h : h = hook[c] OBVIOUS
    <2>2. h \in Hooks /\ Fits(c, h) BY <2>1, FitsOf
    <2>3. SameWork(h, h) BY DEF SameWork
    <2>4. ~WorksOn(h, s)
      BY <1>1, <1>4, <1>9, <2>1, <2>2, NoneAssumption DEF WorksOn, Fits, FoundLeft
    <2>5. Watched(h, h) BY <1>5, <2>4 DEF Watched
    <2>6. Types /\ claude'[c].session = claude[c].session BY <1>3
    <2>7. Fits(c, h)' BY <1>7, <2>2, <2>3, <2>5, <2>6, StillFits
    <2>8. PICK g : g = hook'[c] OBVIOUS
    <2>9. /\ g.pc = "predecessors" /\ g.target = None /\ g.current = None
          /\ g.found = h.found /\ g.stale = h.stale
      BY <1>6, <1>9, <2>1, <2>8 DEF Carries
    <2>10. FoundLeft(c, h)' /\ FoundOnce(h)' BY <2>7 DEF Fits
    <2>11. h.pc = "register" /\ h.target = None BY <1>1, <1>9, <2>1
    <2>12. FoundLeft(c, g)' BY <2>9, <2>10, <2>11 DEF FoundLeft, Left
    <2>13. FoundOnce(g)' BY <2>9, <2>10, <2>11 DEF FoundOnce
    <2>14. Fits(c, g)'
      BY <2>9, <2>12, <2>13 DEF Fits, RegistersItsSession, ReapsWhatWasLeft, FoundStale,
         ListedOfTarget, Settles
    <2> QED BY <2>8, <2>14
  <1>11. HooksFit' BY <1>8, <1>10 DEF HooksFit
  <1>12. Types' BY <1>1, <1>3, <1>5, <1>6, <1>9 DEF Types, SameWork, Carries
  <1>13. HostsAreSingle' BY <1>3 DEF HostsAreSingle
  <1>14. HostsAreRegistered'
    <2>1. SUFFICES ASSUME NEW d \in Claudes, claude[d].session # None, hook'[d].pc # "register"
                   PROVE  registry'[claude[d].session] \in {None, d}
      BY <1>3 DEF HostsAreRegistered
    <2>2. CASE d = c BY <1>4, <1>5, <2>2
    <2>3. CASE d # c
      <3>1. claude[d].session # s BY <1>2, <1>4, <2>3 DEF HostsAreSingle
      <3>2. claude[d].session \in Sessions BY <2>1, TypesOfOne DEF Processes
      <3>3. hook[d].pc # "register" BY <1>6, <2>1, <2>3 DEF SameWork
      <3> QED BY <1>5, <2>1, <3>1, <3>2, <3>3 DEF HostsAreRegistered
    <2> QED BY <2>2, <2>3
  <1> QED BY <1>11, <1>12, <1>13, <1>14

LEMMA GoesIsOnly ==
    ASSUME Types, NEW s \in Sessions,
           registry' = [registry EXCEPT ![s] = None] \/ registry' = registry
    PROVE  OnlyGoes /\ registry' \in [Sessions -> Claudes \cup {None}]
  BY TypesOfOne DEF OnlyGoes

LEMMA RemoveRegistrationInv ==
    ASSUME IInv, NEW c \in Claudes, RemoveRegistration(c) PROVE IInv'
  <1>1. /\ hook[c].pc = "reap" /\ registry' = [registry EXCEPT ![hook[c].target] = None]
        /\ hook[c].target # None /\ UNCHANGED <<claude, job, spent>>
    BY DEF RemoveRegistration, Reaped
  <1>2. PICK s \in Sessions : s = hook[c].target BY <1>1, FitsOf DEF Hooks
  <1>3. registry' = [registry EXCEPT ![s] = None] BY <1>1, <1>2
  <1>4. OnlyGoes /\ registry' \in [Sessions -> Claudes \cup {None}]
    BY <1>3, FitsOf, GoesIsOnly
  <1>5. /\ Moved(c)
        /\ \/ hook'[c].pc = "none" /\ Carries(c, None, {}, {}, None, {})
           \/ /\ hook'[c].pc = "predecessor"
              /\ Carries(c, None, hook[c].todo, hook[c].found, hook[c].current,
                         hook[c].stale \ {hook[c].target})
    BY RemoveMoves DEF IInv
  <1>6. hook[c].current = None BY <1>1, FitsOf
  <1>7. spent' \in 0..Budget BY <1>1, FitsOf
  <1>8. PICK h : h = hook'[c] OBVIOUS
  <1>9. h.current = None /\ h.target = None /\ h.pc \in {"none", "predecessor"}
    BY <1>5, <1>6, <1>8 DEF Carries
  <1>10. Fits(c, h)'
    <2>1. CASE h.found = {} BY <1>9, <2>1 DEF Fits, RegistersItsSession, ReapsWhatWasLeft,
                               FoundLeft, FoundStale, FoundOnce, ListedOfTarget, Settles
    <2>2. CASE h.found # {}
      <3>1. h.found = hook[c].found /\ h.stale = hook[c].stale \ {s}
        BY <1>2, <1>5, <1>8, <2>2 DEF Carries
      <3>2. PICK k : k = hook[c] OBVIOUS
      <3>3. k \in Hooks /\ Fits(c, k) /\ Types BY <3>2, FitsOf
      <3>4. Onward BY <1>1 DEF Onward, JobOnward
      <3>5. claude'[c].session = claude[c].session BY <1>1
      <3>6. Fits(c, k)' BY <1>4, <3>3, <3>4, <3>5, QuietFits
      <3>7. FoundLeft(c, k)' /\ FoundOnce(k)' BY <3>6 DEF Fits
      <3>8. ASSUME NEW entry \in h.found
            PROVE  claude'[c].session # entry[1] /\ Left(c, h, entry[1])' /\ entry[1] # None
        <4>1. claude'[c].session # entry[1] /\ Left(c, k, entry[1])' /\ entry[1] # s
          BY <1>1, <1>2, <3>1, <3>2, <3>7 DEF FoundLeft, FoundOnce
        <4>2. entry[1] \in k.stale => entry[1] \in h.stale BY <3>1, <3>2, <4>1
        <4>3. Left(c, h, entry[1])' BY <4>1, <4>2 DEF Left
        <4>4. entry \in Sessions \X Claudes BY <3>1, <3>2, <3>3 DEF Hooks
        <4> QED BY <4>1, <4>3, <4>4, NoneAssumption
      <3>9. FoundLeft(c, h)' BY <3>8 DEF FoundLeft
      <3>10. FoundOnce(h)' BY <1>9, <3>1, <3>2, <3>7, <3>8 DEF FoundOnce
      <3> QED BY <1>9, <3>9, <3>10 DEF Fits, RegistersItsSession, ReapsWhatWasLeft, FoundStale,
                                       ListedOfTarget, Settles
    <2> QED BY <2>1, <2>2
  <1>11. Fits(c, hook[c])' BY <1>8, <1>10
  <1>12. (hook[c].pc = "mark" <=> hook[c].current # None)' BY <1>8, <1>9
  <1> QED BY <1>1, <1>4, <1>5, <1>7, <1>11, <1>12, PeacefulInv

LEMMA UnlinkInv ==
    ASSUME IInv, NEW c \in Claudes, Unlink(c) PROVE IInv'
  <1>1. hook[c].pc = "unlink" /\ UNCHANGED <<claude, job, spent>> BY DEF Unlink
  <1>2. spent' \in 0..Budget BY <1>1, FitsOf
  <1>3. ASSUME NEW entry \in hook[c].found,
               registry' = IF claude[entry[2]].alive THEN registry
                           ELSE [registry EXCEPT ![entry[1]] = None],
               hook' = [hook EXCEPT ![c] = [hook[c] EXCEPT !.found = @ \ {entry},
                                                           !.stale = @ \ {entry[1]}]]
        PROVE  IInv'
    <2>1. /\ Moved(c) /\ hook'[c].pc = hook[c].pc
          /\ entry[1] \in Sessions /\ entry[2] \in Claudes
          /\ Carries(c, hook[c].target, hook[c].todo, hook[c].found \ {entry}, hook[c].current,
                     hook[c].stale \ {entry[1]})
      BY <1>3, UnlinkMoves DEF IInv
    <2>2. PICK s \in Sessions : s = entry[1] BY <2>1
    <2>3. registry' = [registry EXCEPT ![s] = None] \/ registry' = registry BY <1>3, <2>2
    <2>4. OnlyGoes /\ registry' \in [Sessions -> Claudes \cup {None}]
      BY <2>3, FitsOf, GoesIsOnly
    <2>5. PICK k : k = hook[c] OBVIOUS
    <2>6. k \in Hooks /\ Fits(c, k) /\ Types /\ k.pc = "unlink" BY <1>1, <2>5, FitsOf
    <2>7. k.target = None /\ k.current = None
      BY <2>5, <2>6, FitsOf DEF Fits, ReapsWhatWasLeft
    <2>8. Onward BY <1>1 DEF Onward, JobOnward
    <2>9. claude'[c].session = claude[c].session BY <1>1
    <2>10. Fits(c, k)' BY <2>4, <2>6, <2>8, <2>9, QuietFits
    <2>11. FoundStale(c, k)' /\ FoundOnce(k)' BY <2>10 DEF Fits
    <2>12. PICK h : h = hook'[c] OBVIOUS
    <2>13. /\ h.pc = "unlink" /\ h.target = None /\ h.current = None
           /\ h.found = k.found \ {entry} /\ h.stale = k.stale \ {s}
      BY <2>1, <2>2, <2>5, <2>6, <2>7, <2>12 DEF Carries
    <2>14. ASSUME NEW other \in h.found
           PROVE  other \in k.found /\ (other[1] \in k.stale => other[1] \in h.stale)
      BY <1>3, <2>2, <2>5, <2>11, <2>13 DEF FoundOnce
    <2>15. FoundStale(c, h)' BY <2>6, <2>11, <2>13, <2>14 DEF FoundStale
    <2>16. FoundOnce(h)' BY <2>7, <2>11, <2>13 DEF FoundOnce
    <2>17. Fits(c, h)'
      BY <2>13, <2>15, <2>16 DEF Fits, RegistersItsSession, ReapsWhatWasLeft, FoundLeft,
         ListedOfTarget, Settles
    <2>18. Fits(c, hook[c])' /\ (hook[c].pc = "mark" <=> hook[c].current # None)'
      BY <2>12, <2>13, <2>17
    <2> QED BY <1>1, <1>2, <2>1, <2>4, <2>18, PeacefulInv
  <1>4. ASSUME hook' = [hook EXCEPT ![c] = NoHook], UNCHANGED registry
        PROVE  IInv'
    <2>1. Moved(c) /\ hook'[c].pc = "none" /\ Carries(c, None, {}, {}, None, {})
      BY <1>4, NoHookMoves DEF IInv
    <2> QED BY <1>1, <1>2, <1>4, <2>1, EmptyInv
  <1> QED BY <1>3, <1>4 DEF Unlink

-----------------------------------------------------------------------------
(* The Jobs, when no hook moves.                                           *)
LEMMA JobStepInv ==
    ASSUME IInv, UNCHANGED <<claude, hook, registry, spent>>,
           NEW j \in Jobs, NEW r \in Records, job' = [job EXCEPT ![j] = r],
           job[j].status # "none" => r.status # "none" /\ r.session = job[j].session
                                     /\ (job[j].worker = "dead" => r.worker = "dead")
    PROVE  IInv'
  <1> USE DEF IInv
  <1>1. /\ job' \in [Jobs -> Records] /\ job'[j] = r
        /\ \A i \in Jobs \ {j} : job'[i] = job[i]
    BY TypesOfOne
  <1>2. Onward BY <1>1 DEF Onward, JobOnward
  <1>3. OnlyGoes BY DEF OnlyGoes
  <1>4. HooksFit' BY <1>2, <1>3, IdleHooksFit
  <1>5. Types' BY <1>1 DEF Types
  <1>6. HostsAreSingle' /\ HostsAreRegistered' BY DEF HostsAreSingle, HostsAreRegistered
  <1> QED BY <1>4, <1>5, <1>6

LEMMA TaskInv ==
    ASSUME IInv, NEW c \in Claudes, NEW j \in Jobs, NEW s \in {claude[c].session, None},
           Task(c, j, s)
    PROVE  IInv'
  <1>1. /\ claude[c].session # None /\ job[j].status = "none"
        /\ job' = [job EXCEPT ![j] = [NoJob EXCEPT !.status = "starting", !.session = s]]
        /\ UNCHANGED <<claude, hook, registry, spent>>
    BY DEF Task
  <1>2. s \in Sessions \cup {None} BY TypesOfOne DEF IInv, Processes
  <1>3. PICK r : r = [NoJob EXCEPT !.status = "starting", !.session = s] OBVIOUS
  <1>4. r \in Records BY <1>2, <1>3 DEF NoJob, Records, Statuses
  <1>5. job' = [job EXCEPT ![j] = r] BY <1>1, <1>3
  <1> QED BY <1>1, <1>4, <1>5, JobStepInv

LEMMA JobInv ==
    ASSUME IInv, NEW j \in Jobs,
           Create(j) \/ Spawn(j) \/ PidLands(j) \/ ClaimRefused(j) \/ WorkerEnds(j)
    PROVE  IInv'
  <1>1. job[j] \in Records BY TypesOfOne DEF IInv
  <1>2. ASSUME NEW r \in Records, job' = [job EXCEPT ![j] = r],
               UNCHANGED <<claude, hook, registry, spent>>,
               job[j].status # "none", r.status # "none",
               r.session = job[j].session,
               job[j].worker = "dead" => r.worker = "dead"
        PROVE  IInv'
    BY <1>2, JobStepInv
  <1>3. CASE Create(j)
    <2>1. PICK r : r = [job[j] EXCEPT !.status = "queued"] OBVIOUS
    <2>2. job' = [job EXCEPT ![j] = r] BY <1>3, <2>1, TypesOfOne DEF Create, IInv
    <2>3. r \in Records BY <1>1, <2>1 DEF Records, Statuses, StoredActive
    <2>4. /\ r.session = job[j].session /\ r.status # "none"
          /\ job[j].status # "none" /\ (job[j].worker = "dead" => r.worker = "dead")
      BY <1>1, <1>3, <2>1 DEF Create, Records
    <2>5. UNCHANGED <<claude, hook, registry, spent>> BY <1>3 DEF Create
    <2> QED BY <1>2, <2>2, <2>3, <2>4, <2>5
  <1>4. CASE Spawn(j)
    <2>1. PICK r : r = [job[j] EXCEPT !.worker = "alive"] OBVIOUS
    <2>2. job' = [job EXCEPT ![j] = r] BY <1>4, <2>1, TypesOfOne DEF Spawn, IInv
    <2>3. r \in Records BY <1>1, <2>1 DEF Records, Statuses, StoredActive
    <2>4. /\ r.session = job[j].session /\ r.status # "none"
          /\ job[j].status # "none" /\ (job[j].worker = "dead" => r.worker = "dead")
      BY <1>1, <1>4, <2>1 DEF Spawn, Records
    <2>5. UNCHANGED <<claude, hook, registry, spent>> BY <1>4 DEF Spawn
    <2> QED BY <1>2, <2>2, <2>3, <2>4, <2>5
  <1>5. CASE PidLands(j)
    <2>1. PICK status \in StoredActive :
             job' = [job EXCEPT ![j] = [@ EXCEPT !.pid = TRUE, !.status = status]]
      BY <1>5 DEF PidLands
    <2>2. PICK r : r = [job[j] EXCEPT !.pid = TRUE, !.status = status] OBVIOUS
    <2>3. job' = [job EXCEPT ![j] = r] BY <2>1, <2>2, TypesOfOne DEF IInv
    <2>4. r \in Records BY <1>1, <2>2 DEF Records, Statuses
    <2> QED BY <1>1, <1>2, <1>5, <2>2, <2>3, <2>4 DEF PidLands, Records, StoredActive
  <1>6. CASE ClaimRefused(j)
    <2>1. PICK r : r = [job[j] EXCEPT !.worker = "dead"] OBVIOUS
    <2>2. job' = [job EXCEPT ![j] = r] BY <1>6, <2>1, TypesOfOne DEF ClaimRefused, IInv
    <2>3. r \in Records BY <1>1, <2>1 DEF Records, Statuses, StoredActive
    <2>4. /\ r.session = job[j].session /\ r.status # "none"
          /\ job[j].status # "none" /\ (job[j].worker = "dead" => r.worker = "dead")
      BY <1>1, <1>6, <2>1 DEF ClaimRefused, Records
    <2>5. UNCHANGED <<claude, hook, registry, spent>> BY <1>6 DEF ClaimRefused
    <2> QED BY <1>2, <2>2, <2>3, <2>4, <2>5
  <1>7. CASE WorkerEnds(j)
    <2>1. PICK status \in {"finished", "running"} :
             job' = [job EXCEPT ![j] = [@ EXCEPT !.worker = "dead", !.status = status]]
      BY <1>7 DEF WorkerEnds
    <2>2. PICK r : r = [job[j] EXCEPT !.worker = "dead", !.status = status] OBVIOUS
    <2>3. job' = [job EXCEPT ![j] = r] BY <2>1, <2>2, TypesOfOne DEF IInv
    <2>4. r \in Records BY <1>1, <2>2 DEF Records, Statuses, StoredActive
    <2> QED BY <1>1, <1>2, <1>7, <2>2, <2>3, <2>4 DEF WorkerEnds, Records
  <1> QED BY <1>3, <1>4, <1>5, <1>6, <1>7

-----------------------------------------------------------------------------
(* The hooks: the steps that settle a Job.                                 *)
LEMMA KillsMaySettle ==
    ASSUME IInv, NEW c \in Claudes, hook[c].pc = "reap", NEW entry \in hook[c].todo,
           ~Spared(c, entry)
    PROVE  MaySettle(c, hook[c], entry[1])
  <1> DEFINE j == entry[1]
  <1>1. j \in Jobs BY EntryIsOfAJob DEF IInv
  <1>2. /\ job[j].status # "none"
        /\ hook[c].target # None => job[j].session = hook[c].target
    BY FitsOf DEF Fits, ListedOfTarget
  <1>3. CASE hook[c].target # None
    <2>1. Left(c, hook[c], job[j].session)
      BY <1>2, <1>3, FitsOf DEF Fits, ReapsWhatWasLeft
    <2> QED BY <1>2, <1>3, <2>1 DEF MaySettle
  <1>4. CASE hook[c].target = None
    <2>1. /\ job[j].session # None => ~SessionIsAlive(job[j].session)
          /\ job[j].session = None => job[j].worker = "dead"
      BY <1>4 DEF Spared
    <2>2. job[j].session # None => Left(c, hook[c], job[j].session)
      BY <2>1 DEF SessionIsAlive, Left
    <2> QED BY <1>2, <2>1, <2>2 DEF MaySettle
  <1> QED BY <1>3, <1>4

LEMMA MarksMaySettle ==
    ASSUME IInv, NEW c \in Claudes, hook[c].pc = "mark"
    PROVE  hook[c].current \in Jobs /\ MaySettle(c, hook[c], hook[c].current)
  BY FitsOf DEF Fits, Settles, Hooks

(* A Job that may be settled is, its owner unchanged.                      *)
LEMMA SettleInv ==
    ASSUME IInv, UNCHANGED <<claude, registry, spent>>,
           NEW c \in Claudes, hook[c].pc \in {"reap", "mark"},
           NEW j \in Jobs, MaySettle(c, hook[c], j), NEW r \in Records, r.status # "none",
           r.session = job[j].session, job[j].worker = "dead" => r.worker = "dead",
           job' = [job EXCEPT ![j] = r] \/ job' = job,
           Moved(c), NEW h \in Hooks, hook'[c] = h, h.pc \in {"reap", "mark"},
           h.target = hook[c].target, h.found = hook[c].found,
           h.stale = hook[c].stale \/ (h.target = None /\ h.current = None),
           h.todo \subseteq hook[c].todo,
           h.current \in {None, j}, h.pc = "mark" <=> h.current # None
    PROVE  IInv'
  <1> USE DEF IInv
  <1>1. job[j].status # "none" /\ j # None BY NoneAssumption DEF MaySettle
  <1>2. /\ job' \in [Jobs -> Records] /\ \A i \in Jobs : JobOnward(i)
        /\ job'[j].status # "none" /\ job'[j].session = job[j].session
        /\ job[j].worker = "dead" => job'[j].worker = "dead"
    <2>1. CASE job' = job BY <1>1, <2>1, TypesOfOne DEF JobOnward
    <2>2. CASE job' = [job EXCEPT ![j] = r]
      <3>1. /\ job' \in [Jobs -> Records] /\ job'[j] = r
            /\ \A i \in Jobs \ {j} : job'[i] = job[i]
        BY <2>2, TypesOfOne
      <3> QED BY <3>1 DEF JobOnward
    <2> QED BY <2>1, <2>2
  <1>3. Onward BY <1>2 DEF Onward
  <1>4. OnlyGoes BY DEF OnlyGoes
  <1>5. PICK k : k = hook[c] OBVIOUS
  <1>6. k \in Hooks /\ Fits(c, k) /\ Types /\ k.pc \in {"reap", "mark"} BY <1>5, FitsOf
  <1>7. claude'[c].session = claude[c].session OBVIOUS
  <1>8. Fits(c, k)' BY <1>3, <1>4, <1>6, <1>7, QuietFits
  <1>9. /\ ReapsWhatWasLeft(c, k)' /\ FoundLeft(c, k)' /\ FoundOnce(k)' /\ ListedOfTarget(k)'
    BY <1>8 DEF Fits
  <1>10. ListedOfTarget(h)' BY <1>5, <1>6, <1>9 DEF ListedOfTarget
  <1>11. FoundOnce(h)' BY <1>5, <1>6, <1>9 DEF FoundOnce
  <1>12. Fits(c, h)'
    <2>1. CASE h.stale = k.stale
      <3>1. ReapsWhatWasLeft(c, h)' /\ FoundLeft(c, h)'
        BY <1>5, <1>6, <1>9, <2>1 DEF ReapsWhatWasLeft, FoundLeft, Left
      <3>2. Settles(c, h)'
        BY <1>2, <1>5, <2>1 DEF Settles, MaySettle, Left
      <3> QED BY <1>10, <1>11, <3>1, <3>2 DEF Fits, RegistersItsSession, FoundStale
    <2>2. CASE h.target = None /\ h.current = None
      <3>1. h.found = {} BY <1>11, <2>2 DEF FoundOnce
      <3> QED BY <1>10, <1>11, <2>2, <3>1 DEF Fits, RegistersItsSession, ReapsWhatWasLeft,
                                              FoundLeft, FoundStale, Settles
    <2> QED BY <1>5, <2>1, <2>2
  <1>13. Fits(c, hook[c])' BY <1>12
  <1>14. HooksFit' BY <1>3, <1>4, <1>13, OthersFit
  <1>15. Types' BY <1>2 DEF Types, Moved
  <1>16. HostsAreSingle' BY DEF HostsAreSingle
  <1>17. HostsAreRegistered'
    <2>1. \A d \in Claudes : hook[d].pc = "register" => hook'[d].pc = "register"
      BY DEF Moved
    <2> QED BY <2>1 DEF HostsAreRegistered
  <1> QED BY <1>14, <1>15, <1>16, <1>17

LEMMA KillOneInv ==
    ASSUME IInv, NEW c \in Claudes, KillOne(c) PROVE IInv'
  <1>1. PICK entry \in hook[c].todo :
           /\ ~Spared(c, entry)
           /\ job' = IF entry[2] THEN [job EXCEPT ![entry[1]].worker = "dead"] ELSE job
           /\ hook' = [hook EXCEPT ![c] = [hook[c] EXCEPT !.pc = "mark", !.todo = @ \ {entry},
                                                          !.current = entry[1]]]
    BY DEF KillOne
  <1>2. hook[c].pc = "reap" /\ UNCHANGED <<claude, registry, spent>> BY DEF KillOne
  <1>3. PICK j \in Jobs : j = entry[1] BY EntryIsOfAJob DEF IInv
  <1>4. MaySettle(c, hook[c], j) BY <1>1, <1>2, <1>3, KillsMaySettle
  <1>5. PICK r : r = [job[j] EXCEPT !.worker = "dead"] OBVIOUS
  <1>6. /\ r \in Records /\ r.status = job[j].status /\ r.session = job[j].session
        /\ r.worker = "dead"
    BY <1>5, TypesOfOne DEF IInv, Records
  <1>7. job' = [job EXCEPT ![j] = r] \/ job' = job
    BY <1>1, <1>3, <1>5, TypesOfOne DEF IInv
  <1>8. /\ Moved(c) /\ hook'[c].pc = "mark"
        /\ Carries(c, hook[c].target, hook[c].todo \ {entry}, hook[c].found, entry[1],
                   hook[c].stale)
    BY <1>1, KillOneMoves DEF IInv
  <1>9. PICK h : h = hook'[c] OBVIOUS
  <1>10. h \in Hooks BY <1>8, <1>9 DEF Moved
  <1>11. /\ h.pc = "mark" /\ h.current = j /\ h.todo \subseteq hook[c].todo
         /\ h.target = hook[c].target /\ h.found = hook[c].found /\ h.stale = hook[c].stale
    BY <1>3, <1>8, <1>9 DEF Carries
  <1>12. r.status # "none" /\ j # None BY <1>4, <1>6, NoneAssumption DEF MaySettle
  <1> QED BY <1>2, <1>4, <1>6, <1>7, <1>8, <1>9, <1>10, <1>11, <1>12, SettleInv

LEMMA MarkOneInv ==
    ASSUME IInv, NEW c \in Claudes, MarkOne(c) PROVE IInv'
  <1>1. hook[c].pc = "mark" /\ UNCHANGED <<claude, registry, spent>> BY DEF MarkOne
  <1>2. PICK j \in Jobs : j = hook[c].current BY <1>1, MarksMaySettle
  <1>3. MaySettle(c, hook[c], j) BY <1>1, <1>2, MarksMaySettle
  <1>4. PICK verdict \in {"interrupted", "cancelled"} :
           verdict = IF hook[c].target = None THEN "interrupted" ELSE "cancelled"
    OBVIOUS
  <1>5. PICK r : r = [job[j] EXCEPT !.status = verdict] OBVIOUS
  <1>6. /\ r \in Records /\ r.status = verdict /\ r.session = job[j].session
        /\ r.worker = job[j].worker
    BY <1>5, TypesOfOne DEF IInv, Records, Statuses
  <1>7. job' = [job EXCEPT ![j] = r] \/ job' = job
    BY <1>2, <1>4, <1>5, TypesOfOne DEF MarkOne, IInv
  <1>8. /\ Moved(c) /\ hook'[c].pc = "reap"
        /\ Carries(c, hook[c].target, hook[c].todo, hook[c].found, None,
                   IF hook[c].target = None THEN {} ELSE hook[c].stale)
    BY MarkOneMoves DEF IInv
  <1>9. PICK h : h = hook'[c] OBVIOUS
  <1>10. h \in Hooks BY <1>8, <1>9 DEF Moved
  <1>11. /\ h.pc = "reap" /\ h.current = None /\ h.todo \subseteq hook[c].todo
         /\ h.target = hook[c].target /\ h.found = hook[c].found
         /\ h.stale = hook[c].stale \/ h.target = None
    BY <1>8, <1>9 DEF Carries
  <1>12. r.status # "none" BY <1>4, <1>6
  <1> QED BY <1>1, <1>3, <1>6, <1>7, <1>8, <1>9, <1>10, <1>11, <1>12, SettleInv

-----------------------------------------------------------------------------
(* The whole.                                                              *)
LEMMA InitInv == Init => IInv
  <1> SUFFICES ASSUME Init PROVE IInv OBVIOUS
  <1>1. Types BY InitTypes
  <1>2. \A c \in Claudes : claude[c].session = None /\ hook[c] = NoHook BY DEF Init
  <1>3. \A c \in Claudes : Fits(c, hook[c]) BY <1>2, NoHookIs, EmptyFits
  <1>4. HostsAreSingle /\ HostsAreRegistered
    BY <1>2 DEF HostsAreSingle, HostsAreRegistered
  <1> QED BY <1>1, <1>3, <1>4 DEF IInv, HooksFit

LEMMA StepInv == ASSUME IInv, [Next]_vars PROVE IInv'
  <1>1. ASSUME NEW c \in Claudes, NEW s \in Sessions, StartSession(c, s) PROVE IInv'
    BY <1>1, StartSessionInv
  <1>2. ASSUME NEW c \in Claudes,
               StartAgain(c) \/ EndSession(c) \/ ReapVerb(c) \/ ClaudeDies(c) \/ HookTimesOut(c)
        PROVE  IInv'
    BY <1>2, StartAgainInv, EndSessionInv, ReapVerbInv, ClaudeDiesInv, HookTimesOutInv
  <1>3. ASSUME NEW c \in Claudes, HookSteps(c) \/ WorkerSurvives(c) PROVE IInv'
    BY <1>3, RegisterInv, ListPredecessorsInv, NextPredecessorInv, ListActiveInv, SpareInv,
       KillOneInv, MarkOneInv, RemoveRegistrationInv, ListRegistrationsInv, UnlinkInv
       DEF HookSteps
  <1>4. ASSUME NEW c \in Claudes, NEW j \in Jobs,
               Task(c, j, claude[c].session) \/ Task(c, j, None)
        PROVE  IInv'
    <2>1. PICK s : s = claude[c].session OBVIOUS
    <2>2. Task(c, j, s) \/ Task(c, j, None) BY <1>4, <2>1
    <2> QED BY <2>1, <2>2, TaskInv
  <1>5. ASSUME NEW j \in Jobs,
               Create(j) \/ Spawn(j) \/ PidLands(j) \/ ClaimRefused(j) \/ WorkerEnds(j)
        PROVE  IInv'
    BY <1>5, JobInv
  <1>6. ASSUME UNCHANGED vars PROVE IInv'
    <2> USE <1>6 DEF vars, IInv
    <2>1. Onward BY DEF Onward, JobOnward
    <2>2. OnlyGoes BY DEF OnlyGoes
    <2>3. HooksFit' BY <2>1, <2>2, IdleHooksFit
    <2>4. Types' BY DEF Types
    <2>5. HostsAreSingle' /\ HostsAreRegistered' BY DEF HostsAreSingle, HostsAreRegistered
    <2> QED BY <2>3, <2>4, <2>5
  <1> QED BY <1>1, <1>2, <1>3, <1>4, <1>5, <1>6 DEF Next

(* The inductive invariant holds throughout, for any number of processes,  *)
(* sessions, Jobs and hooks killed at their limit, whatever sessions are   *)
(* resumed, by whom and while whatever hooks are at work on them.          *)
THEOREM Inductive == Spec => []IInv
  <1>1. IInv /\ [Next]_vars => IInv' BY StepInv
  <1> QED BY <1>1, InitInv, PTL DEF Spec

(* The body of LiveSessionStaysRegistered.                                 *)
StaysRegistered ==
    \A c \in Claudes, s \in Sessions :
        (Hosting(c, s) /\ registry[s] = c /\ registry'[s] # c) =>
           \E h \in Claudes \ {c} : hook'[h] # hook[h] /\ s \in hook[h].stale

LEMMA StepStays == ASSUME IInv, [Next]_vars PROVE StaysRegistered
  <1>1. ASSUME NEW h \in Claudes, Register(h) PROVE StaysRegistered
    <2>1. SUFFICES ASSUME NEW c \in Claudes, NEW s \in Sessions, Hosting(c, s),
                          registry[s] = c, registry'[s] # c
                   PROVE  FALSE
      BY DEF StaysRegistered
    <2>2. registry' = [registry EXCEPT ![claude[h].session] = h] BY <1>1 DEF Register
    <2>3. claude[h].session = s /\ registry'[s] = h BY <2>1, <2>2, TypesOfOne DEF IInv
    <2>4. h = c BY <2>1, <2>3 DEF Hosting, IInv, HostsAreSingle
    <2> QED BY <2>1, <2>3, <2>4
  <1>2. ASSUME NEW h \in Claudes, RemoveRegistration(h) PROVE StaysRegistered
    <2>1. SUFFICES ASSUME NEW c \in Claudes, NEW s \in Sessions, Hosting(c, s),
                          registry[s] = c, registry'[s] # c
                   PROVE  h # c /\ hook'[h] # hook[h] /\ s \in hook[h].stale
      BY DEF StaysRegistered
    <2>2. /\ registry' = [registry EXCEPT ![hook[h].target] = None] /\ hook[h].target # None
          /\ hook[h].pc = "reap"
      BY <1>2 DEF RemoveRegistration, Reaped
    <2>3. s = hook[h].target BY <2>1, <2>2, TypesOfOne DEF IInv
    <2>4. claude[h].session # s /\ Left(h, hook[h], s)
      BY <2>2, <2>3, FitsOf DEF Fits, ReapsWhatWasLeft
    <2>5. h # c BY <2>1, <2>4 DEF Hosting
    <2>6. s \in hook[h].stale BY <2>1, <2>4, <2>5, NoneAssumption DEF Left, Hosting
    <2>7. hook'[h].pc # "reap" BY <1>2, RemoveMoves DEF IInv
    <2> QED BY <2>2, <2>5, <2>6, <2>7
  <1>3. ASSUME NEW h \in Claudes, Unlink(h) PROVE StaysRegistered
    <2>1. SUFFICES ASSUME NEW c \in Claudes, NEW s \in Sessions, Hosting(c, s),
                          registry[s] = c, registry'[s] # c
                   PROVE  h # c /\ hook'[h] # hook[h] /\ s \in hook[h].stale
      BY DEF StaysRegistered
    <2>2. hook[h].pc = "unlink" BY <1>3 DEF Unlink
    <2>3. PICK entry \in hook[h].found :
             /\ registry' = IF claude[entry[2]].alive THEN registry
                            ELSE [registry EXCEPT ![entry[1]] = None]
             /\ hook' = [hook EXCEPT ![h] = [hook[h] EXCEPT !.found = @ \ {entry},
                                                            !.stale = @ \ {entry[1]}]]
      BY <1>3, <2>1 DEF Unlink
    <2>4. s = entry[1] /\ ~claude[entry[2]].alive BY <2>1, <2>3, TypesOfOne DEF IInv
    <2>5. /\ registry[s] \in {None, entry[2]} \/ s \in hook[h].stale
          /\ claude[h].session = s => entry[2] = h
      BY <2>2, <2>4, FitsOf DEF Fits, FoundStale
    <2>6. entry[2] # c /\ claude[c].session = s BY <2>1, <2>4 DEF Hosting
    <2>7. h # c /\ s \in hook[h].stale BY <2>1, <2>5, <2>6, NoneAssumption
    <2>8. Carries(h, hook[h].target, hook[h].todo, hook[h].found \ {entry}, hook[h].current,
                  hook[h].stale \ {entry[1]})
      BY <2>3, UnlinkMoves DEF IInv
    <2>9. hook'[h].found # hook[h].found BY <2>8 DEF Carries
    <2> QED BY <2>7, <2>9
  <1>4. CASE UNCHANGED registry BY <1>4 DEF StaysRegistered
  <1>5. \/ UNCHANGED registry
        \/ \E h \in Claudes : Register(h) \/ RemoveRegistration(h) \/ Unlink(h)
    BY DEF Next, vars, HookSteps, StartSession, StartAgain, EndSession, ReapVerb, ClaudeDies,
       HookTimesOut, ListPredecessors, NextPredecessor, ListActive, SpareOne, KillOne, MarkOne,
       ListRegistrations, WorkerSurvives, Task, Create, Spawn, PidLands, ClaimRefused,
       WorkerEnds
  <1> QED BY <1>1, <1>2, <1>3, <1>4, <1>5

(* While a session is hosted its registration goes by nothing but the hook *)
(* of another process that was at work on the session - reaped it, or had  *)
(* read its former registration to collect it - when it was resumed        *)
(* (`_register_and_reap`, `_gc_stale_registrations`).                      *)
THEOREM LiveSessionRegistered == Spec => LiveSessionStaysRegistered
  <1>1. IInv /\ [Next]_vars => StaysRegistered BY StepStays
  <1> QED BY <1>1, Inductive, PTL DEF LiveSessionStaysRegistered, StaysRegistered, Spec

(* The body of LiveSessionKeepsJobs.                                       *)
KeepsJobs ==
    \A h \in Claudes, j \in Jobs :
        LET s == job[j].session IN
        (hook'[h] # hook[h] /\ job'[j] # job[j]) =>
           /\ \A c \in Claudes : Hosting(c, s) => registry[s] # c \/ s \in hook[h].stale
           /\ s = None => job[j].worker = "dead"

LEMMA SettledKeeps ==
    ASSUME IInv, NEW h \in Claudes, NEW j \in Jobs, MaySettle(h, hook[h], j)
    PROVE  /\ \A c \in Claudes : Hosting(c, job[j].session) =>
                 registry[job[j].session] # c \/ job[j].session \in hook[h].stale
           /\ job[j].session = None => job[j].worker = "dead"
  <1>1. job[j].session = None => job[j].worker = "dead" BY DEF MaySettle
  <1>2. ASSUME NEW c \in Claudes, Hosting(c, job[j].session), registry[job[j].session] = c
        PROVE  job[j].session \in hook[h].stale
    <2>1. PICK s : s = job[j].session OBVIOUS
    <2>2. s # None /\ claude[c].alive /\ claude[c].session = s /\ registry[s] = c
      BY <1>2, <2>1 DEF Hosting
    <2>3. Left(h, hook[h], s) BY <2>1, <2>2 DEF MaySettle
    <2> QED BY <2>1, <2>2, <2>3, NoneAssumption DEF Left
  <1> QED BY <1>1, <1>2

LEMMA StepKeeps == ASSUME IInv, [Next]_vars PROVE KeepsJobs
  <1>1. ASSUME NEW c \in Claudes, KillOne(c) PROVE KeepsJobs
    <2>1. PICK entry \in hook[c].todo :
             /\ ~Spared(c, entry)
             /\ job' = IF entry[2] THEN [job EXCEPT ![entry[1]].worker = "dead"] ELSE job
             /\ hook' = [hook EXCEPT ![c] = [hook[c] EXCEPT !.pc = "mark", !.todo = @ \ {entry},
                                                            !.current = entry[1]]]
      BY <1>1 DEF KillOne
    <2>2. hook[c].pc = "reap" BY <1>1 DEF KillOne
    <2>3. MaySettle(c, hook[c], entry[1]) /\ entry[1] \in Jobs
      BY <2>1, <2>2, KillsMaySettle, EntryIsOfAJob DEF IInv
    <2>4. \A j \in Jobs : job'[j] # job[j] => j = entry[1] BY <2>1, TypesOfOne DEF IInv
    <2>5. \A h \in Claudes : hook'[h] # hook[h] => h = c BY <2>1, TypesOfOne DEF IInv
    <2> QED BY <2>3, <2>4, <2>5, SettledKeeps DEF KeepsJobs
  <1>2. ASSUME NEW c \in Claudes, MarkOne(c) PROVE KeepsJobs
    <2>1. MaySettle(c, hook[c], hook[c].current) /\ hook[c].current \in Jobs
      BY <1>2, MarksMaySettle DEF MarkOne
    <2>2. \A j \in Jobs : job'[j] # job[j] => j = hook[c].current
      BY <1>2, TypesOfOne DEF MarkOne, IInv
    <2>3. \A h \in Claudes : hook'[h] # hook[h] => h = c
      BY <1>2, MarkOneMoves DEF IInv, Moved
    <2> QED BY <2>1, <2>2, <2>3, SettledKeeps DEF KeepsJobs
  <1>3. CASE UNCHANGED job BY <1>3 DEF KeepsJobs
  <1>4. CASE UNCHANGED hook BY <1>4 DEF KeepsJobs
  <1>5. \/ UNCHANGED job \/ UNCHANGED hook
        \/ \E c \in Claudes : KillOne(c) \/ MarkOne(c)
    BY DEF Next, vars, HookSteps, StartSession, StartAgain, EndSession, ReapVerb, ClaudeDies,
       HookTimesOut, Register, ListPredecessors, NextPredecessor, ListActive, SpareOne,
       RemoveRegistration, ListRegistrations, Unlink, WorkerSurvives, Task, Create, Spawn,
       PidLands, ClaimRefused, WorkerEnds
  <1> QED BY <1>1, <1>2, <1>3, <1>4, <1>5

(* While a session is hosted and its registration stands, no hook of any   *)
(* process stops or settles one of its Jobs, but for one that had begun to *)
(* reap the session before it was resumed; and a live worker whose record  *)
(* names no session is not stopped by anybody's orphan reap                *)
(* (`reap_session`, `reap_orphans`).                                       *)
THEOREM LiveSessionJobsKept == Spec => LiveSessionKeepsJobs
  <1>1. IInv /\ [Next]_vars => KeepsJobs BY StepKeeps
  <1> QED BY <1>1, Inductive, PTL DEF LiveSessionKeepsJobs, KeepsJobs, Spec
=============================================================================
