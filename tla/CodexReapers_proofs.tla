------------------------- MODULE CodexReapers_proofs ------------------------
(***************************************************************************)
(* Proofs about CodexReapers, for any number of lifecycles, visible        *)
(* sessions, SessionStarts and Jobs.                                       *)
(***************************************************************************)
EXTENDS CodexReapers, TLAPS

LifeSet == [state : {"new", "running", "closing", "closed"}, minted : Nat]
Reapers == [pc : {"none", "lock", "list", "reap", "mark", "done", "left"},
            token : Tokens \cup {None}, seen : SUBSET Lives,
            before : SUBSET Jobs, todo : SUBSET (Jobs \X BOOLEAN),
            current : Jobs \cup {None}, survived : SUBSET Jobs]
JobSet  == [status : {"none", "starting", "finished", "cancelled"} \cup StoredActive,
            life : Lives \cup {None}, token : Tokens \cup {None},
            pid : BOOLEAN, worker : {"none", "alive", "dead"}]
LockHeld == \A l \in Lives : lock = l <=> reaper[l].pc \in {"list", "reap", "mark"}

Typed == /\ life \in [Lives -> LifeSet]
         /\ registry \in [Sessions -> Tokens \cup {None}]
         /\ reaper \in [Lives -> Reapers]
         /\ job \in [Jobs -> JobSet]

-----------------------------------------------------------------------------
(* A registration is of the session it is filed under, and of a lifecycle  *)
(* that has begun.                                                         *)
RegistryOfTheBegun ==
    \A s \in Sessions : registry[s] # None =>
        SessionOf[registry[s][1]] = s /\ life[registry[s][1]].state # "new"

(* The token in a record is of the lifecycle that dispatched it.           *)
RecordsOfTheirLife ==
    \A j \in Jobs : /\ job[j].token # None => job[j].token[1] = job[j].life
                    /\ job[j].status = "none" => job[j].token = None

(* A reaper comes after its lifecycle, and holds a token of one it has     *)
(* seen and Jobs of that token.                                            *)
Mine(l, j) == reaper[l].token \in {None, job[j].token}
Held(l, j) == \/ j \in reaper[l].survived
              \/ \E e \in reaper[l].todo : e[1] = j
              \/ reaper[l].pc = "mark" /\ reaper[l].current = j
HoldsItsOwn(l) ==
    /\ reaper[l].pc # "none" => life[l].state = "closed"
    /\ reaper[l].token # None => reaper[l].token[1] \in reaper[l].seen
    /\ \A e \in reaper[l].todo : Mine(l, e[1])
    /\ reaper[l].pc = "mark" => reaper[l].current \in Jobs /\ Mine(l, reaper[l].current)
    /\ reaper[l].pc = "done" => reaper[l].todo = {}

(* A record that had landed when the reaper listed, that is its own and    *)
(* still active, is one it is yet to take, has in hand, or has reported.   *)
NoneForgotten(l) ==
    /\ reaper[l].before \subseteq Landed
    /\ \A j \in reaper[l].before :
          (/\ reaper[l].pc \in {"reap", "mark", "done"}
           /\ Owns(l, j) /\ job[j].status \in StoredActive) => Held(l, j)

ReaperInv(l) == HoldsItsOwn(l) /\ NoneForgotten(l)

IInv == /\ Typed /\ LockHeld /\ RegistryOfTheBegun /\ RecordsOfTheirLife
        /\ \A l \in Lives : ReaperInv(l)

(* What the action property asks of a step.                                *)
SpareStep ==
    \A l, k \in Lives :
        (reaper'[l] # reaper[l] /\ life[k].state = "running" /\ ~MayTouch(l, k)) =>
           /\ \A j \in Jobs : job[j].life = k => job'[j] = job[j]
           /\ \A n \in 1..MaxStarts[k] :
                 registry[SessionOf[k]] = <<k, n>> => registry'[SessionOf[k]] = <<k, n>>

USE NoneAssumption, LivesAssumption

LEMMA TypedIsTypeOK == TypeOK <=> Typed /\ LockHeld
  BY DEF TypeOK, Typed, LockHeld, LifeSet, Reapers, JobSet

-----------------------------------------------------------------------------
LEMMA InitInv == Init => IInv
  <1> SUFFICES ASSUME Init PROVE IInv OBVIOUS
  <1> USE DEF Init, NoReaper, NoJob
  <1>1. Typed
    BY DEF Typed, LifeSet, Reapers, JobSet, StoredActive, Tokens
  <1>2. LockHeld BY DEF LockHeld
  <1>3. RegistryOfTheBegun /\ RecordsOfTheirLife
    BY DEF RegistryOfTheBegun, RecordsOfTheirLife
  <1>4. \A l \in Lives : ReaperInv(l)
    BY DEF ReaperInv, HoldsItsOwn, NoneForgotten
  <1> QED BY <1>1, <1>2, <1>3, <1>4 DEF IInv

(* What every step keeps: lifecycles go forward only; a record             *)
(* keeps its lifecycle and token, and does not become active again.        *)
Onward ==
    /\ \A l \in Lives : /\ life[l].state # "new" => life'[l].state # "new"
                        /\ life[l].state = "closed" => life'[l].state = "closed"
    /\ \A j \in Jobs : job[j].status # "none" =>
          job'[j].life = job[j].life /\ job'[j].token = job[j].token
    /\ \A j \in Jobs : j \in Landed =>
          j \in Landed' /\ (job'[j].status \in StoredActive => job[j].status \in StoredActive)

LEMMA MineStays ==
    ASSUME Typed, RecordsOfTheirLife, Onward, NEW l \in Lives, NEW j \in Jobs,
           reaper'[l].token = reaper[l].token, Mine(l, j)
    PROVE  Mine(l, j)'
  <1>1. CASE reaper[l].token = None BY <1>1 DEF Mine
  <1>2. CASE reaper[l].token # None
    <2>1. job[j].token = reaper[l].token BY <1>2 DEF Mine
    <2>2. job[j].status # "none" BY <1>2, <2>1 DEF RecordsOfTheirLife
    <2> QED BY <2>1, <2>2 DEF Mine, Onward
  <1> QED BY <1>1, <1>2

LEMMA OwnsBack ==
    ASSUME Onward, NEW l \in Lives, NEW j \in Landed,
           reaper'[l].token = reaper[l].token, Owns(l, j)'
    PROVE  Owns(l, j)
  <1>1. j \in Jobs /\ job[j].status # "none" BY DEF Landed
  <1>2. job'[j].life = job[j].life /\ job'[j].token = job[j].token BY <1>1 DEF Onward
  <1> QED BY <1>2 DEF Owns

(* A reaper that takes no step keeps its invariant.                        *)
LEMMA ReaperKeeps ==
    ASSUME Typed, RecordsOfTheirLife, Onward, NEW l \in Lives, ReaperInv(l),
           reaper'[l] = reaper[l]
    PROVE  ReaperInv(l)'
  <1>1. reaper[l] \in Reapers BY DEF Typed
  <1>2. HoldsItsOwn(l)'
    <2>1. \A e \in reaper[l].todo : e[1] \in Jobs BY <1>1 DEF Reapers
    <2> QED BY <2>1, MineStays DEF HoldsItsOwn, ReaperInv, Onward
  <1>3. NoneForgotten(l)'
    <2>1. \A j \in reaper[l].before : j \in Landed /\ j \in Landed'
      BY <1>1 DEF ReaperInv, NoneForgotten, Reapers, Onward
    <2>2. ASSUME NEW j \in reaper[l].before, reaper[l].pc \in {"reap", "mark", "done"},
                 Owns(l, j)', job'[j].status \in StoredActive
          PROVE  Held(l, j)'
      <3>1. Owns(l, j) BY <2>1, <2>2, OwnsBack
      <3>2. job[j].status \in StoredActive BY <2>1, <2>2 DEF Onward, Landed
      <3>3. Held(l, j) BY <2>2, <3>1, <3>2 DEF ReaperInv, NoneForgotten
      <3> QED BY <3>3 DEF Held
    <2> QED BY <2>1, <2>2 DEF NoneForgotten
  <1> QED BY <1>2, <1>3 DEF ReaperInv

(* So a step of one reaper has only its own to mind.                       *)
LEMMA OneReaper ==
    ASSUME Typed, RecordsOfTheirLife, Onward, \A k \in Lives : ReaperInv(k),
           NEW l \in Lives, \A k \in Lives : k # l => reaper'[k] = reaper[k],
           ReaperInv(l)'
    PROVE  \A k \in Lives : ReaperInv(k)'
  <1> SUFFICES ASSUME NEW k \in Lives PROVE ReaperInv(k)' OBVIOUS
  <1>1. CASE k = l BY <1>1
  <1>2. CASE k # l BY <1>2, ReaperKeeps
  <1> QED BY <1>1, <1>2

LEMMA NoReaperSteps ==
    ASSUME Typed, RecordsOfTheirLife, Onward, \A k \in Lives : ReaperInv(k),
           reaper' = reaper
    PROVE  (\A k \in Lives : ReaperInv(k)') /\ SpareStep
  <1>1. \A k \in Lives : ReaperInv(k)' BY ReaperKeeps
  <1> QED BY <1>1 DEF SpareStep

-----------------------------------------------------------------------------
(* The host: a lifecycle begins, begins again, closes, or is killed.       *)
LEMMA HostInv ==
    ASSUME IInv, NEW l \in Lives, Start(l) \/ Close(l) \/ Abort(l)
    PROVE  IInv' /\ SpareStep
  <1> USE DEF IInv
  <1>1. life[l] \in LifeSet /\ SessionOf[l] \in Sessions BY DEF Typed
  <1>2. PICK r \in LifeSet : /\ life' = [life EXCEPT ![l] = r] /\ r.state # "new"
                             /\ life[l].state # "closed"
    <2>1. CASE Start(l)
      <3>1. PICK n \in Nat : n = life[l].minted + 1 BY <1>1 DEF LifeSet
      <3>2. PICK r : r = [state |-> "running", minted |-> n] OBVIOUS
      <3>3. r \in LifeSet /\ r.state = "running" BY <3>1, <3>2 DEF LifeSet
      <3>4. life' = [life EXCEPT ![l] = r] BY <2>1, <3>1, <3>2 DEF Start
      <3>5. life[l].state # "closed" BY <2>1 DEF Start
      <3> QED BY <3>3, <3>4, <3>5
    <2>2. CASE Close(l) \/ Abort(l)
      <3>1. PICK state \in {"closing", "closed"} :
                life' = [life EXCEPT ![l].state = state] /\ life[l].state # "closed"
        BY <2>2 DEF Close, Abort
      <3>2. PICK r : r = [life[l] EXCEPT !.state = state] OBVIOUS
      <3>3. r \in LifeSet /\ r.state # "new" BY <1>1, <3>2 DEF LifeSet
      <3>4. life' = [life EXCEPT ![l] = r] BY <3>1, <3>2
      <3> QED BY <3>1, <3>3, <3>4
    <2> QED BY <2>1, <2>2
  <1>3. /\ life' \in [Lives -> LifeSet] /\ life'[l] = r
        /\ \A k \in Lives : k # l => life'[k] = life[k]
    BY <1>2 DEF Typed
  <1>4. reaper' = reaper /\ job' = job /\ lock' = lock BY DEF Start, Close, Abort
  <1>5. \/ registry' = registry
        \/ registry' = [registry EXCEPT ![SessionOf[l]] = <<l, r.minted>>]
    BY <1>3 DEF Start, Close, Abort, Newest
  <1>6. <<l, r.minted>> \in Tokens BY DEF Tokens, LifeSet
  <1>7. /\ registry' \in [Sessions -> Tokens \cup {None}]
        /\ \A s \in Sessions : \/ registry'[s] = registry[s]
                               \/ s = SessionOf[l] /\ registry'[s] = <<l, r.minted>>
    BY <1>1, <1>5, <1>6 DEF Typed
  <1>8. Typed' BY <1>3, <1>4, <1>7 DEF Typed
  <1>9. Onward BY <1>2, <1>3, <1>4 DEF Onward, Landed
  <1>10. RegistryOfTheBegun'
    <2> SUFFICES ASSUME NEW s \in Sessions, registry'[s] # None
                 PROVE  SessionOf[registry'[s][1]] = s /\ life'[registry'[s][1]].state # "new"
      BY DEF RegistryOfTheBegun
    <2>1. CASE registry'[s] = registry[s]
      <3>1. registry[s][1] \in Lives BY <2>1 DEF Typed, Tokens
      <3> QED BY <1>9, <2>1, <3>1 DEF RegistryOfTheBegun, Onward
    <2>2. CASE s = SessionOf[l] /\ registry'[s] = <<l, r.minted>> BY <1>2, <1>3, <2>2
    <2> QED BY <1>7, <2>1, <2>2
  <1>11. LockHeld' /\ RecordsOfTheirLife' BY <1>4 DEF LockHeld, RecordsOfTheirLife
  <1>12. (\A k \in Lives : ReaperInv(k)') /\ SpareStep BY <1>4, <1>9, NoReaperSteps
  <1> QED BY <1>8, <1>10, <1>11, <1>12

(* The SessionEnd hook: the token it finds, if any, is of a lifecycle of   *)
(* the session that has begun.                                             *)
LEMMA EndHookInv ==
    ASSUME IInv, NEW l \in Lives, EndHook(l)
    PROVE  IInv' /\ SpareStep
  <1> USE DEF IInv
  <1>1. life[l] \in LifeSet /\ SessionOf[l] \in Sessions /\ life[l].state = "closing"
    BY DEF Typed, EndHook
  <1>2. PICK begun : begun = {k \in Lives : SessionOf[k] = SessionOf[l] /\ life[k].state # "new"}
    OBVIOUS
  <1>3. PICK t : /\ t \in {registry[SessionOf[l]], Newest(l), None}
                 /\ reaper' = [reaper EXCEPT ![l] = [NoReaper EXCEPT !.pc = "lock", !.seen = begun,
                                                                     !.token = t]]
    BY <1>2 DEF EndHook
  <1>4. t \in Tokens \cup {None} /\ (t # None => t[1] \in begun)
    <2>1. CASE t = registry[SessionOf[l]] /\ t # None
      <3>1. t \in Tokens BY <1>1, <2>1 DEF Typed
      <3>2. t[1] \in Lives BY <3>1 DEF Tokens
      <3> QED BY <1>1, <1>2, <2>1, <3>1, <3>2 DEF RegistryOfTheBegun
    <2>2. CASE t = Newest(l) BY <1>1, <1>2, <2>2 DEF Newest, Tokens, LifeSet
    <2>3. CASE t = None BY <2>3
    <2> QED BY <1>3, <2>1, <2>2, <2>3
  <1>5. PICK r \in Reapers : /\ reaper' = [reaper EXCEPT ![l] = r]
                             /\ r.pc = "lock" /\ r.token = t /\ r.seen = begun
                             /\ r.todo = {} /\ r.before = {}
    <2>1. PICK q : q = [NoReaper EXCEPT !.pc = "lock"] OBVIOUS
    <2>3. PICK p : p = [q EXCEPT !.seen = begun] OBVIOUS
    <2>4. PICK r : r = [p EXCEPT !.token = t] OBVIOUS
    <2>5. q = [pc |-> "lock", token |-> None, seen |-> {}, before |-> {}, todo |-> {},
               current |-> None, survived |-> {}]
      BY <2>1 DEF NoReaper
    <2>6. p = [pc |-> "lock", token |-> None, seen |-> begun, before |-> {}, todo |-> {},
               current |-> None, survived |-> {}]
      BY <2>3, <2>5
    <2>7. r = [pc |-> "lock", token |-> t, seen |-> begun, before |-> {}, todo |-> {},
               current |-> None, survived |-> {}]
      BY <2>4, <2>6
    <2>8. reaper' = [reaper EXCEPT ![l] = r] BY <1>3, <2>1, <2>3, <2>4
    <2>2. begun \in SUBSET Lives BY <1>2
    <2>9. /\ r \in Reapers /\ r.pc = "lock" /\ r.token = t /\ r.seen = begun
          /\ r.todo = {} /\ r.before = {}
      BY <1>4, <2>2, <2>7 DEF Reapers
    <2> QED BY <2>8, <2>9
  <1>6. /\ life' \in [Lives -> LifeSet]
        /\ \A k \in Lives : /\ k # l => life'[k] = life[k]
                            /\ life[k].state # "new" => life'[k].state # "new"
        /\ life'[l].state = "closed"
    BY <1>1 DEF EndHook, Typed, LifeSet
  <1>7. registry' = registry /\ job' = job /\ lock' = lock BY DEF EndHook
  <1>8. /\ reaper' \in [Lives -> Reapers] /\ reaper'[l] = r
        /\ \A k \in Lives : k # l => reaper'[k] = reaper[k]
    BY <1>5 DEF Typed
  <1>9. Typed' BY <1>6, <1>7, <1>8 DEF Typed
  <1>10. Onward BY <1>6, <1>7 DEF Onward, Landed
  <1>11. LockHeld'
    <2>1. reaper[l].pc = "none" BY <1>1 DEF ReaperInv, HoldsItsOwn
    <2> QED BY <1>5, <1>7, <1>8, <2>1 DEF LockHeld
  <1>12. RegistryOfTheBegun' /\ RecordsOfTheirLife'
    <2>1. \A s \in Sessions : registry[s] # None => registry[s][1] \in Lives
      BY DEF Typed, Tokens
    <2> QED BY <1>6, <1>7, <2>1 DEF RegistryOfTheBegun, RecordsOfTheirLife
  <1>13. ReaperInv(l)'
    BY <1>4, <1>5, <1>6, <1>8 DEF ReaperInv, HoldsItsOwn, NoneForgotten
  <1>14. \A k \in Lives : ReaperInv(k)' BY <1>8, <1>10, <1>13, OneReaper
  <1>15. SpareStep BY <1>7 DEF SpareStep
  <1> QED BY <1>9, <1>11, <1>12, <1>14, <1>15

-----------------------------------------------------------------------------
(* The reaper.                                                             *)
LEMMA TakeLockInv ==
    ASSUME IInv, NEW l \in Lives, TakeLock(l)
    PROVE  IInv' /\ SpareStep
  <1> USE DEF IInv
  <1>1. PICK pc \in {"list", "left"} :
            /\ reaper' = [reaper EXCEPT ![l].pc = pc]
            /\ pc = "list" => lock = None /\ lock' = l
            /\ pc = "left" => lock' = lock
    BY DEF TakeLock
  <1>2. reaper[l].pc = "lock" /\ UNCHANGED <<life, registry, job>> BY DEF TakeLock
  <1>3. reaper[l] \in Reapers BY DEF Typed
  <1>4. /\ reaper' \in [Lives -> Reapers]
        /\ reaper'[l] = [reaper[l] EXCEPT !.pc = pc]
        /\ \A k \in Lives : k # l => reaper'[k] = reaper[k]
    BY <1>1, <1>3 DEF Typed, Reapers
  <1>5. /\ reaper'[l].pc = pc /\ reaper'[l].token = reaper[l].token
        /\ reaper'[l].seen = reaper[l].seen /\ reaper'[l].before = reaper[l].before
        /\ reaper'[l].todo = reaper[l].todo
    BY <1>3, <1>4 DEF Reapers
  <1>6. Typed' BY <1>2, <1>4 DEF Typed
  <1>7. LockHeld' BY <1>1, <1>2, <1>4, <1>5 DEF LockHeld
  <1>8. Onward BY <1>2 DEF Onward, Landed
  <1>9. RegistryOfTheBegun' /\ RecordsOfTheirLife'
    BY <1>2 DEF RegistryOfTheBegun, RecordsOfTheirLife
  <1>10. ReaperInv(l)'
    BY <1>2, <1>5 DEF ReaperInv, HoldsItsOwn, NoneForgotten, Mine, Landed
  <1>11. \A k \in Lives : ReaperInv(k)' BY <1>4, <1>8, <1>10, OneReaper
  <1>12. SpareStep BY <1>2 DEF SpareStep
  <1> QED BY <1>6, <1>7, <1>9, <1>11, <1>12

LEMMA ListInv ==
    ASSUME IInv, NEW l \in Lives, List(l)
    PROVE  IInv' /\ SpareStep
  <1> USE DEF IInv
  <1>1. PICK mine : mine = {i \in Jobs : job[i].status \in StoredActive /\ Owns(l, i)}
    OBVIOUS
  <1>2. PICK todo : todo = {<<j, job[j].pid>> : j \in mine} OBVIOUS
  <1>3. PICK before : before = Landed OBVIOUS
  <1>4. /\ reaper[l].pc = "list" /\ UNCHANGED <<life, registry, lock, job>>
        /\ reaper' = [reaper EXCEPT ![l] = [@ EXCEPT !.pc = "reap", !.before = before,
                                                     !.todo = todo]]
    BY <1>1, <1>2, <1>3 DEF List
  <1>5. mine \subseteq Jobs /\ before \subseteq Jobs BY <1>1, <1>3 DEF Landed
  <1>6. todo \in SUBSET (Jobs \X BOOLEAN)
    <2>1. \A j \in Jobs : job[j].pid \in BOOLEAN BY DEF Typed, JobSet
    <2> QED BY <1>2, <1>5, <2>1
  <1>7. reaper[l] \in Reapers BY DEF Typed
  <1>8. PICK r : r = [reaper[l] EXCEPT !.pc = "reap", !.before = before, !.todo = todo]
    OBVIOUS
  <1>9. /\ r \in Reapers /\ r.pc = "reap" /\ r.before = before /\ r.todo = todo
        /\ r.token = reaper[l].token /\ r.seen = reaper[l].seen
    BY <1>5, <1>6, <1>7, <1>8 DEF Reapers
  <1>10. /\ reaper' \in [Lives -> Reapers] /\ reaper'[l] = r
         /\ \A k \in Lives : k # l => reaper'[k] = reaper[k]
    <2>1. reaper' = [reaper EXCEPT ![l] = r] BY <1>4, <1>8
    <2> QED BY <1>9, <2>1 DEF Typed
  <1>11. Typed' BY <1>4, <1>10 DEF Typed
  <1>12. LockHeld' BY <1>4, <1>9, <1>10 DEF LockHeld
  <1>13. Onward BY <1>4 DEF Onward, Landed
  <1>14. RegistryOfTheBegun' /\ RecordsOfTheirLife'
    BY <1>4 DEF RegistryOfTheBegun, RecordsOfTheirLife
  <1>15. HoldsItsOwn(l)'
    <2>1. \A e \in todo : e[1] \in mine BY <1>2
    <2>2. \A j \in mine : Mine(l, j)' BY <1>1, <1>4, <1>9, <1>10 DEF Owns, Mine
    <2>3. /\ reaper[l].token # None => reaper[l].token[1] \in reaper[l].seen
          /\ life[l].state = "closed"
      BY <1>4 DEF ReaperInv, HoldsItsOwn
    <2> QED BY <1>4, <1>9, <1>10, <2>1, <2>2, <2>3 DEF HoldsItsOwn
  <1>16. NoneForgotten(l)'
    <2>1. before = Landed' BY <1>3, <1>4 DEF Landed
    <2>2. ASSUME NEW j \in before, Owns(l, j)', job'[j].status \in StoredActive
          PROVE  Held(l, j)'
      <3>1. Owns(l, j) BY <1>4, <1>9, <1>10, <2>2 DEF Owns
      <3>2. j \in mine BY <1>1, <1>4, <1>5, <2>2, <3>1
      <3>3. <<j, job[j].pid>> \in todo BY <1>2, <3>2
      <3> QED BY <1>9, <1>10, <3>3 DEF Held
    <2> QED BY <1>9, <1>10, <2>1, <2>2 DEF NoneForgotten
  <1>17. ReaperInv(l)' BY <1>15, <1>16 DEF ReaperInv
  <1>18. \A k \in Lives : ReaperInv(k)' BY <1>10, <1>13, <1>17, OneReaper
  <1>19. SpareStep BY <1>4 DEF SpareStep
  <1> QED BY <1>11, <1>12, <1>14, <1>18, <1>19

(* What a Job may lose to a reaper: the worker, then the status.           *)
LEMMA OneJob ==
    ASSUME Typed, NEW j \in Jobs, NEW r \in JobSet, job' = [job EXCEPT ![j] = r],
           r.life = job[j].life, r.token = job[j].token,
           r.status = job[j].status \/ (r.status = "cancelled" /\ job[j].status \in StoredActive),
           RecordsOfTheirLife, UNCHANGED life
    PROVE  /\ job' \in [Jobs -> JobSet] /\ job'[j] = r
           /\ \A k \in Jobs : k # j => job'[k] = job[k]
           /\ Onward /\ RecordsOfTheirLife'
  <1>1. /\ job' \in [Jobs -> JobSet] /\ job'[j] = r
        /\ \A k \in Jobs : k # j => job'[k] = job[k]
    BY DEF Typed
  <1>2. Onward BY <1>1 DEF Onward, Landed, StoredActive
  <1>3. RecordsOfTheirLife' BY <1>1 DEF RecordsOfTheirLife, StoredActive
  <1> QED BY <1>1, <1>2, <1>3

(* A reaper changes a Job of a lifecycle only where it may.                *)
LEMMA MineMayTouch ==
    ASSUME IInv, NEW l \in Lives, NEW j \in Jobs, Mine(l, j), job[j].life \in Lives
    PROVE  MayTouch(l, job[j].life)
  BY DEF IInv, ReaperInv, HoldsItsOwn, RecordsOfTheirLife, Mine, MayTouch

LEMMA JobSpared ==
    ASSUME IInv, NEW l \in Lives, NEW j \in Jobs, Mine(l, j), UNCHANGED registry,
           \A k \in Lives : k # l => reaper'[k] = reaper[k],
           \A k \in Jobs : k # j => job'[k] = job[k]
    PROVE  SpareStep
  <1> SUFFICES ASSUME NEW k \in Lives, ~MayTouch(l, k), NEW i \in Jobs, job[i].life = k
               PROVE  job'[i] = job[i]
    BY DEF SpareStep
  <1> QED BY MineMayTouch

LEMMA KillInv ==
    ASSUME IInv, NEW l \in Lives, Kill(l)
    PROVE  IInv' /\ SpareStep
  <1> USE DEF IInv
  <1>1. reaper[l].pc = "reap" /\ UNCHANGED <<life, registry, lock>> BY DEF Kill
  <1>2. PICK e \in reaper[l].todo :
          /\ job' = IF e[2] THEN [job EXCEPT ![e[1]].worker = "dead"] ELSE job
          /\ reaper' = [reaper EXCEPT ![l] = [reaper[l] EXCEPT !.pc = "mark", !.todo = @ \ {e},
                                                               !.current = e[1]]]
    BY DEF Kill
  <1>3. reaper[l] \in Reapers BY DEF Typed
  <1>4. PICK j \in Jobs : j = e[1] BY <1>2, <1>3 DEF Reapers
  <1>5. PICK left \in SUBSET (Jobs \X BOOLEAN) : left = reaper[l].todo \ {e}
    BY <1>3 DEF Reapers
  <1>6. PICK r : r = [reaper[l] EXCEPT !.pc = "mark", !.todo = left, !.current = j] OBVIOUS
  <1>7. /\ r \in Reapers /\ r.pc = "mark" /\ r.todo = left /\ r.current = j
        /\ r.token = reaper[l].token /\ r.seen = reaper[l].seen
        /\ r.before = reaper[l].before /\ r.survived = reaper[l].survived
    BY <1>3, <1>6 DEF Reapers
  <1>8. /\ reaper' \in [Lives -> Reapers] /\ reaper'[l] = r
        /\ \A k \in Lives : k # l => reaper'[k] = reaper[k]
    <2>1. reaper' = [reaper EXCEPT ![l] = r] BY <1>2, <1>4, <1>5, <1>6
    <2> QED BY <1>7, <2>1 DEF Typed
  <1>9. PICK q \in JobSet : /\ job' = [job EXCEPT ![j] = q]
                            /\ q.life = job[j].life /\ q.token = job[j].token
                            /\ q.status = job[j].status
    <2>1. job[j] \in JobSet /\ job = [job EXCEPT ![j] = job[j]] BY DEF Typed
    <2>2. CASE e[2]
      <3>1. PICK q : q = [job[j] EXCEPT !.worker = "dead"] OBVIOUS
      <3>2. /\ q \in JobSet /\ q.life = job[j].life /\ q.token = job[j].token
            /\ q.status = job[j].status
        BY <2>1, <3>1 DEF JobSet
      <3>3. job' = [job EXCEPT ![j] = q] BY <1>2, <1>4, <2>2, <3>1
      <3> QED BY <3>2, <3>3
    <2>3. CASE ~e[2] BY <1>2, <2>1, <2>3
    <2> QED BY <2>2, <2>3
  <1>10. /\ job' \in [Jobs -> JobSet] /\ job'[j] = q
         /\ \A k \in Jobs : k # j => job'[k] = job[k]
         /\ Onward /\ RecordsOfTheirLife'
    BY <1>1, <1>9, OneJob
  <1>11. Typed' BY <1>1, <1>8, <1>10 DEF Typed
  <1>12. LockHeld' BY <1>1, <1>7, <1>8 DEF LockHeld
  <1>13. RegistryOfTheBegun' BY <1>1 DEF RegistryOfTheBegun
  <1>14. Mine(l, j) /\ HoldsItsOwn(l) BY <1>2, <1>4 DEF ReaperInv, HoldsItsOwn
  <1>15. HoldsItsOwn(l)'
    <2>1. \A i \in Jobs : Mine(l, i) => Mine(l, i)' BY <1>7, <1>8, <1>10, MineStays
    <2>2. \A d \in left : d[1] \in Jobs /\ Mine(l, d[1]) BY <1>5, <1>14 DEF HoldsItsOwn
    <2>3. life[l].state = "closed" /\ (r.token # None => r.token[1] \in r.seen)
      BY <1>1, <1>7, <1>14 DEF HoldsItsOwn
    <2> QED BY <1>1, <1>7, <1>8, <1>14, <2>1, <2>2, <2>3 DEF HoldsItsOwn
  <1>16. NoneForgotten(l)'
    <2>1. \A i \in r.before : i \in Jobs /\ i \in Landed /\ i \in Landed'
      BY <1>3, <1>7, <1>10 DEF ReaperInv, NoneForgotten, Reapers, Onward
    <2>2. ASSUME NEW i \in r.before, Owns(l, i)', job'[i].status \in StoredActive
          PROVE  Held(l, i)'
      <3>1. Owns(l, i) BY <1>7, <1>8, <1>10, <2>1, <2>2, OwnsBack
      <3>2. job[i].status \in StoredActive BY <1>10, <2>1, <2>2 DEF Onward
      <3>3. Held(l, i) BY <1>1, <1>7, <2>2, <3>1, <3>2 DEF ReaperInv, NoneForgotten
      <3>4. CASE i = j BY <1>7, <1>8, <3>4 DEF Held
      <3>5. CASE i # j
        BY <1>1, <1>4, <1>5, <1>7, <1>8, <3>3, <3>5 DEF Held
      <3> QED BY <3>4, <3>5
    <2> QED BY <1>7, <1>8, <2>1, <2>2 DEF NoneForgotten
  <1>17. ReaperInv(l)' BY <1>15, <1>16 DEF ReaperInv
  <1>18. \A k \in Lives : ReaperInv(k)' BY <1>8, <1>10, <1>17, OneReaper
  <1>19. SpareStep BY <1>1, <1>8, <1>10, <1>14, JobSpared
  <1> QED BY <1>10, <1>11, <1>12, <1>13, <1>18, <1>19

LEMMA WorkerSurvivesInv ==
    ASSUME IInv, NEW l \in Lives, WorkerSurvives(l)
    PROVE  IInv' /\ SpareStep
  <1> USE DEF IInv
  <1>1. reaper[l].pc = "reap" /\ UNCHANGED <<life, registry, lock, job>> BY DEF WorkerSurvives
  <1>2. PICK e \in reaper[l].todo :
          reaper' = [reaper EXCEPT ![l] = [reaper[l] EXCEPT !.todo = @ \ {e},
                                                            !.survived = @ \cup {e[1]}]]
    BY DEF WorkerSurvives
  <1>3. reaper[l] \in Reapers BY DEF Typed
  <1>4. PICK j \in Jobs : j = e[1] BY <1>2, <1>3 DEF Reapers
  <1>5. PICK left \in SUBSET (Jobs \X BOOLEAN) : left = reaper[l].todo \ {e}
    BY <1>3 DEF Reapers
  <1>6. PICK kept \in SUBSET Jobs : kept = reaper[l].survived \cup {j}
    BY <1>3 DEF Reapers
  <1>7. PICK r : r = [reaper[l] EXCEPT !.todo = left, !.survived = kept] OBVIOUS
  <1>8. /\ r \in Reapers /\ r.pc = "reap" /\ r.todo = left /\ r.survived = kept
        /\ r.token = reaper[l].token /\ r.seen = reaper[l].seen
        /\ r.before = reaper[l].before
    BY <1>1, <1>3, <1>7 DEF Reapers
  <1>9. /\ reaper' \in [Lives -> Reapers] /\ reaper'[l] = r
        /\ \A k \in Lives : k # l => reaper'[k] = reaper[k]
    <2>1. reaper' = [reaper EXCEPT ![l] = r] BY <1>2, <1>4, <1>5, <1>6, <1>7
    <2> QED BY <1>8, <2>1 DEF Typed
  <1>10. Typed' BY <1>1, <1>9 DEF Typed
  <1>11. LockHeld' BY <1>1, <1>8, <1>9 DEF LockHeld
  <1>12. Onward BY <1>1 DEF Onward, Landed
  <1>13. RegistryOfTheBegun' /\ RecordsOfTheirLife'
    BY <1>1 DEF RegistryOfTheBegun, RecordsOfTheirLife
  <1>14. HoldsItsOwn(l)'
    <2>1. HoldsItsOwn(l) BY DEF ReaperInv
    <2> QED BY <1>1, <1>5, <1>8, <1>9, <2>1 DEF HoldsItsOwn, Mine
  <1>15. NoneForgotten(l)'
    <2>1. r.before \subseteq Landed /\ Landed' = Landed
      BY <1>1, <1>8 DEF ReaperInv, NoneForgotten, Landed
    <2>2. ASSUME NEW i \in r.before, Owns(l, i)', job'[i].status \in StoredActive
          PROVE  Held(l, i)'
      <3>1. Owns(l, i) BY <1>1, <1>8, <1>9, <2>2 DEF Owns
      <3>2. Held(l, i) BY <1>1, <1>8, <2>2, <3>1 DEF ReaperInv, NoneForgotten
      <3>3. CASE i = j BY <1>6, <1>8, <1>9, <3>3 DEF Held
      <3>4. CASE i # j
        BY <1>1, <1>4, <1>5, <1>6, <1>8, <1>9, <3>2, <3>4 DEF Held
      <3> QED BY <3>3, <3>4
    <2> QED BY <1>8, <1>9, <2>1, <2>2 DEF NoneForgotten
  <1>16. ReaperInv(l)' BY <1>14, <1>15 DEF ReaperInv
  <1>17. \A k \in Lives : ReaperInv(k)' BY <1>9, <1>12, <1>16, OneReaper
  <1>18. SpareStep BY <1>1 DEF SpareStep
  <1> QED BY <1>10, <1>11, <1>13, <1>17, <1>18

LEMMA MarkInv ==
    ASSUME IInv, NEW l \in Lives, Mark(l)
    PROVE  IInv' /\ SpareStep
  <1> USE DEF IInv
  <1>1. reaper[l].pc = "mark" /\ UNCHANGED <<life, registry, lock>> BY DEF Mark
  <1>2. HoldsItsOwn(l) BY DEF ReaperInv
  <1>3. PICK j \in Jobs : j = reaper[l].current /\ Mine(l, j)
    BY <1>1, <1>2 DEF HoldsItsOwn
  <1>4. /\ job' = IF job[j].status \in StoredActive
                  THEN [job EXCEPT ![j].status = "cancelled"] ELSE job
        /\ reaper' = [reaper EXCEPT ![l] = [@ EXCEPT !.pc = "reap", !.current = None]]
    BY <1>3 DEF Mark
  <1>5. reaper[l] \in Reapers BY DEF Typed
  <1>6. PICK r : r = [reaper[l] EXCEPT !.pc = "reap", !.current = None] OBVIOUS
  <1>7. /\ r \in Reapers /\ r.pc = "reap" /\ r.todo = reaper[l].todo
        /\ r.token = reaper[l].token /\ r.seen = reaper[l].seen
        /\ r.before = reaper[l].before /\ r.survived = reaper[l].survived
    BY <1>5, <1>6 DEF Reapers
  <1>8. /\ reaper' \in [Lives -> Reapers] /\ reaper'[l] = r
        /\ \A k \in Lives : k # l => reaper'[k] = reaper[k]
    <2>1. reaper' = [reaper EXCEPT ![l] = r] BY <1>4, <1>6
    <2> QED BY <1>7, <2>1 DEF Typed
  <1>9. PICK q \in JobSet :
            /\ job' = [job EXCEPT ![j] = q]
            /\ q.life = job[j].life /\ q.token = job[j].token
            /\ q.status = job[j].status \/ (q.status = "cancelled" /\ job[j].status \in StoredActive)
            /\ q.status \notin StoredActive
    <2>1. job[j] \in JobSet /\ job = [job EXCEPT ![j] = job[j]] BY DEF Typed
    <2>2. CASE job[j].status \in StoredActive
      <3>1. PICK q : q = [job[j] EXCEPT !.status = "cancelled"] OBVIOUS
      <3>2. /\ q \in JobSet /\ q.life = job[j].life /\ q.token = job[j].token
            /\ q.status = "cancelled"
        BY <2>1, <3>1 DEF JobSet
      <3>3. job' = [job EXCEPT ![j] = q] BY <1>4, <2>2, <3>1
      <3> QED BY <2>2, <3>2, <3>3 DEF StoredActive
    <2>3. CASE job[j].status \notin StoredActive BY <1>4, <2>1, <2>3
    <2> QED BY <2>2, <2>3
  <1>10. /\ job' \in [Jobs -> JobSet] /\ job'[j] = q
         /\ \A k \in Jobs : k # j => job'[k] = job[k]
         /\ Onward /\ RecordsOfTheirLife'
    BY <1>1, <1>9, OneJob
  <1>11. Typed' BY <1>1, <1>8, <1>10 DEF Typed
  <1>12. LockHeld' BY <1>1, <1>7, <1>8 DEF LockHeld
  <1>13. RegistryOfTheBegun' BY <1>1 DEF RegistryOfTheBegun
  <1>14. HoldsItsOwn(l)'
    <2>1. \A i \in Jobs : Mine(l, i) => Mine(l, i)' BY <1>7, <1>8, <1>10, MineStays
    <2>2. \A d \in r.todo : d[1] \in Jobs /\ Mine(l, d[1])
      BY <1>2, <1>5, <1>7 DEF HoldsItsOwn, Reapers
    <2> QED BY <1>1, <1>2, <1>7, <1>8, <2>1, <2>2 DEF HoldsItsOwn
  <1>15. NoneForgotten(l)'
    <2>1. \A i \in r.before : i \in Jobs /\ i \in Landed /\ i \in Landed'
      BY <1>5, <1>7, <1>10 DEF ReaperInv, NoneForgotten, Reapers, Onward
    <2>2. ASSUME NEW i \in r.before, Owns(l, i)', job'[i].status \in StoredActive
          PROVE  Held(l, i)'
      <3>1. Owns(l, i) BY <1>7, <1>8, <1>10, <2>1, <2>2, OwnsBack
      <3>2. job[i].status \in StoredActive BY <1>10, <2>1, <2>2 DEF Onward
      <3>3. Held(l, i) BY <1>1, <1>7, <2>2, <3>1, <3>2 DEF ReaperInv, NoneForgotten
      <3>4. i # j BY <1>9, <1>10, <2>2
      <3> QED BY <1>3, <1>7, <1>8, <3>3, <3>4 DEF Held
    <2> QED BY <1>7, <1>8, <2>1, <2>2 DEF NoneForgotten
  <1>16. ReaperInv(l)' BY <1>14, <1>15 DEF ReaperInv
  <1>17. \A k \in Lives : ReaperInv(k)' BY <1>8, <1>10, <1>16, OneReaper
  <1>18. SpareStep BY <1>1, <1>3, <1>8, <1>10, JobSpared
  <1> QED BY <1>10, <1>11, <1>12, <1>13, <1>17, <1>18

(* Compare and delete: the token is of a lifecycle the reaper has seen.    *)
LEMMA FinishInv ==
    ASSUME IInv, NEW l \in Lives, Finish(l)
    PROVE  IInv' /\ SpareStep
  <1> USE DEF IInv
  <1>1. /\ reaper[l].pc = "reap" /\ reaper[l].todo = {} /\ UNCHANGED <<life, job>>
        /\ lock' = None
        /\ registry' = IF reaper[l].token # None /\ registry[SessionOf[l]] = reaper[l].token
                       THEN [registry EXCEPT ![SessionOf[l]] = None] ELSE registry
        /\ reaper' = [reaper EXCEPT ![l].pc = "done"]
    BY DEF Finish
  <1>2. SessionOf[l] \in Sessions /\ reaper[l] \in Reapers BY DEF Typed
  <1>3. /\ registry' \in [Sessions -> Tokens \cup {None}]
        /\ \A s \in Sessions :
              \/ registry'[s] = registry[s]
              \/ reaper[l].token # None /\ registry[s] = reaper[l].token /\ registry'[s] = None
    BY <1>1, <1>2 DEF Typed
  <1>4. PICK r : r = [reaper[l] EXCEPT !.pc = "done"] OBVIOUS
  <1>5. /\ r \in Reapers /\ r.pc = "done" /\ r.todo = {}
        /\ r.token = reaper[l].token /\ r.seen = reaper[l].seen
        /\ r.before = reaper[l].before /\ r.survived = reaper[l].survived
    BY <1>1, <1>2, <1>4 DEF Reapers
  <1>6. /\ reaper' \in [Lives -> Reapers] /\ reaper'[l] = r
        /\ \A k \in Lives : k # l => reaper'[k] = reaper[k]
    <2>1. reaper' = [reaper EXCEPT ![l] = r] BY <1>1, <1>4
    <2> QED BY <1>5, <2>1 DEF Typed
  <1>7. Typed' BY <1>1, <1>3, <1>6 DEF Typed
  <1>8. LockHeld' BY <1>1, <1>5, <1>6 DEF LockHeld
  <1>9. Onward BY <1>1 DEF Onward, Landed
  <1>10. RegistryOfTheBegun' /\ RecordsOfTheirLife'
    BY <1>1, <1>3 DEF RegistryOfTheBegun, RecordsOfTheirLife
  <1>11. HoldsItsOwn(l) BY DEF ReaperInv
  <1>12. HoldsItsOwn(l)' BY <1>1, <1>5, <1>6, <1>11 DEF HoldsItsOwn
  <1>13. NoneForgotten(l)'
    <2>1. r.before \subseteq Landed /\ Landed' = Landed
      BY <1>1, <1>5 DEF ReaperInv, NoneForgotten, Landed
    <2>2. ASSUME NEW i \in r.before, Owns(l, i)', job'[i].status \in StoredActive
          PROVE  Held(l, i)'
      <3>1. Owns(l, i) BY <1>1, <1>5, <1>6, <2>2 DEF Owns
      <3>2. Held(l, i) BY <1>1, <1>5, <2>2, <3>1 DEF ReaperInv, NoneForgotten
      <3> QED BY <1>1, <1>5, <1>6, <3>2 DEF Held
    <2> QED BY <1>5, <1>6, <2>1, <2>2 DEF NoneForgotten
  <1>14. ReaperInv(l)' BY <1>12, <1>13 DEF ReaperInv
  <1>15. \A k \in Lives : ReaperInv(k)' BY <1>6, <1>9, <1>14, OneReaper
  <1>16. SpareStep
    <2> SUFFICES ASSUME NEW m \in Lives, NEW k \in Lives, reaper'[m] # reaper[m],
                        ~MayTouch(m, k), NEW n \in 1..MaxStarts[k],
                        registry[SessionOf[k]] = <<k, n>>
                 PROVE  registry'[SessionOf[k]] = <<k, n>>
      BY <1>1 DEF SpareStep
    <2>1. m = l /\ SessionOf[k] \in Sessions BY <1>6
    <2>2. ASSUME reaper[l].token # None, <<k, n>> = reaper[l].token PROVE FALSE
      BY <1>11, <2>1, <2>2 DEF HoldsItsOwn, MayTouch
    <2> QED BY <1>3, <2>1, <2>2
  <1> QED BY <1>7, <1>8, <1>10, <1>15, <1>16

-----------------------------------------------------------------------------
(* The Jobs on their own.                                                  *)
LEMMA JobInv ==
    ASSUME IInv, NEW j \in Jobs,
           \/ Create(j) \/ Spawn(j) \/ PidLands(j) \/ ClaimRefused(j) \/ WorkerEnds(j)
           \/ \E l \in Lives : Task(j, l)
    PROVE  IInv' /\ SpareStep
  <1> USE DEF IInv
  <1>1. UNCHANGED <<life, registry, reaper, lock>>
    BY DEF Create, Spawn, PidLands, ClaimRefused, WorkerEnds, Task
  <1>2. job[j] \in JobSet BY DEF Typed
  <1>3. PICK q \in JobSet :
            /\ job' = [job EXCEPT ![j] = q]
            /\ q.status # "none" /\ (q.token # None => q.token[1] = q.life)
            /\ job[j].status # "none" => q.life = job[j].life /\ q.token = job[j].token
            /\ job[j].status \notin {"none", "starting"} =>
                  /\ q.status # "starting"
                  /\ q.status \in StoredActive => job[j].status \in StoredActive
    <2> DEFINE Good(q) ==
            /\ q \in JobSet
            /\ q.status # "none" /\ (q.token # None => q.token[1] = q.life)
            /\ job[j].status # "none" => q.life = job[j].life /\ q.token = job[j].token
            /\ job[j].status \notin {"none", "starting"} =>
                  /\ q.status # "starting"
                  /\ q.status \in StoredActive => job[j].status \in StoredActive
    <2>1. job[j].token # None => job[j].token[1] = job[j].life BY DEF RecordsOfTheirLife
    <2>2. CASE Create(j)
      <3>1. PICK q : q = [job[j] EXCEPT !.status = "queued"] OBVIOUS
      <3>2. Good(q) BY <1>2, <2>1, <2>2, <3>1 DEF Create, JobSet, StoredActive
      <3>3. job' = [job EXCEPT ![j] = q] BY <2>2, <3>1 DEF Create
      <3> QED BY <3>2, <3>3
    <2>3. CASE Spawn(j)
      <3>1. PICK q : q = [job[j] EXCEPT !.worker = "alive"] OBVIOUS
      <3>2. Good(q) BY <1>2, <2>1, <2>3, <3>1 DEF Spawn, JobSet
      <3>3. job' = [job EXCEPT ![j] = q] BY <2>3, <3>1 DEF Spawn
      <3> QED BY <3>2, <3>3
    <2>4. CASE PidLands(j)
      <3>1. PICK status \in StoredActive :
                job' = [job EXCEPT ![j] = [@ EXCEPT !.pid = TRUE, !.status = status]]
        BY <2>4 DEF PidLands
      <3>2. PICK q : q = [job[j] EXCEPT !.pid = TRUE, !.status = status] OBVIOUS
      <3>3. Good(q) BY <1>2, <2>1, <2>4, <3>2 DEF PidLands, JobSet, StoredActive
      <3>4. job' = [job EXCEPT ![j] = q] BY <3>1, <3>2
      <3> QED BY <3>3, <3>4
    <2>5. CASE ClaimRefused(j)
      <3>1. PICK q : q = [job[j] EXCEPT !.worker = "dead"] OBVIOUS
      <3>2. Good(q) BY <1>2, <2>1, <2>5, <3>1 DEF ClaimRefused, JobSet
      <3>3. job' = [job EXCEPT ![j] = q] BY <2>5, <3>1 DEF ClaimRefused
      <3> QED BY <3>2, <3>3
    <2>6. CASE WorkerEnds(j)
      <3>1. PICK status \in {"finished", "running"} :
                job' = [job EXCEPT ![j] = [@ EXCEPT !.worker = "dead", !.status = status]]
        BY <2>6 DEF WorkerEnds
      <3>2. PICK q : q = [job[j] EXCEPT !.worker = "dead", !.status = status] OBVIOUS
      <3>3. Good(q) BY <1>2, <2>1, <2>6, <3>2 DEF WorkerEnds, JobSet, StoredActive
      <3>4. job' = [job EXCEPT ![j] = q] BY <3>1, <3>2
      <3> QED BY <3>3, <3>4
    <2>7. ASSUME NEW l \in Lives, Task(j, l)
          PROVE  \E q : Good(q) /\ job' = [job EXCEPT ![j] = q]
      <3>1. PICK token \in {Newest(l), None} :
                job' = [job EXCEPT ![j] = [NoJob EXCEPT !.status = "starting", !.life = l,
                                                        !.token = token]]
        BY <2>7 DEF Task
      <3>2. life[l].minted \in Nat BY DEF Typed, LifeSet
      <3>3. token \in Tokens \cup {None} /\ (token # None => token[1] = l)
        BY <3>2 DEF Newest, Tokens
      <3>4. PICK q : q = [NoJob EXCEPT !.status = "starting", !.life = l, !.token = token]
        OBVIOUS
      <3>5. q = [status |-> "starting", life |-> l, token |-> token, pid |-> FALSE,
                 worker |-> "none"]
        BY <3>4 DEF NoJob
      <3>6. Good(q) BY <2>7, <3>3, <3>5 DEF Task, JobSet
      <3>7. job' = [job EXCEPT ![j] = q] BY <3>1, <3>4
      <3> QED BY <3>6, <3>7
    <2> QED BY <2>2, <2>3, <2>4, <2>5, <2>6, <2>7
  <1>4. /\ job' \in [Jobs -> JobSet] /\ job'[j] = q
        /\ \A k \in Jobs : k # j => job'[k] = job[k]
    BY <1>3 DEF Typed
  <1>5. Typed' /\ LockHeld' /\ RegistryOfTheBegun'
    BY <1>1, <1>4 DEF Typed, LockHeld, RegistryOfTheBegun
  <1>6. RecordsOfTheirLife' BY <1>3, <1>4 DEF RecordsOfTheirLife
  <1>7. Onward BY <1>1, <1>3, <1>4 DEF Onward, Landed
  <1>8. (\A k \in Lives : ReaperInv(k)') /\ SpareStep BY <1>1, <1>7, NoReaperSteps
  <1> QED BY <1>5, <1>6, <1>8

LEMMA StutterInv == ASSUME IInv, UNCHANGED vars PROVE IInv'
  <1> USE DEF IInv, vars
  <1>1. Onward BY DEF Onward, Landed
  <1>2. Typed' /\ LockHeld' /\ RegistryOfTheBegun' /\ RecordsOfTheirLife'
    BY DEF Typed, LockHeld, RegistryOfTheBegun, RecordsOfTheirLife
  <1> QED BY <1>1, <1>2, NoReaperSteps

LEMMA NextInv ==
    ASSUME IInv, [Next]_vars PROVE IInv' /\ [SpareStep]_vars
  <1>1. CASE Next
    BY <1>1, HostInv, EndHookInv, TakeLockInv, ListInv, KillInv, WorkerSurvivesInv, MarkInv,
       FinishInv, JobInv DEF Next, ReaperSteps
  <1>2. CASE UNCHANGED vars BY <1>2, StutterInv
  <1> QED BY <1>1, <1>2

-----------------------------------------------------------------------------
(* Types, and that exactly the reaper that lists, kills or marks holds     *)
(* codex-reaper.lock.                                                      *)
THEOREM TypeCorrect == Spec => []TypeOK
  <1>1. IInv /\ [Next]_vars => IInv' BY NextInv
  <1>2. IInv => TypeOK BY TypedIsTypeOK DEF IInv
  <1> QED BY InitInv, <1>1, <1>2, PTL DEF Spec

(* A reaper with a token leaves a lifecycle that runs alone - its Jobs,    *)
(* claimed or not, and its registration - unless its hook found that       *)
(* lifecycle's own token: however hooks and reapers race restarts,         *)
(* compactions, dispatches and each other, with or without a registration  *)
(* or a token in the hook's environment.                                   *)
THEOREM RunningLifeSpared == Spec => RunningLifeIsSpared
  <1>1. IInv /\ [Next]_vars => IInv' /\ [SpareStep]_vars BY NextInv
  <1>2. Spec => [][SpareStep]_vars BY InitInv, <1>1, PTL DEF Spec
  <1> QED BY <1>2, PTL DEF RunningLifeIsSpared, SpareStep

(* A Job that is still active when the reaper of its lifecycle is through  *)
(* is so for one of the four causes: the lock, the token, a late record, a *)
(* worker that survives.                                                   *)
THEOREM LeftoversExplained == Spec => []LeftoversHaveACause
  <1>1. IInv /\ [Next]_vars => IInv' BY NextInv
  <1>2. IInv => LeftoversHaveACause
    <2> SUFFICES ASSUME IInv, NEW l \in Lives, NEW j \in Jobs,
                        reaper[l].pc = "done", job[j].life = l, job[j].status \in StoredActive,
                        reaper[l].token = None \/ job[j].token = reaper[l].token,
                        j \in reaper[l].before
                 PROVE  j \in reaper[l].survived
      BY DEF LeftoversHaveACause
    <2>1. Owns(l, j) BY DEF Owns
    <2>2. Held(l, j) BY <2>1 DEF IInv, ReaperInv, NoneForgotten
    <2>3. reaper[l].todo = {} BY DEF IInv, ReaperInv, HoldsItsOwn
    <2> QED BY <2>2, <2>3 DEF Held
  <1> QED BY InitInv, <1>1, <1>2, PTL DEF Spec
=============================================================================
