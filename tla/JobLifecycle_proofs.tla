------------------------- MODULE JobLifecycle_proofs ------------------------
(***************************************************************************)
(* Proofs about JobLifecycle, for any number of Jobs, workers and clients, *)
(* with relaunches and client crashes.                                     *)
(***************************************************************************)
EXTENDS JobLifecycle, TLAPS

(* Where a Job is being executed, the record names its executor as pid and *)
(* is past `queued`: the one fact both mutual exclusion and the soundness  *)
(* of the derived `interrupted` rest on.                                   *)
PidIsExecutor ==
    \A w \in Workers : worker[w].pc \in {"claimed", "looping"} =>
        /\ rec[worker[w].job].pid = w
        /\ rec[worker[w].job].status \in {"running", "dropped"} \cup TerminalStatuses

(* A process on its way has a Job, a reservation has one holder.           *)
WorkerHasJob ==
    \A w \in Workers : worker[w].pc \in {"starting", "claimed", "looping"} =>
        worker[w].job \in Jobs
ClientHasJob ==
    \A c \in Clients :
        /\ client[c].pc \in {"creating", "spawning", "recording", "killing", "writing"}
               => client[c].job \in Jobs
        /\ client[c].pc = "recording" => client[c].seen \in Workers
        /\ client[c].pc \in {"killing", "writing"} => client[c].verb \in EndingVerbs
ReservationHeld ==
    \A c \in Clients : client[c].pc = "creating" =>
        /\ rec[client[c].job].status = "reserved"
        /\ \A d \in Clients :
              client[d].pc = "creating" /\ client[d].job = client[c].job => d = c

IInv == TypeOK /\ PidIsExecutor /\ WorkerHasJob /\ ClientHasJob /\ ReservationHeld

USE DEF TerminalStatuses, FinishedStatuses, ActiveStatuses, Statuses, FileStates,
        EndingVerbs, WorkerPCs, ClientPCs, WorkerAt, ClientAt

-----------------------------------------------------------------------------
(* The store after a prune is a store, and only finished records change,   *)
(* in their status and rank only.                                          *)
LEMMA PrunedStore ==
    ASSUME rec \in [Jobs -> Record]
    PROVE  /\ Pruned(rec) \in [Jobs -> Record]
           /\ \A j \in Jobs : /\ Pruned(rec)[j].pid = rec[j].pid
                              /\ \/ Pruned(rec)[j] = rec[j]
                                 \/ /\ rec[j].status \in TerminalStatuses
                                    /\ Pruned(rec)[j].status = "dropped"
  <1>1. \A j \in Prunable(rec) : rec[j].status \in TerminalStatuses
    BY DEF Prunable, FinishedJobs
  <1>2. ASSUME NEW j \in Jobs
        PROVE  Pruned(rec)[j] = IF j \in Prunable(rec) THEN Unlinked(rec[j])
                                                       ELSE rec[j]
    BY DEF Pruned
  <1>3. ASSUME NEW j \in Jobs
        PROVE  /\ Pruned(rec)[j] \in Record
               /\ Pruned(rec)[j].pid = rec[j].pid
               /\ \/ Pruned(rec)[j] = rec[j]
                  \/ /\ rec[j].status \in TerminalStatuses
                     /\ Pruned(rec)[j].status = "dropped"
    <2>1. rec[j] \in Record OBVIOUS
    <2>2. CASE j \in Prunable(rec)
      <3>1. Pruned(rec)[j] = Unlinked(rec[j]) BY <1>2, <2>2
      <3>2. Unlinked(rec[j]) \in Record BY <2>1 DEF Unlinked, Record
      <3>3. /\ Unlinked(rec[j]).pid = rec[j].pid
            /\ Unlinked(rec[j]).status = "dropped"
        BY DEF Unlinked
      <3>4. rec[j].status \in TerminalStatuses BY <1>1, <2>2
      <3> QED BY <3>1, <3>2, <3>3, <3>4
    <2>3. CASE j \notin Prunable(rec) BY <1>2, <2>1, <2>3
    <2> QED BY <2>2, <2>3
  <1>4. Pruned(rec) \in [Jobs -> Record]
    <2>1. Pruned(rec) = [j \in Jobs |-> Pruned(rec)[j]] BY DEF Pruned
    <2> QED BY <1>3, <2>1
  <1> QED BY <1>3, <1>4

(* What the two sides of a compare-and-swap leave in the record.           *)
LEMMA TouchedRecord ==
    ASSUME NEW r \in Record
    PROVE  /\ Touched(r) \in Record
           /\ Touched(r).pid = r.pid
           /\ Touched(r).status = r.status
  BY DEF Touched, Record

LEMMA SettledRecord ==
    ASSUME NEW r \in Record, NEW status \in TerminalStatuses, NEW rank \in Nat
    PROVE  /\ Settled(r, status, rank) \in Record
           /\ Settled(r, status, rank).pid = r.pid
           /\ Settled(r, status, rank).status = status
  BY DEF Settled, Record

(* A verdict that lands.                                                   *)
Verdicted(r, status, rank) == Touched(Settled(r, status, rank))

LEMMA VerdictedRecord ==
    ASSUME NEW r \in Record, NEW status \in TerminalStatuses, NEW rank \in Nat
    PROVE  /\ Verdicted(r, status, rank) \in Record
           /\ Verdicted(r, status, rank).pid = r.pid
           /\ Verdicted(r, status, rank).status = status
  <1>1. /\ Settled(r, status, rank) \in Record
        /\ Settled(r, status, rank).pid = r.pid
        /\ Settled(r, status, rank).status = status
    BY SettledRecord
  <1> QED BY <1>1, TouchedRecord DEF Verdicted

(* The initial state.                                                      *)
LEMMA InitInv == Init => IInv
  BY DEF Init, IInv, TypeOK, PidIsExecutor, WorkerHasJob, ClientHasJob,
         ReservationHeld, NewFile, Record

-----------------------------------------------------------------------------
(* What a step must respect to keep PidIsExecutor: nobody enters a Job, and *)
(* a claimed record keeps its pid and does not go back to unclaimed.       *)
Claimed == {"running", "dropped"} \cup TerminalStatuses
ClaimsKept ==
    \A j \in Jobs : rec[j].status \in Claimed =>
        rec'[j].pid = rec[j].pid /\ rec'[j].status \in Claimed
NobodyEnters ==
    \A w \in Workers : worker'[w].pc \in {"claimed", "looping"} =>
        /\ worker[w].pc \in {"claimed", "looping"}
        /\ worker'[w].job = worker[w].job

LEMMA PidStep ==
    ASSUME PidIsExecutor, WorkerHasJob, ClaimsKept, NobodyEnters
    PROVE  PidIsExecutor'
  BY DEF PidIsExecutor, WorkerHasJob, ClaimsKept, NobodyEnters, Claimed

(* The same for ReservationHeld: nobody else reserves, and the reservation *)
(* of a client that still holds it is left alone.                          *)
LEMMA ReservationStep ==
    ASSUME ReservationHeld, ClientHasJob,
           \A d \in Clients : client'[d].pc = "creating" =>
               /\ client'[d] = client[d]
               /\ rec'[client[d].job].status = rec[client[d].job].status
    PROVE  ReservationHeld'
  <1> SUFFICES ASSUME NEW c \in Clients, client'[c].pc = "creating"
               PROVE  /\ rec'[client'[c].job].status = "reserved"
                      /\ \A d \in Clients :
                            client'[d].pc = "creating" /\ client'[d].job = client'[c].job
                                => d = c
    BY DEF ReservationHeld
  <1>1. client'[c] = client[c] OBVIOUS
  <1>2. rec'[client'[c].job].status = "reserved" BY <1>1 DEF ReservationHeld
  <1>3. ASSUME NEW d \in Clients, client'[d].pc = "creating",
               client'[d].job = client'[c].job
        PROVE  d = c
    <2>1. client'[d] = client[d] BY <1>3
    <2> QED BY <1>1, <1>3, <2>1 DEF ReservationHeld
  <1> QED BY <1>2, <1>3

(* Records change only where they are written.                             *)
LEMMA OneRecord ==
    ASSUME TypeOK, NEW j \in Jobs, NEW r \in Record, rec' = [rec EXCEPT ![j] = r]
    PROVE  /\ rec' \in [Jobs -> Record]
           /\ rec'[j] = r
           /\ \A k \in Jobs : k # j => rec'[k] = rec[k]
  BY DEF TypeOK

-----------------------------------------------------------------------------
(* The steps of a client that start a verb.                                *)
LEMMA ClientStartsInv ==
    ASSUME IInv, NEW c \in Clients, ClientStarts(c)
    PROVE  IInv'
  <1> USE DEF IInv
  <1>1. PICK j \in Jobs :
          \/ TaskReserve(c, j)
          \/ \E src \in Jobs, bare \in BOOLEAN : ResumeCreate(c, src, j, bare)
          \/ \E verb \in EndingVerbs : EndRead(c, j, verb)
    BY DEF ClientStarts
  <1>2. CASE TaskReserve(c, j)
    <2>1. TypeOK' BY <1>2 DEF TaskReserve, TypeOK, Record
    <2>2. PidIsExecutor'
      BY <1>2 DEF TaskReserve, TypeOK, Record, PidIsExecutor, WorkerHasJob
    <2>3. WorkerHasJob' BY <1>2 DEF TaskReserve, WorkerHasJob
    <2>4. ClientHasJob' BY <1>2 DEF TaskReserve, ClientHasJob, TypeOK
    <2>5. ReservationHeld'
      <3>1. \A d \in Clients : d # c => client'[d] = client[d]
        BY <1>2 DEF TaskReserve, TypeOK
      <3>2. client'[c].pc = "creating" /\ client'[c].job = j
        BY <1>2 DEF TaskReserve, TypeOK
      <3>3. rec'[j].status = "reserved" /\ rec[j].status = "absent"
        BY <1>2 DEF TaskReserve, TypeOK, Record
      <3>4. \A k \in Jobs : k # j => rec'[k] = rec[k]
        BY <1>2 DEF TaskReserve, TypeOK
      <3>5. \A d \in Clients : client[d].pc = "creating" => client[d].job # j
        BY <3>3 DEF ReservationHeld
      <3>6. \A d \in Clients : d # c /\ client'[d].pc = "creating" =>
                /\ client'[d].job # j
                /\ rec'[client'[d].job].status = "reserved"
        BY <3>1, <3>4, <3>5 DEF ReservationHeld, ClientHasJob
      <3>7. \A d, e \in Clients :
                client'[d].pc = "creating" /\ client'[e].pc = "creating"
                /\ client'[d].job = client'[e].job => d = e
        <4> SUFFICES ASSUME NEW d \in Clients, NEW e \in Clients,
                            client'[d].pc = "creating",
                            client'[e].pc = "creating",
                            client'[d].job = client'[e].job
                     PROVE  d = e
          OBVIOUS
        <4>1. CASE d = c BY <3>2, <3>6, <4>1
        <4>2. CASE e = c BY <3>2, <3>6, <4>2
        <4>3. CASE d # c /\ e # c BY <3>1, <4>3 DEF ReservationHeld
        <4> QED BY <4>1, <4>2, <4>3
      <3> QED BY <3>2, <3>3, <3>6, <3>7 DEF ReservationHeld
    <2> QED BY <2>1, <2>2, <2>3, <2>4, <2>5
  <1>3. ASSUME NEW src \in Jobs, NEW bare \in BOOLEAN, ResumeCreate(c, src, j, bare)
        PROVE  IInv'
    <2>1. TypeOK' BY <1>3 DEF ResumeCreate, TypeOK, Record, NewFile
    <2>2. PidIsExecutor'
      BY <1>3 DEF ResumeCreate, TypeOK, Record, PidIsExecutor, WorkerHasJob
    <2>3. WorkerHasJob' BY <1>3 DEF ResumeCreate, WorkerHasJob
    <2>4. ClientHasJob' BY <1>3 DEF ResumeCreate, ClientHasJob, TypeOK
    <2>5. ReservationHeld'
      BY <1>3 DEF ResumeCreate, ReservationHeld, ClientHasJob, TypeOK, Record
    <2> QED BY <2>1, <2>2, <2>3, <2>4, <2>5
  <1>4. ASSUME NEW verb \in EndingVerbs, EndRead(c, j, verb)
        PROVE  IInv'
    <2>1. TypeOK' BY <1>4 DEF EndRead, TypeOK, Record
    <2>2. PidIsExecutor' BY <1>4 DEF EndRead, PidIsExecutor
    <2>3. WorkerHasJob' BY <1>4 DEF EndRead, WorkerHasJob
    <2>4. ClientHasJob' BY <1>4 DEF EndRead, ClientHasJob, TypeOK
    <2>5. ReservationHeld' BY <1>4 DEF EndRead, ReservationHeld, TypeOK
    <2> QED BY <2>1, <2>2, <2>3, <2>4, <2>5
  <1> QED BY <1>1, <1>2, <1>3, <1>4

(* The steps of a client that is already at it.                            *)
LEMMA ClientContinuesInv ==
    ASSUME IInv, NEW c \in Clients, ClientContinues(c)
    PROVE  IInv'
  <1> DEFINE j == client[c].job
  <1> USE DEF IInv
  <1>1. CASE TaskCreate(c)
    <2>1. j \in Jobs /\ rec[j].status = "reserved"
      BY <1>1 DEF TaskCreate, ClientHasJob, ReservationHeld
    <2> DEFINE r == Touched([rec[j] EXCEPT !.status = "queued"])
    <2>2. /\ rec' \in [Jobs -> Record]
          /\ \A k \in Jobs : k # j => rec'[k] = rec[k]
      <3>1. rec' = [rec EXCEPT ![j] = r] BY <1>1 DEF TaskCreate
      <3>2. r \in Record
        <4>1. rec[j] \in Record BY <2>1 DEF TypeOK
        <4>2. [rec[j] EXCEPT !.status = "queued"] \in Record BY <4>1 DEF Record
        <4> QED BY <4>2 DEF Touched, Record
      <3> HIDE DEF r
      <3> QED BY <2>1, <3>1, <3>2, OneRecord
    <2>3. TypeOK'
      <3>1. client' \in [Clients -> [pc : ClientPCs, job : Jobs \cup {None},
                                     seen : Workers \cup {None},
                                     verb : {"none"} \cup EndingVerbs]]
        BY <1>1 DEF TaskCreate, TypeOK
      <3> QED BY <1>1, <2>2, <3>1 DEF TaskCreate, TypeOK
    <2>4. ClaimsKept BY <2>1, <2>2 DEF ClaimsKept, Claimed
    <2>5. NobodyEnters BY <1>1 DEF TaskCreate, NobodyEnters
    <2>6. PidIsExecutor' BY <2>4, <2>5, PidStep
    <2>7. WorkerHasJob' BY <1>1 DEF TaskCreate, WorkerHasJob
    <2>8. ClientHasJob' BY <1>1 DEF TaskCreate, ClientHasJob, TypeOK
    <2>9. ASSUME NEW d \in Clients, client'[d].pc = "creating"
          PROVE  /\ client'[d] = client[d]
                 /\ rec'[client[d].job].status = rec[client[d].job].status
      <3>1. d # c /\ client'[d] = client[d] BY <1>1, <2>9 DEF TaskCreate, TypeOK
      <3>2. client[d].job \in Jobs /\ client[d].job # j
        BY <1>1, <2>9, <3>1 DEF TaskCreate, ReservationHeld, ClientHasJob
      <3> QED BY <2>2, <3>1, <3>2
    <2>10. ReservationHeld' BY <2>9, ReservationStep
    <2> QED BY <2>3, <2>6, <2>7, <2>8, <2>10
  <1>2. ASSUME NEW w \in Workers, SpawnWorker(c, w)
        PROVE  IInv'
    <2>1. j \in Jobs BY <1>2 DEF SpawnWorker, ClientHasJob
    <2>2. TypeOK'
      <3>1. [pc |-> "starting", job |-> j] \in [pc : WorkerPCs, job : Jobs \cup {None}]
        BY <2>1
      <3>2. worker' \in [Workers -> [pc : WorkerPCs, job : Jobs \cup {None}]]
        BY <1>2, <3>1 DEF SpawnWorker, TypeOK
      <3>3. client' \in [Clients -> [pc : ClientPCs, job : Jobs \cup {None},
                                     seen : Workers \cup {None},
                                     verb : {"none"} \cup EndingVerbs]]
        <4>1. client[c] \in [pc : ClientPCs, job : Jobs \cup {None},
                             seen : Workers \cup {None}, verb : {"none"} \cup EndingVerbs]
          BY DEF TypeOK
        <4>2. PICK r : r = [client[c] EXCEPT !.pc = "recording", !.seen = w] OBVIOUS
        <4>3. r \in [pc : ClientPCs, job : Jobs \cup {None},
                     seen : Workers \cup {None}, verb : {"none"} \cup EndingVerbs]
          BY <4>1, <4>2
        <4>4. client' = [client EXCEPT ![c] = r] BY <1>2, <4>2 DEF SpawnWorker
        <4> QED BY <4>3, <4>4 DEF TypeOK
      <3> QED BY <1>2, <3>2, <3>3 DEF SpawnWorker, TypeOK
    <2>3. ClaimsKept BY <1>2 DEF SpawnWorker, ClaimsKept
    <2>4. NobodyEnters BY <1>2 DEF SpawnWorker, NobodyEnters, TypeOK
    <2>5. PidIsExecutor' BY <2>3, <2>4, PidStep
    <2>6. WorkerHasJob' BY <1>2, <2>1 DEF SpawnWorker, WorkerHasJob, TypeOK
    <2>7. ClientHasJob' BY <1>2 DEF SpawnWorker, ClientHasJob, TypeOK
    <2>8. ReservationHeld' BY <1>2, ReservationStep DEF SpawnWorker, TypeOK
    <2> QED BY <2>2, <2>5, <2>6, <2>7, <2>8
  <1>3. CASE SpawnFails(c)
    <2> DEFINE r == IF rec[j].status = "queued"
                    THEN Verdicted(rec[j], "failed", clock + 1) ELSE rec[j]
    <2>1. j \in Jobs /\ rec[j] \in Record
      BY <1>3 DEF SpawnFails, ClientHasJob, TypeOK
    <2>2. rec' = [rec EXCEPT ![j] = r] BY <1>3 DEF SpawnFails, CasUpdate, Verdicted
    <2>3. /\ r \in Record
          /\ rec[j].status # "queued" => r = rec[j]
      <3>1. clock + 1 \in Nat BY DEF TypeOK
      <3> QED BY <2>1, <3>1, VerdictedRecord
    <2> HIDE DEF r
    <2>4. /\ rec' \in [Jobs -> Record]
          /\ rec'[j] = r
          /\ \A k \in Jobs : k # j => rec'[k] = rec[k]
      BY <2>1, <2>2, <2>3, OneRecord
    <2>5. TypeOK' BY <1>3, <2>4 DEF SpawnFails, TypeOK
    <2>6. ClaimsKept BY <2>3, <2>4 DEF ClaimsKept, Claimed
    <2>7. NobodyEnters BY <1>3 DEF SpawnFails, NobodyEnters
    <2>8. PidIsExecutor' BY <2>6, <2>7, PidStep
    <2>9. WorkerHasJob' BY <1>3 DEF SpawnFails, WorkerHasJob
    <2>10. ClientHasJob' BY <1>3 DEF SpawnFails, ClientHasJob, TypeOK
    <2>11. ASSUME NEW d \in Clients, client'[d].pc = "creating"
           PROVE  /\ client'[d] = client[d]
                  /\ rec'[client[d].job].status = rec[client[d].job].status
      <3>1. client'[d] = client[d] BY <1>3, <2>11 DEF SpawnFails, TypeOK
      <3>2. client[d].job \in Jobs /\ rec[client[d].job].status = "reserved"
        BY <2>11, <3>1 DEF ReservationHeld, ClientHasJob
      <3> QED BY <2>3, <2>4, <3>1, <3>2
    <2>12. ReservationHeld' BY <2>11, ReservationStep
    <2> QED BY <2>5, <2>8, <2>9, <2>10, <2>12
  <1>4. CASE RecordPid(c)
    <2> DEFINE r == IF rec[j].status = "queued"
                    THEN Touched([rec[j] EXCEPT !.pid = client[c].seen]) ELSE rec[j]
    <2>1. j \in Jobs /\ rec[j] \in Record /\ client[c].seen \in Workers
      BY <1>4 DEF RecordPid, ClientHasJob, TypeOK
    <2>2. rec' = [rec EXCEPT ![j] = r] BY <1>4 DEF RecordPid, CasUpdate
    <2>3. /\ r \in Record
          /\ rec[j].status # "queued" => r = rec[j]
      <3>1. [rec[j] EXCEPT !.pid = client[c].seen] \in Record BY <2>1 DEF Record
      <3> QED BY <2>1, <3>1, TouchedRecord
    <2> HIDE DEF r
    <2>4. /\ rec' \in [Jobs -> Record]
          /\ rec'[j] = r
          /\ \A k \in Jobs : k # j => rec'[k] = rec[k]
      BY <2>1, <2>2, <2>3, OneRecord
    <2>5. TypeOK' BY <1>4, <2>4 DEF RecordPid, TypeOK
    <2>6. ClaimsKept BY <2>3, <2>4 DEF ClaimsKept, Claimed
    <2>7. NobodyEnters BY <1>4 DEF RecordPid, NobodyEnters
    <2>8. PidIsExecutor' BY <2>6, <2>7, PidStep
    <2>9. WorkerHasJob' BY <1>4 DEF RecordPid, WorkerHasJob
    <2>10. ClientHasJob' BY <1>4 DEF RecordPid, ClientHasJob, TypeOK
    <2>11. ASSUME NEW d \in Clients, client'[d].pc = "creating"
           PROVE  /\ client'[d] = client[d]
                  /\ rec'[client[d].job].status = rec[client[d].job].status
      <3>1. client'[d] = client[d] BY <1>4, <2>11 DEF RecordPid, TypeOK
      <3>2. client[d].job \in Jobs /\ rec[client[d].job].status = "reserved"
        BY <2>11, <3>1 DEF ReservationHeld, ClientHasJob
      <3> QED BY <2>3, <2>4, <3>1, <3>2
    <2>12. ReservationHeld' BY <2>11, ReservationStep
    <2> QED BY <2>5, <2>8, <2>9, <2>10, <2>12
  <1>5. CASE ClientPrune(c)
    <2>1. /\ rec' \in [Jobs -> Record]
          /\ \A k \in Jobs : /\ rec'[k].pid = rec[k].pid
                             /\ \/ rec'[k] = rec[k]
                                \/ /\ rec[k].status \in TerminalStatuses
                                   /\ rec'[k].status = "dropped"
      BY <1>5, PrunedStore DEF ClientPrune, TypeOK
    <2>2. TypeOK' BY <1>5, <2>1 DEF ClientPrune, TypeOK
    <2>3. ClaimsKept BY <2>1 DEF ClaimsKept, Claimed
    <2>4. NobodyEnters BY <1>5 DEF ClientPrune, NobodyEnters
    <2>5. PidIsExecutor' BY <2>3, <2>4, PidStep
    <2>6. WorkerHasJob' BY <1>5 DEF ClientPrune, WorkerHasJob
    <2>7. ClientHasJob' BY <1>5 DEF ClientPrune, ClientHasJob, TypeOK
    <2>8. ASSUME NEW d \in Clients, client'[d].pc = "creating"
          PROVE  /\ client'[d] = client[d]
                 /\ rec'[client[d].job].status = rec[client[d].job].status
      <3>1. client'[d] = client[d] BY <1>5, <2>8 DEF ClientPrune, TypeOK
      <3>2. client[d].job \in Jobs /\ rec[client[d].job].status = "reserved"
        BY <2>8, <3>1 DEF ReservationHeld, ClientHasJob
      <3> QED BY <2>1, <3>1, <3>2
    <2>9. ReservationHeld' BY <2>8, ReservationStep
    <2> QED BY <2>2, <2>5, <2>6, <2>7, <2>9
  <1>6. CASE Kill(c)
    <2>1. TypeOK'
      <3>1. WorkerAt("gone") \in [pc : WorkerPCs, job : Jobs \cup {None}]
        OBVIOUS
      <3>2. worker' \in [Workers -> [pc : WorkerPCs, job : Jobs \cup {None}]]
        <4>1. \/ worker' = worker
              \/ worker' = [worker EXCEPT ![client[c].seen] = WorkerAt("gone")]
          BY <1>6 DEF Kill
        <4> QED BY <3>1, <4>1 DEF TypeOK
      <3>3. client' \in [Clients -> [pc : ClientPCs, job : Jobs \cup {None},
                                     seen : Workers \cup {None},
                                     verb : {"none"} \cup EndingVerbs]]
        <4>1. client[c] \in [pc : ClientPCs, job : Jobs \cup {None},
                             seen : Workers \cup {None}, verb : {"none"} \cup EndingVerbs]
          BY DEF TypeOK
        <4>2. PICK r : r = [client[c] EXCEPT !.pc = "writing", !.seen = None] OBVIOUS
        <4>3. r \in [pc : ClientPCs, job : Jobs \cup {None},
                     seen : Workers \cup {None}, verb : {"none"} \cup EndingVerbs]
          BY <4>1, <4>2
        <4>4. client' = [client EXCEPT ![c] = r] BY <1>6, <4>2 DEF Kill
        <4> QED BY <4>3, <4>4 DEF TypeOK
      <3> QED BY <1>6, <3>2, <3>3 DEF Kill, TypeOK
    <2>2. ClaimsKept BY <1>6 DEF Kill, ClaimsKept
    <2>3. NobodyEnters BY <1>6 DEF Kill, NobodyEnters, TypeOK, Alive
    <2>4. PidIsExecutor' BY <2>2, <2>3, PidStep
    <2>5. WorkerHasJob' BY <1>6 DEF Kill, WorkerHasJob, TypeOK, Alive
    <2>6. ClientHasJob' BY <1>6 DEF Kill, ClientHasJob, TypeOK
    <2>7. ReservationHeld' BY <1>6, ReservationStep DEF Kill, TypeOK
    <2> QED BY <2>1, <2>4, <2>5, <2>6, <2>7
  <1>7. CASE KillSurvived(c)
    <2>1. TypeOK' BY <1>7 DEF KillSurvived, TypeOK
    <2>2. ClaimsKept BY <1>7 DEF KillSurvived, ClaimsKept
    <2>3. NobodyEnters BY <1>7 DEF KillSurvived, NobodyEnters
    <2>4. PidIsExecutor' BY <2>2, <2>3, PidStep
    <2>5. WorkerHasJob' BY <1>7 DEF KillSurvived, WorkerHasJob
    <2>6. ClientHasJob' BY <1>7 DEF KillSurvived, ClientHasJob, TypeOK
    <2>7. ReservationHeld' BY <1>7, ReservationStep DEF KillSurvived, TypeOK
    <2> QED BY <2>1, <2>4, <2>5, <2>6, <2>7
  <1>8. CASE WriteVerdict(c)
    <2> DEFINE verdict == Verdict(client[c].verb)
               r == IF StoredActive(rec[j])
                    THEN Verdicted(rec[j], verdict, clock + 1) ELSE rec[j]
    <2>1. j \in Jobs /\ rec[j] \in Record /\ client[c].verb \in EndingVerbs
      BY <1>8 DEF WriteVerdict, ClientHasJob, TypeOK
    <2>2. rec' = [rec EXCEPT ![j] = r]
      BY <1>8 DEF WriteVerdict, CasUpdate, Verdicted, StoredActive
    <2>3. verdict \in TerminalStatuses BY <2>1 DEF Verdict
    <2> HIDE DEF verdict
    <2>4. /\ r \in Record
          /\ r.pid = rec[j].pid
          /\ ~StoredActive(rec[j]) => r = rec[j]
          /\ StoredActive(rec[j]) => r.status \in TerminalStatuses
      <3>1. clock + 1 \in Nat BY DEF TypeOK
      <3>2. /\ Verdicted(rec[j], verdict, clock + 1) \in Record
            /\ Verdicted(rec[j], verdict, clock + 1).pid = rec[j].pid
            /\ Verdicted(rec[j], verdict, clock + 1).status = verdict
        BY <2>1, <2>3, <3>1, VerdictedRecord
      <3> QED BY <2>1, <2>3, <3>2
    <2> HIDE DEF r
    <2>6. /\ rec' \in [Jobs -> Record]
          /\ rec'[j] = r
          /\ \A k \in Jobs : k # j => rec'[k] = rec[k]
      BY <2>1, <2>2, <2>4, OneRecord
    <2>7. TypeOK' BY <1>8, <2>6 DEF WriteVerdict, TypeOK
    <2>8. ClaimsKept BY <2>4, <2>6 DEF ClaimsKept, Claimed, StoredActive
    <2>9. NobodyEnters BY <1>8 DEF WriteVerdict, NobodyEnters
    <2>10. PidIsExecutor' BY <2>8, <2>9, PidStep
    <2>11. WorkerHasJob' BY <1>8 DEF WriteVerdict, WorkerHasJob
    <2>12. ClientHasJob' BY <1>8 DEF WriteVerdict, ClientHasJob, TypeOK
    <2>13. ASSUME NEW d \in Clients, client'[d].pc = "creating"
           PROVE  /\ client'[d] = client[d]
                  /\ rec'[client[d].job].status = rec[client[d].job].status
      <3>1. client'[d] = client[d] BY <1>8, <2>13 DEF WriteVerdict, TypeOK
      <3>2. client[d].job \in Jobs /\ rec[client[d].job].status = "reserved"
        BY <2>13, <3>1 DEF ReservationHeld, ClientHasJob
      <3> QED BY <2>4, <2>6, <3>1, <3>2 DEF StoredActive
    <2>14. ReservationHeld' BY <2>13, ReservationStep
    <2> QED BY <2>7, <2>10, <2>11, <2>12, <2>14
  <1> QED BY <1>1, <1>2, <1>3, <1>4, <1>5, <1>6, <1>7, <1>8 DEF ClientContinues


(* A client's crash.                                                       *)
LEMMA ClientCrashInv ==
    ASSUME IInv, NEW c \in Clients, ClientCrash(c)
    PROVE  IInv'
  <1> USE DEF IInv
  <1>1. TypeOK' BY DEF ClientCrash, TypeOK
  <1>2. PidIsExecutor' BY DEF ClientCrash, PidIsExecutor
  <1>3. WorkerHasJob' BY DEF ClientCrash, WorkerHasJob
  <1>4. ClientHasJob' BY DEF ClientCrash, ClientHasJob, TypeOK
  <1>5. ReservationHeld' BY ReservationStep DEF ClientCrash, TypeOK
  <1> QED BY <1>1, <1>2, <1>3, <1>4, <1>5

(* The steps of a worker and of the clock leave the clients alone, and a   *)
(* reservation too unless they write its record.                           *)
LEMMA ClientsStep ==
    ASSUME ClientHasJob, ReservationHeld, UNCHANGED client,
           \A j \in Jobs : rec[j].status = "reserved" => rec'[j] = rec[j]
    PROVE  ClientHasJob' /\ ReservationHeld'
  <1>1. ClientHasJob' BY DEF ClientHasJob
  <1>2. ASSUME NEW d \in Clients, client'[d].pc = "creating"
        PROVE  /\ client'[d] = client[d]
               /\ rec'[client[d].job].status = rec[client[d].job].status
    BY <1>2 DEF ReservationHeld, ClientHasJob
  <1>3. ReservationHeld' BY <1>2, ReservationStep
  <1> QED BY <1>1, <1>3

(* The claim is the one step that makes an executor, and it is the one     *)
(* that needs the liveness test: over a `running` record it takes the      *)
(* place of a worker that is not alive, hence not executing.               *)
LEMMA ClaimInv ==
    ASSUME IInv, NEW w \in Workers, Claim(w)
    PROVE  IInv'
  <1> DEFINE j == worker[w].job
  <1> USE DEF IInv
  <1>1. j \in Jobs /\ rec[j] \in Record /\ worker[w].pc = "starting"
    BY DEF Claim, WorkerHasJob, TypeOK
  <1>2. CASE ~Claimable(rec[j], Alive)
    <2>1. UNCHANGED <<rec, threads, client, clock>> BY <1>2 DEF Claim
    <2>2. worker' = [worker EXCEPT ![w] = WorkerAt("gone")] BY <1>2 DEF Claim
    <2>3. TypeOK' BY <2>1, <2>2 DEF TypeOK
    <2>4. ClaimsKept BY <2>1 DEF ClaimsKept
    <2>5. NobodyEnters BY <2>2 DEF NobodyEnters, TypeOK
    <2>6. PidIsExecutor' BY <2>4, <2>5, PidStep
    <2>7. WorkerHasJob' BY <2>2 DEF WorkerHasJob, TypeOK
    <2>8. ClientHasJob' /\ ReservationHeld' BY <2>1, ClientsStep
    <2> QED BY <2>3, <2>6, <2>7, <2>8
  <1>3. CASE Claimable(rec[j], Alive)
    <2> DEFINE r == Touched([rec[j] EXCEPT !.status = "running", !.pid = w])
    <2>1. /\ rec' = [rec EXCEPT ![j] = r]
          /\ worker' = [worker EXCEPT ![w].pc = "claimed"]
          /\ UNCHANGED <<threads, client, clock>>
      BY <1>3 DEF Claim
    <2>2. r \in Record /\ r.pid = w /\ r.status = "running"
      <3>1. [rec[j] EXCEPT !.status = "running", !.pid = w] \in Record
        BY <1>1 DEF Record
      <3>2. /\ [rec[j] EXCEPT !.status = "running", !.pid = w].pid = w
            /\ [rec[j] EXCEPT !.status = "running", !.pid = w].status = "running"
        BY <1>1 DEF Record
      <3> QED BY <3>1, <3>2, TouchedRecord
    <2> HIDE DEF r
    <2>3. /\ rec' \in [Jobs -> Record]
          /\ rec'[j] = r
          /\ \A k \in Jobs : k # j => rec'[k] = rec[k]
      BY <1>1, <2>1, <2>2, OneRecord
    <2>4. /\ worker'[w].pc = "claimed" /\ worker'[w].job = j
          /\ \A v \in Workers : v # w => worker'[v] = worker[v]
      BY <2>1 DEF TypeOK
    <2>5. TypeOK' BY <2>1, <2>3 DEF TypeOK
    <2>6. ASSUME NEW v \in Workers, worker[v].pc \in {"claimed", "looping"}
          PROVE  worker[v].job # j
      <3> SUFFICES ASSUME worker[v].job = j PROVE FALSE OBVIOUS
      <3>1. rec[j].pid = v /\ rec[j].status \in {"running", "dropped"} \cup TerminalStatuses
        BY <2>6 DEF PidIsExecutor
      <3>2. v \in Alive BY <2>6 DEF Alive
      <3> QED BY <1>3, <3>1, <3>2 DEF Claimable, WorkerGone
    <2>7. PidIsExecutor'
      <3> SUFFICES ASSUME NEW v \in Workers, worker'[v].pc \in {"claimed", "looping"}
                   PROVE  /\ rec'[worker'[v].job].pid = v
                          /\ rec'[worker'[v].job].status
                                \in {"running", "dropped"} \cup TerminalStatuses
        BY DEF PidIsExecutor
      <3>1. CASE v = w BY <2>2, <2>3, <2>4, <3>1
      <3>2. CASE v # w
        <4>1. worker'[v] = worker[v] BY <2>4, <3>2
        <4>2. worker[v].job \in Jobs /\ worker[v].job # j
          BY <2>6, <4>1 DEF WorkerHasJob
        <4> QED BY <2>3, <4>1, <4>2 DEF PidIsExecutor
      <3> QED BY <3>1, <3>2
    <2>8. WorkerHasJob' BY <1>1, <2>4 DEF WorkerHasJob
    <2>9. rec[j].status # "reserved" BY <1>3 DEF Claimable
    <2>10. ClientHasJob' /\ ReservationHeld' BY <2>1, <2>3, <2>9, ClientsStep
    <2> QED BY <2>5, <2>7, <2>8, <2>10
  <1> QED BY <1>2, <1>3

(* The other steps of a worker.                                            *)
LEMMA WorkerStepInv ==
    ASSUME IInv, NEW w \in Workers, WorkerContinues(w) \/ WorkerLoops(w), ~Claim(w)
    PROVE  IInv'
  <1> DEFINE j == worker[w].job
  <1> USE DEF IInv
  <1>1. CASE EnterLoop(w)
    <2>1. j \in Jobs BY <1>1 DEF EnterLoop, WorkerHasJob
    <2>2. TypeOK' BY <1>1, <2>1 DEF EnterLoop, TypeOK
    <2>3. ClaimsKept BY <1>1 DEF EnterLoop, ClaimsKept
    <2>4. NobodyEnters BY <1>1 DEF EnterLoop, NobodyEnters, TypeOK
    <2>5. PidIsExecutor' BY <2>3, <2>4, PidStep
    <2>6. WorkerHasJob' BY <1>1 DEF EnterLoop, WorkerHasJob, TypeOK
    <2>7. ClientHasJob' /\ ReservationHeld' BY <1>1, ClientsStep DEF EnterLoop
    <2> QED BY <2>2, <2>5, <2>6, <2>7
  <1>2. CASE WorkerPrune(w)
    <2>1. /\ rec' \in [Jobs -> Record]
          /\ \A k \in Jobs : /\ rec'[k].pid = rec[k].pid
                             /\ \/ rec'[k] = rec[k]
                                \/ /\ rec[k].status \in TerminalStatuses
                                   /\ rec'[k].status = "dropped"
      BY <1>2, PrunedStore DEF WorkerPrune, TypeOK
    <2>2. TypeOK' BY <1>2, <2>1 DEF WorkerPrune, TypeOK
    <2>3. ClaimsKept BY <2>1 DEF ClaimsKept, Claimed
    <2>4. NobodyEnters BY <1>2 DEF WorkerPrune, NobodyEnters, TypeOK
    <2>5. PidIsExecutor' BY <2>3, <2>4, PidStep
    <2>6. WorkerHasJob' BY <1>2 DEF WorkerPrune, WorkerHasJob, TypeOK
    <2>7. ClientHasJob' /\ ReservationHeld'
      BY <1>2, <2>1, ClientsStep DEF WorkerPrune
    <2> QED BY <2>2, <2>5, <2>6, <2>7
  <1>3. CASE Heartbeat(w)
    <2> DEFINE r == IF rec[j].status = "running" THEN Touched(rec[j]) ELSE rec[j]
    <2>1. j \in Jobs /\ rec[j] \in Record
      BY <1>3 DEF Heartbeat, WorkerHasJob, TypeOK
    <2>2. rec' = [rec EXCEPT ![j] = r] BY <1>3 DEF Heartbeat, CasUpdate
    <2>3. /\ r \in Record /\ r.pid = rec[j].pid /\ r.status = rec[j].status
          /\ rec[j].status = "reserved" => r = rec[j]
      BY <2>1, TouchedRecord
    <2> HIDE DEF r
    <2>4. /\ rec' \in [Jobs -> Record]
          /\ rec'[j] = r
          /\ \A k \in Jobs : k # j => rec'[k] = rec[k]
      BY <2>1, <2>2, <2>3, OneRecord
    <2>5. TypeOK' BY <1>3, <2>4 DEF Heartbeat, TypeOK
    <2>6. ClaimsKept BY <2>3, <2>4 DEF ClaimsKept, Claimed
    <2>7. NobodyEnters BY <1>3 DEF Heartbeat, NobodyEnters
    <2>8. PidIsExecutor' BY <2>6, <2>7, PidStep
    <2>9. WorkerHasJob' BY <1>3 DEF Heartbeat, WorkerHasJob
    <2>10. ClientHasJob' /\ ReservationHeld'
      BY <1>3, <2>3, <2>4, ClientsStep DEF Heartbeat
    <2> QED BY <2>5, <2>8, <2>9, <2>10
  <1>4. ASSUME NEW outcome \in {"completed", "failed"}, TerminalWrite(w, outcome)
        PROVE  IInv'
    <2> DEFINE r == IF rec[j].status = "running"
                    THEN Verdicted(rec[j], outcome, clock + 1) ELSE rec[j]
    <2>1. j \in Jobs /\ rec[j] \in Record
      BY <1>4 DEF TerminalWrite, WorkerHasJob, TypeOK
    <2>2. rec' = [rec EXCEPT ![j] = r]
      BY <1>4 DEF TerminalWrite, CasUpdate, Verdicted
    <2>3. /\ r \in Record
          /\ r.pid = rec[j].pid
          /\ rec[j].status # "running" => r = rec[j]
          /\ rec[j].status = "running" => r.status \in TerminalStatuses
      <3>1. clock + 1 \in Nat BY DEF TypeOK
      <3>2. /\ Verdicted(rec[j], outcome, clock + 1) \in Record
            /\ Verdicted(rec[j], outcome, clock + 1).pid = rec[j].pid
            /\ Verdicted(rec[j], outcome, clock + 1).status = outcome
        <4>1. outcome \in TerminalStatuses BY <1>4
        <4> QED BY <2>1, <3>1, <4>1, VerdictedRecord
      <3> QED BY <2>1, <3>2
    <2> HIDE DEF r
    <2>4. /\ rec' \in [Jobs -> Record]
          /\ rec'[j] = r
          /\ \A k \in Jobs : k # j => rec'[k] = rec[k]
      BY <2>1, <2>2, <2>3, OneRecord
    <2>5. TypeOK' BY <1>4, <2>4 DEF TerminalWrite, TypeOK
    <2>6. ClaimsKept BY <2>3, <2>4 DEF ClaimsKept, Claimed
    <2>7. NobodyEnters BY <1>4 DEF TerminalWrite, NobodyEnters, TypeOK
    <2>8. PidIsExecutor' BY <2>6, <2>7, PidStep
    <2>9. WorkerHasJob' BY <1>4 DEF TerminalWrite, WorkerHasJob, TypeOK
    <2>10. ClientHasJob' /\ ReservationHeld'
      BY <1>4, <2>3, <2>4, ClientsStep DEF TerminalWrite
    <2> QED BY <2>5, <2>8, <2>9, <2>10
  <1>5. CASE WorkerCrash(w)
    <2>1. TypeOK' BY <1>5 DEF WorkerCrash, TypeOK
    <2>2. ClaimsKept BY <1>5 DEF WorkerCrash, ClaimsKept
    <2>3. NobodyEnters BY <1>5 DEF WorkerCrash, NobodyEnters, TypeOK
    <2>4. PidIsExecutor' BY <2>2, <2>3, PidStep
    <2>5. WorkerHasJob' BY <1>5 DEF WorkerCrash, WorkerHasJob, TypeOK
    <2>6. ClientHasJob' /\ ReservationHeld' BY <1>5, ClientsStep DEF WorkerCrash
    <2> QED BY <2>1, <2>4, <2>5, <2>6
  <1>6. ASSUME NEW k \in Jobs, Relaunch(w, k)
        PROVE  IInv'
    <2>1. TypeOK' BY <1>6 DEF Relaunch, TypeOK
    <2>2. ClaimsKept BY <1>6 DEF Relaunch, ClaimsKept
    <2>3. NobodyEnters BY <1>6 DEF Relaunch, NobodyEnters, TypeOK
    <2>4. PidIsExecutor' BY <2>2, <2>3, PidStep
    <2>5. WorkerHasJob' BY <1>6 DEF Relaunch, WorkerHasJob, TypeOK
    <2>6. ClientHasJob' /\ ReservationHeld' BY <1>6, ClientsStep DEF Relaunch
    <2> QED BY <2>1, <2>4, <2>5, <2>6
  <1> QED BY <1>1, <1>2, <1>3, <1>4, <1>5, <1>6 DEF WorkerContinues, WorkerLoops

LEMMA GracePassesInv ==
    ASSUME IInv, NEW j \in Jobs, GracePasses(j)
    PROVE  IInv'
  <1> USE DEF IInv
  <1> DEFINE r == [rec[j] EXCEPT !.stale = TRUE]
  <1>a. r \in Record /\ r.pid = rec[j].pid /\ r.status = rec[j].status
    <2>1. rec[j] \in Record BY DEF TypeOK
    <2> QED BY <2>1 DEF Record
  <1>b. rec' = [rec EXCEPT ![j] = r] BY DEF GracePasses
  <1> HIDE DEF r
  <1>c. /\ rec' \in [Jobs -> Record]
        /\ rec'[j] = r
        /\ \A k \in Jobs : k # j => rec'[k] = rec[k]
    BY <1>a, <1>b, OneRecord
  <1>1. TypeOK' BY <1>c DEF GracePasses, TypeOK
  <1>2. ClaimsKept BY <1>a, <1>c DEF ClaimsKept
  <1>3. NobodyEnters BY DEF GracePasses, NobodyEnters
  <1>4. PidIsExecutor' BY <1>2, <1>3, PidStep
  <1>5. WorkerHasJob' BY DEF GracePasses, WorkerHasJob
  <1>6. \A k \in Jobs : rec[k].status = "reserved" => rec'[k] = rec[k]
    BY <1>c DEF GracePasses, StoredActive
  <1>7. ClientHasJob' /\ ReservationHeld' BY <1>6, ClientsStep DEF GracePasses
  <1> QED BY <1>1, <1>4, <1>5, <1>7

LEMMA StutterInv ==
    ASSUME IInv, UNCHANGED vars
    PROVE  IInv'
  BY DEF IInv, vars, TypeOK, PidIsExecutor, WorkerHasJob, ClientHasJob, ReservationHeld

LEMMA NextInv == IInv /\ [Next]_vars => IInv'
  BY ClientStartsInv, ClientContinuesInv, ClientCrashInv, ClaimInv, WorkerStepInv,
     GracePassesInv, StutterInv DEF Next

-----------------------------------------------------------------------------
(* The inductive invariant holds in every reachable state.                 *)
THEOREM Invariance == Spec => []IInv
  BY InitInv, NextInv, PTL DEF Spec

(* Every record, worker and client is always well formed.                  *)
THEOREM TypeCorrect == Spec => []TypeOK
  <1>1. IInv => TypeOK BY DEF IInv
  <1> QED BY <1>1, Invariance, PTL

(* No two live workers ever run the same Job.                              *)
THEOREM MutualExclusion == Spec => []SingleExecutor
  <1>1. IInv => SingleExecutor
    BY DEF IInv, SingleExecutor, Executing, PidIsExecutor
  <1> QED BY <1>1, Invariance, PTL

(* A Job that any verb grades `interrupted` has no live worker running it. *)
THEOREM InterruptedSound == Spec => []InterruptedIsDead
  <1>1. IInv => InterruptedIsDead
    <2> SUFFICES ASSUME IInv, NEW j \in Jobs, StoredActive(rec[j]), ~Active(j),
                        NEW w \in Workers, Executing(w, j)
                 PROVE  FALSE
      BY DEF InterruptedIsDead
    <2>1. rec[j].pid = w BY DEF IInv, PidIsExecutor, Executing
    <2>2. w \in Alive BY DEF Executing, Alive
    <2>3. ~WorkerGone(rec[j], Alive) BY <2>1, <2>2 DEF WorkerGone
    <2> QED BY <2>3 DEF Active, IsActive, EffectiveStatus, StoredActive
  <1> QED BY <1>1, Invariance, PTL

-----------------------------------------------------------------------------
(* A step never moves a terminal status, except to drop the record: every  *)
(* writer either expects another status or prunes.                         *)
FinalStep ==
    \A j \in Jobs : rec[j].status \in TerminalStatuses =>
        rec'[j].status \in {rec[j].status, "dropped"}

(* A step that writes one record, and not over a terminal status.          *)
LEMMA WritesOpenRecord ==
    ASSUME TypeOK, NEW j \in Jobs, NEW r, rec' = [rec EXCEPT ![j] = r],
           rec[j].status \in TerminalStatuses => r = rec[j]
    PROVE  FinalStep
  BY DEF FinalStep, TypeOK

LEMMA PruneIsFinal ==
    ASSUME TypeOK, rec' = Pruned(rec)
    PROVE  FinalStep
  BY PrunedStore DEF FinalStep, TypeOK

LEMMA NextFinal == IInv /\ [Next]_vars => FinalStep
  <1> SUFFICES ASSUME IInv, [Next]_vars PROVE FinalStep
    OBVIOUS
  <1>0. TypeOK BY DEF IInv
  <1>1. CASE UNCHANGED rec BY <1>1 DEF FinalStep
  <1>2. ASSUME NEW c \in Clients, ClientStarts(c) PROVE FinalStep
    <2>1. ASSUME NEW j \in Jobs, TaskReserve(c, j) PROVE FinalStep
      <3> DEFINE r == [rec[j] EXCEPT !.status = "reserved"]
      <3>1. rec' = [rec EXCEPT ![j] = r] /\ rec[j].status = "absent"
        BY <2>1 DEF TaskReserve
      <3> HIDE DEF r
      <3> QED BY <1>0, <3>1, WritesOpenRecord
    <2>2. ASSUME NEW j \in Jobs, NEW src \in Jobs, NEW bare \in BOOLEAN,
                 ResumeCreate(c, src, j, bare)
          PROVE  FinalStep
      <3> DEFINE r == [NewFile(j) EXCEPT !.status = "queued", !.root = rec[src].root]
      <3>1. rec' = [rec EXCEPT ![j] = r] /\ rec[j].status = "absent"
        BY <2>2 DEF ResumeCreate
      <3> HIDE DEF r
      <3> QED BY <1>0, <3>1, WritesOpenRecord
    <2>3. ASSUME NEW j \in Jobs, NEW verb \in EndingVerbs, EndRead(c, j, verb)
          PROVE  FinalStep
      BY <1>1, <2>3 DEF EndRead
    <2> QED BY <1>2, <2>1, <2>2, <2>3 DEF ClientStarts
  <1>3. ASSUME NEW c \in Clients, ClientContinues(c) PROVE FinalStep
    <2> DEFINE j == client[c].job
    <2>1. CASE TaskCreate(c)
      <3> DEFINE r == Touched([rec[j] EXCEPT !.status = "queued"])
      <3>1. rec' = [rec EXCEPT ![j] = r] BY <2>1 DEF TaskCreate
      <3>2. j \in Jobs /\ rec[j].status = "reserved"
        BY <2>1 DEF TaskCreate, IInv, ClientHasJob, ReservationHeld
      <3> HIDE DEF r
      <3> QED BY <1>0, <3>1, <3>2, WritesOpenRecord
    <2>2. CASE SpawnFails(c)
      <3> DEFINE r == IF rec[j].status = "queued"
                      THEN Verdicted(rec[j], "failed", clock + 1) ELSE rec[j]
      <3>1. rec' = [rec EXCEPT ![j] = r] BY <2>2 DEF SpawnFails, CasUpdate, Verdicted
      <3>2. j \in Jobs BY <2>2 DEF SpawnFails, IInv, ClientHasJob
      <3>3. rec[j].status \in TerminalStatuses => r = rec[j] OBVIOUS
      <3> HIDE DEF r
      <3> QED BY <1>0, <3>1, <3>2, <3>3, WritesOpenRecord
    <2>3. CASE RecordPid(c)
      <3> DEFINE r == IF rec[j].status = "queued"
                      THEN Touched([rec[j] EXCEPT !.pid = client[c].seen]) ELSE rec[j]
      <3>1. rec' = [rec EXCEPT ![j] = r] BY <2>3 DEF RecordPid, CasUpdate
      <3>2. j \in Jobs BY <2>3 DEF RecordPid, IInv, ClientHasJob
      <3>3. rec[j].status \in TerminalStatuses => r = rec[j] OBVIOUS
      <3> HIDE DEF r
      <3> QED BY <1>0, <3>1, <3>2, <3>3, WritesOpenRecord
    <2>4. CASE WriteVerdict(c)
      <3> DEFINE r == IF StoredActive(rec[j])
                      THEN Verdicted(rec[j], Verdict(client[c].verb), clock + 1)
                      ELSE rec[j]
      <3>1. rec' = [rec EXCEPT ![j] = r]
        BY <2>4 DEF WriteVerdict, CasUpdate, Verdicted, StoredActive
      <3>2. j \in Jobs BY <2>4 DEF WriteVerdict, IInv, ClientHasJob
      <3>3. rec[j].status \in TerminalStatuses => r = rec[j] BY DEF StoredActive
      <3> HIDE DEF r
      <3> QED BY <1>0, <3>1, <3>2, <3>3, WritesOpenRecord
    <2>5. CASE ClientPrune(c) BY <1>0, <2>5, PruneIsFinal DEF ClientPrune
    <2>6. CASE UNCHANGED rec BY <1>1, <2>6
    <2> QED BY <1>3, <2>1, <2>2, <2>3, <2>4, <2>5, <2>6
         DEF ClientContinues, SpawnWorker, Kill, KillSurvived
  <1>4. ASSUME NEW w \in Workers, WorkerContinues(w) \/ WorkerLoops(w) PROVE FinalStep
    <2> DEFINE j == worker[w].job
    <2>1. CASE Claim(w)
      <3> DEFINE r == IF Claimable(rec[j], Alive)
                      THEN Touched([rec[j] EXCEPT !.status = "running", !.pid = w])
                      ELSE rec[j]
      <3>1. j \in Jobs BY <2>1 DEF Claim, IInv, WorkerHasJob
      <3>2. rec' = [rec EXCEPT ![j] = r] BY <1>0, <2>1, <3>1 DEF Claim, TypeOK
      <3>3. rec[j].status \in TerminalStatuses => r = rec[j] BY DEF Claimable
      <3> HIDE DEF r
      <3> QED BY <1>0, <3>1, <3>2, <3>3, WritesOpenRecord
    <2>2. CASE Heartbeat(w)
      <3> DEFINE r == IF rec[j].status = "running" THEN Touched(rec[j]) ELSE rec[j]
      <3>1. rec' = [rec EXCEPT ![j] = r] BY <2>2 DEF Heartbeat, CasUpdate
      <3>2. j \in Jobs BY <2>2 DEF Heartbeat, IInv, WorkerHasJob
      <3>3. rec[j].status \in TerminalStatuses => r = rec[j] OBVIOUS
      <3> HIDE DEF r
      <3> QED BY <1>0, <3>1, <3>2, <3>3, WritesOpenRecord
    <2>3. ASSUME NEW outcome \in {"completed", "failed"}, TerminalWrite(w, outcome)
          PROVE  FinalStep
      <3> DEFINE r == IF rec[j].status = "running"
                      THEN Verdicted(rec[j], outcome, clock + 1) ELSE rec[j]
      <3>1. rec' = [rec EXCEPT ![j] = r] BY <2>3 DEF TerminalWrite, CasUpdate, Verdicted
      <3>2. j \in Jobs BY <2>3 DEF TerminalWrite, IInv, WorkerHasJob
      <3>3. rec[j].status \in TerminalStatuses => r = rec[j] OBVIOUS
      <3> HIDE DEF r
      <3> QED BY <1>0, <3>1, <3>2, <3>3, WritesOpenRecord
    <2>4. CASE WorkerPrune(w) BY <1>0, <2>4, PruneIsFinal DEF WorkerPrune
    <2>5. CASE UNCHANGED rec BY <1>1, <2>5
    <2> QED BY <1>4, <2>1, <2>2, <2>3, <2>4, <2>5
         DEF WorkerContinues, WorkerLoops, EnterLoop, WorkerCrash, Relaunch
  <1>5. ASSUME NEW j \in Jobs, GracePasses(j) PROVE FinalStep
    <2> DEFINE r == [rec[j] EXCEPT !.stale = TRUE]
    <2>1. rec' = [rec EXCEPT ![j] = r] /\ StoredActive(rec[j])
      BY <1>5 DEF GracePasses
    <2>2. rec[j].status \notin TerminalStatuses BY <2>1 DEF StoredActive
    <2> HIDE DEF r
    <2> QED BY <1>0, <2>1, <2>2, WritesOpenRecord
  <1> QED BY <1>1, <1>2, <1>3, <1>4, <1>5 DEF Next, ClientCrash, vars

(* A terminal status is never replaced, whatever races the write.          *)
THEOREM VerdictFinality == Spec => VerdictIsFinal
  <1>1. IInv /\ [Next]_vars => [FinalStep]_vars BY NextFinal
  <1>2. Spec => [][FinalStep]_vars BY <1>1, Invariance, PTL DEF Spec
  <1> QED BY <1>2 DEF VerdictIsFinal, FinalStep

-----------------------------------------------------------------------------
(* The refinement.  What the contract sees of a record and of the workers. *)
PhaseOf(r) == CASE r.status \in {"absent", "reserved"} -> "none"
                [] r.status \in ActiveStatuses -> "active"
                [] OTHER -> r.status
Phase     == [j \in Jobs |-> PhaseOf(rec[j])]
Executors == [j \in Jobs |-> {w \in Workers : Executing(w, j)}]

(* Each status is of one phase.                                            *)
LEMMA PhaseCases ==
    ASSUME NEW r \in Record
    PROVE  /\ r.status \in {"absent", "reserved"} => PhaseOf(r) = "none"
           /\ r.status \in ActiveStatuses => PhaseOf(r) = "active"
           /\ r.status \in TerminalStatuses \cup {"dropped"} => PhaseOf(r) = r.status
           /\ PhaseOf(r) = "active" => r.status \in ActiveStatuses
           /\ PhaseOf(r) \in TerminalStatuses => PhaseOf(r) = r.status
  BY DEF PhaseOf, Record

(* A step that writes one record moves one phase.                          *)
LEMMA PhaseStep ==
    ASSUME TypeOK, NEW j \in Jobs, NEW r \in Record, rec' = [rec EXCEPT ![j] = r]
    PROVE  Phase' = [Phase EXCEPT ![j] = PhaseOf(r)]
  <1>1. \A k \in Jobs : rec'[k] = IF k = j THEN r ELSE rec[k]
    BY DEF TypeOK
  <1>2. Phase' = [k \in Jobs |-> PhaseOf(rec'[k])] BY DEF Phase, PhaseOf
  <1>3. \A k \in Jobs : PhaseOf(rec'[k]) = IF k = j THEN PhaseOf(r) ELSE PhaseOf(rec[k])
    BY <1>1
  <1> QED BY <1>2, <1>3 DEF Phase

LEMMA PhaseStays ==
    ASSUME TypeOK, NEW j \in Jobs, NEW r \in Record, rec' = [rec EXCEPT ![j] = r],
           PhaseOf(r) = PhaseOf(rec[j])
    PROVE  Phase' = Phase
  <1>1. Phase' = [Phase EXCEPT ![j] = PhaseOf(rec[j])] BY PhaseStep
  <1> QED BY <1>1 DEF Phase

(* Who executes changes only where a worker enters or leaves.              *)
LEMMA ExecutorsStay ==
    ASSUME \A w \in Workers, j \in Jobs : Executing(w, j)' <=> Executing(w, j)
    PROVE  Executors' = Executors
  BY DEF Executors

LEMMA ExecutorLeaves ==
    ASSUME NEW w \in Workers, NEW j \in Jobs, Executing(w, j), Phase' = Phase,
           \A v \in Workers, k \in Jobs : Executing(v, k)' <=> (Executing(v, k) /\ v # w)
    PROVE  Contract!Leave(j, w)
  <1>1. \A k \in Jobs : k # j => ~Executing(w, k) BY DEF Executing
  <1>2. Executors' = [Executors EXCEPT ![j] = @ \ {w}] BY <1>1 DEF Executors
  <1>3. w \in Executors[j] BY DEF Executors
  <1> QED BY <1>2, <1>3 DEF Contract!Leave, Phase, Executors, PhaseOf

(* A record that goes from unborn to active, and one that is settled.      *)
LEMMA PhaseCreates ==
    ASSUME TypeOK, NEW j \in Jobs, NEW r \in Record, rec' = [rec EXCEPT ![j] = r],
           rec[j].status \in {"absent", "reserved"}, r.status = "queued",
           Executors' = Executors
    PROVE  Contract!Create(j)
  <1>1. Phase' = [Phase EXCEPT ![j] = "active"]
    <2>1. PhaseOf(r) = "active" BY PhaseCases DEF ActiveStatuses
    <2> QED BY <2>1, PhaseStep
  <1>2. Phase[j] = "none" BY PhaseCases DEF Phase, TypeOK
  <1> QED BY <1>1, <1>2 DEF Contract!Create, Phase, Executors, PhaseOf

LEMMA PhaseSettles ==
    ASSUME TypeOK, NEW j \in Jobs, NEW r \in Record, rec' = [rec EXCEPT ![j] = r],
           rec[j].status \in ActiveStatuses, r.status \in TerminalStatuses,
           \/ Executors' = Executors
           \/ r.status \in {"completed", "failed"} /\ Executors' = [Executors EXCEPT ![j] = {}]
    PROVE  \E verdict \in Contract!Verdicts : Contract!Settle(j, verdict)
  <1>1. Phase' = [Phase EXCEPT ![j] = r.status]
    BY PhaseStep, PhaseCases
  <1>2. Phase[j] = "active" BY PhaseCases DEF Phase, TypeOK
  <1>3. r.status \in Contract!Verdicts BY DEF Contract!Verdicts
  <1>4. Contract!Settle(j, r.status)
    BY <1>1, <1>2 DEF Contract!Settle, Phase, Executors, PhaseOf
  <1> QED BY <1>3, <1>4

(* A prune drops what it finds settled, and nothing else.                  *)
LEMMA PruneDrops ==
    ASSUME TypeOK, rec' = Pruned(rec), Executors' = Executors
    PROVE  \/ Phase' = Phase
           \/ \E D \in SUBSET Jobs : Contract!Drop(D)
  <1> DEFINE D == Prunable(rec)
  <1>1. D \subseteq Jobs /\ \A j \in D : rec[j].status \in TerminalStatuses
    BY DEF Prunable, FinishedJobs
  <1>2. \A j \in Jobs : /\ j \in D => rec'[j].status = "dropped"
                        /\ j \notin D => rec'[j] = rec[j]
    BY DEF Pruned, Unlinked
  <1>3. \A j \in Jobs : rec'[j] \in Record BY PrunedStore DEF TypeOK
  <1>4. Phase' = [j \in Jobs |-> PhaseOf(rec'[j])] BY DEF Phase, PhaseOf
  <1>5. \A j \in Jobs : PhaseOf(rec'[j]) = IF j \in D THEN "dropped" ELSE PhaseOf(rec[j])
    BY <1>2, <1>3, PhaseCases
  <1>6. Phase' = [j \in Jobs |-> IF j \in D THEN "dropped" ELSE Phase[j]]
    BY <1>4, <1>5 DEF Phase
  <1>7. \A j \in D : Phase[j] \in TerminalStatuses BY <1>1, PhaseCases DEF Phase, TypeOK
  <1> HIDE DEF D
  <1>8. CASE D = {} BY <1>6, <1>8 DEF Phase
  <1>9. CASE D # {}
    <2>1. Contract!Drop(D)
      BY <1>1, <1>6, <1>7, <1>9 DEF Contract!Drop, Contract!Verdicts, Phase, Executors, PhaseOf
    <2>2. D \in SUBSET Jobs BY <1>1
    <2>3. \E E \in SUBSET Jobs : Contract!Drop(E)
      BY <2>1, <2>2 DEF Contract!Drop
    <2> QED BY <2>3
  <1> QED BY <1>8, <1>9

(* The steps of the clients, seen through the refinement.                  *)
ContractStep == \/ Phase' = Phase /\ Executors' = Executors
                \/ Contract!Next

LEMMA ContractCases ==
    \/ \E j \in Jobs : Contract!Create(j)
    \/ \E j \in Jobs, w \in Workers : Contract!Begin(j, w) \/ Contract!Leave(j, w)
    \/ \E j \in Jobs : \E verdict \in Contract!Verdicts : Contract!Settle(j, verdict)
    \/ \E D \in SUBSET Jobs : Contract!Drop(D)
    => ContractStep
  BY DEF ContractStep, Contract!Next

LEMMA ClientContract ==
    ASSUME IInv, NEW c \in Clients, ClientStarts(c) \/ ClientContinues(c)
    PROVE  ContractStep
  <1> DEFINE j == client[c].job
  <1>0. TypeOK /\ ClientHasJob /\ ReservationHeld BY DEF IInv
  <1>1. ~Kill(c) => Executors' = Executors
    <2>1. ASSUME ~Kill(c), NEW w \in Workers, NEW k \in Jobs
          PROVE  Executing(w, k)' <=> Executing(w, k)
      <3>1. UNCHANGED worker \/ \E v \in Workers : SpawnWorker(c, v)
        <4>1. ClientStarts(c) => UNCHANGED worker
          BY DEF ClientStarts, TaskReserve, ResumeCreate, EndRead
        <4>2. \/ TaskCreate(c) \/ SpawnFails(c) \/ RecordPid(c)
              \/ ClientPrune(c) \/ KillSurvived(c) \/ WriteVerdict(c)
              => UNCHANGED worker
          BY DEF TaskCreate, SpawnFails, RecordPid, ClientPrune, KillSurvived, WriteVerdict
        <4> QED BY <2>1, <4>1, <4>2 DEF ClientContinues
      <3>2. CASE UNCHANGED worker BY <3>2 DEF Executing
      <3>3. ASSUME NEW v \in Workers, SpawnWorker(c, v)
            PROVE  Executing(w, k)' <=> Executing(w, k)
        BY <1>0, <3>3 DEF SpawnWorker, Executing, TypeOK
      <3> QED BY <3>1, <3>2, <3>3
    <2> QED BY <2>1, ExecutorsStay
  <1>2. ASSUME NEW k \in Jobs, TaskReserve(c, k) PROVE ContractStep
    <2> DEFINE r == [rec[k] EXCEPT !.status = "reserved"]
    <2>1. rec' = [rec EXCEPT ![k] = r] /\ rec[k].status = "absent" /\ rec[k] \in Record
      BY <1>0, <1>2 DEF TaskReserve, TypeOK
    <2>2. r \in Record /\ r.status = "reserved" BY <2>1 DEF Record
    <2>3. ~Kill(c) BY <1>2 DEF TaskReserve, Kill
    <2> HIDE DEF r
    <2>4. Phase' = Phase BY <1>0, <2>1, <2>2, PhaseStays, PhaseCases
    <2> QED BY <1>1, <2>3, <2>4 DEF ContractStep
  <1>3. ASSUME NEW k \in Jobs, NEW src \in Jobs, NEW bare \in BOOLEAN,
               ResumeCreate(c, src, k, bare)
        PROVE  ContractStep
    <2> DEFINE r == [NewFile(k) EXCEPT !.status = "queued", !.root = rec[src].root]
    <2>1. rec' = [rec EXCEPT ![k] = r] /\ rec[k].status = "absent" /\ rec[src] \in Record
      BY <1>0, <1>3 DEF ResumeCreate, TypeOK
    <2>2. r \in Record /\ r.status = "queued" BY <2>1 DEF Record, NewFile
    <2>3. ~Kill(c) BY <1>3 DEF ResumeCreate, Kill
    <2> HIDE DEF r
    <2> QED BY <1>0, <1>1, <2>1, <2>2, <2>3, PhaseCreates, ContractCases
  <1>4. CASE TaskCreate(c)
    <2> DEFINE r == Touched([rec[j] EXCEPT !.status = "queued"])
    <2>1. j \in Jobs /\ rec[j].status = "reserved" /\ rec[j] \in Record
      BY <1>0, <1>4 DEF TaskCreate, ClientHasJob, ReservationHeld, TypeOK
    <2>2. rec' = [rec EXCEPT ![j] = r] BY <1>4 DEF TaskCreate
    <2>3. r \in Record /\ r.status = "queued"
      <3>1. /\ [rec[j] EXCEPT !.status = "queued"] \in Record
            /\ [rec[j] EXCEPT !.status = "queued"].status = "queued"
        BY <2>1 DEF Record
      <3> QED BY <3>1, TouchedRecord
    <2>4. ~Kill(c) BY <1>4 DEF TaskCreate, Kill
    <2> HIDE DEF r
    <2> QED BY <1>0, <1>1, <2>1, <2>2, <2>3, <2>4, PhaseCreates, ContractCases
  <1>5. CASE SpawnFails(c)
    <2> DEFINE r == Verdicted(rec[j], "failed", clock + 1)
    <2>1. j \in Jobs /\ rec[j] \in Record /\ clock + 1 \in Nat
      BY <1>0, <1>5 DEF SpawnFails, ClientHasJob, TypeOK
    <2>2. rec' = [rec EXCEPT ![j] = IF rec[j].status = "queued" THEN r ELSE rec[j]]
      BY <1>5 DEF SpawnFails, CasUpdate, Verdicted
    <2>3. r \in Record /\ r.status = "failed" BY <2>1, VerdictedRecord
    <2>4. Executors' = Executors BY <1>1, <1>5 DEF SpawnFails, Kill
    <2> HIDE DEF r
    <2>5. CASE rec[j].status = "queued"
      BY <1>0, <2>1, <2>2, <2>3, <2>4, <2>5, PhaseSettles, ContractCases
    <2>6. CASE rec[j].status # "queued"
      BY <1>0, <2>1, <2>2, <2>4, <2>6, PhaseStays DEF ContractStep
    <2> QED BY <2>5, <2>6
  <1>6. CASE RecordPid(c)
    <2> DEFINE r == IF rec[j].status = "queued"
                    THEN Touched([rec[j] EXCEPT !.pid = client[c].seen]) ELSE rec[j]
    <2>1. j \in Jobs /\ rec[j] \in Record /\ client[c].seen \in Workers
      BY <1>0, <1>6 DEF RecordPid, ClientHasJob, TypeOK
    <2>2. rec' = [rec EXCEPT ![j] = r] BY <1>6 DEF RecordPid, CasUpdate
    <2>3. r \in Record /\ r.status = rec[j].status
      <3>1. /\ [rec[j] EXCEPT !.pid = client[c].seen] \in Record
            /\ [rec[j] EXCEPT !.pid = client[c].seen].status = rec[j].status
        BY <2>1 DEF Record
      <3> QED BY <2>1, <3>1, TouchedRecord
    <2>4. Executors' = Executors BY <1>1, <1>6 DEF RecordPid, Kill
    <2> HIDE DEF r
    <2>5. PhaseOf(r) = PhaseOf(rec[j]) BY <2>3 DEF PhaseOf
    <2> QED BY <1>0, <2>1, <2>2, <2>3, <2>4, <2>5, PhaseStays DEF ContractStep
  <1>7. CASE ClientPrune(c)
    <2>1. Executors' = Executors BY <1>1, <1>7 DEF ClientPrune, Kill
    <2> QED BY <1>0, <1>7, <2>1, PruneDrops, ContractCases DEF ClientPrune, ContractStep
  <1>8. CASE WriteVerdict(c)
    <2> DEFINE verdict == Verdict(client[c].verb)
               r == Verdicted(rec[j], verdict, clock + 1)
    <2>1. j \in Jobs /\ rec[j] \in Record /\ clock + 1 \in Nat /\ verdict \in TerminalStatuses
      BY <1>0, <1>8 DEF WriteVerdict, ClientHasJob, TypeOK, Verdict
    <2>2. rec' = [rec EXCEPT ![j] = IF StoredActive(rec[j]) THEN r ELSE rec[j]]
      BY <1>8 DEF WriteVerdict, CasUpdate, Verdicted, StoredActive
    <2>3. r \in Record /\ r.status = verdict BY <2>1, VerdictedRecord
    <2>4. Executors' = Executors BY <1>1, <1>8 DEF WriteVerdict, Kill
    <2> HIDE DEF r
    <2>5. CASE StoredActive(rec[j])
      BY <1>0, <2>1, <2>2, <2>3, <2>4, <2>5, PhaseSettles, ContractCases DEF StoredActive
    <2>6. CASE ~StoredActive(rec[j])
      BY <1>0, <2>1, <2>2, <2>4, <2>6, PhaseStays DEF ContractStep
    <2> QED BY <2>5, <2>6
  <1>9. CASE Kill(c)
    <2> DEFINE w == client[c].seen
    <2>1. UNCHANGED rec BY <1>9 DEF Kill
    <2>2. Phase' = Phase BY <2>1 DEF Phase, PhaseOf
    <2>3. CASE w \in Alive /\ \E k \in Jobs : Executing(w, k)
      <3>1. w \in Workers /\ worker' = [worker EXCEPT ![w] = WorkerAt("gone")]
        BY <1>9, <2>3 DEF Kill, Alive
      <3>2. \A v \in Workers, k \in Jobs : Executing(v, k)' <=> (Executing(v, k) /\ v # w)
        BY <1>0, <3>1 DEF Executing, TypeOK
      <3>3. PICK k \in Jobs : Executing(w, k) BY <2>3
      <3>4. Contract!Leave(k, w) BY <2>2, <3>1, <3>2, <3>3, ExecutorLeaves
      <3> QED BY <3>1, <3>4, ContractCases
    <2>4. CASE ~(w \in Alive /\ \E k \in Jobs : Executing(w, k))
      <3>1. \A v \in Workers, k \in Jobs : Executing(v, k)' <=> Executing(v, k)
        BY <1>0, <1>9, <2>4 DEF Kill, Executing, TypeOK, Alive
      <3> QED BY <2>2, <3>1, ExecutorsStay DEF ContractStep
    <2> QED BY <2>3, <2>4
  <1>10. ASSUME UNCHANGED rec, ~Kill(c) PROVE ContractStep
    BY <1>1, <1>10 DEF ContractStep, Phase, PhaseOf
  <1> QED BY <1>2, <1>3, <1>4, <1>5, <1>6, <1>7, <1>8, <1>9, <1>10
          DEF ClientStarts, ClientContinues, EndRead, SpawnWorker, KillSurvived

(* The steps of the workers.  The claim enters a Job nobody is in, because *)
(* it takes a record nobody executes or a dead worker's; the terminal      *)
(* write settles as it leaves, unless another verdict was first.           *)
LEMMA WorkerContract ==
    ASSUME IInv, NEW w \in Workers, WorkerContinues(w) \/ WorkerLoops(w)
    PROVE  ContractStep
  <1> DEFINE j == worker[w].job
  <1>0. TypeOK /\ WorkerHasJob /\ PidIsExecutor BY DEF IInv
  <1>1. CASE Claim(w)
    <2>1. j \in Jobs /\ rec[j] \in Record /\ worker[w].pc = "starting"
      BY <1>0, <1>1 DEF Claim, WorkerHasJob, TypeOK
    <2>2. CASE ~Claimable(rec[j], Alive)
      <3>1. UNCHANGED rec /\ worker' = [worker EXCEPT ![w] = WorkerAt("gone")]
        BY <1>1, <2>2 DEF Claim
      <3>2. \A v \in Workers, k \in Jobs : Executing(v, k)' <=> Executing(v, k)
        BY <1>0, <2>1, <3>1 DEF Executing, TypeOK
      <3>3. Phase' = Phase BY <3>1 DEF Phase, PhaseOf
      <3> QED BY <3>2, <3>3, ExecutorsStay DEF ContractStep
    <2>3. CASE Claimable(rec[j], Alive)
      <3> DEFINE r == Touched([rec[j] EXCEPT !.status = "running", !.pid = w])
      <3>1. /\ rec' = [rec EXCEPT ![j] = r]
            /\ worker' = [worker EXCEPT ![w].pc = "claimed"]
        BY <1>1, <2>3 DEF Claim
      <3>2. r \in Record /\ r.status = "running"
        <4>1. /\ [rec[j] EXCEPT !.status = "running", !.pid = w] \in Record
              /\ [rec[j] EXCEPT !.status = "running", !.pid = w].status = "running"
          BY <2>1 DEF Record
        <4> QED BY <4>1, TouchedRecord
      <3>3. rec[j].status \in ActiveStatuses BY <2>3 DEF Claimable
      <3> HIDE DEF r
      <3>4. PhaseOf(r) = PhaseOf(rec[j]) BY <2>1, <3>2, <3>3, PhaseCases
      <3>5. Phase' = Phase BY <1>0, <2>1, <3>1, <3>2, <3>4, PhaseStays
      <3>6. Phase[j] = "active" BY <2>1, <3>3, PhaseCases DEF Phase
      <3>7. \A v \in Workers : ~Executing(v, j)
        <4> SUFFICES ASSUME NEW v \in Workers, Executing(v, j) PROVE FALSE
          OBVIOUS
        <4>1. rec[j].pid = v /\ rec[j].status \in {"running", "dropped"} \cup TerminalStatuses
          BY <1>0 DEF Executing, PidIsExecutor
        <4>2. v \in Alive BY DEF Executing, Alive
        <4> QED BY <2>3, <4>1, <4>2 DEF Claimable, WorkerGone
      <3>8. \A v \in Workers, k \in Jobs :
                Executing(v, k)' <=> (Executing(v, k) \/ (v = w /\ k = j))
        BY <1>0, <2>1, <3>1 DEF Executing, TypeOK
      <3>9. Executors[j] = {} BY <2>1, <3>7 DEF Executors
      <3>10. Executors' = [Executors EXCEPT ![j] = {w}]
        <4>1. \A k \in Jobs : {v \in Workers : Executing(v, k)'} =
                  IF k = j THEN {w} ELSE {v \in Workers : Executing(v, k)}
          BY <3>7, <3>8
        <4> QED BY <4>1 DEF Executors
      <3>11. Contract!Begin(j, w)
        BY <3>5, <3>6, <3>9, <3>10 DEF Contract!Begin, Phase, Executors, PhaseOf
      <3> QED BY <2>1, <3>11, ContractCases
    <2> QED BY <2>2, <2>3
  <1>2. CASE EnterLoop(w)
    <2>1. \A v \in Workers, k \in Jobs : Executing(v, k)' <=> Executing(v, k)
      BY <1>0, <1>2 DEF EnterLoop, Executing, TypeOK
    <2>2. Phase' = Phase BY <1>2 DEF EnterLoop, Phase, PhaseOf
    <2> QED BY <2>1, <2>2, ExecutorsStay DEF ContractStep
  <1>3. CASE WorkerPrune(w)
    <2>1. \A v \in Workers, k \in Jobs : Executing(v, k)' <=> Executing(v, k)
      BY <1>0, <1>3 DEF WorkerPrune, Executing, TypeOK
    <2>2. Executors' = Executors BY <2>1, ExecutorsStay
    <2> QED BY <1>0, <1>3, <2>2, PruneDrops, ContractCases DEF WorkerPrune, ContractStep
  <1>4. CASE Heartbeat(w)
    <2> DEFINE r == IF rec[j].status = "running" THEN Touched(rec[j]) ELSE rec[j]
    <2>1. j \in Jobs /\ rec[j] \in Record
      BY <1>0, <1>4 DEF Heartbeat, WorkerHasJob, TypeOK
    <2>2. rec' = [rec EXCEPT ![j] = r] BY <1>4 DEF Heartbeat, CasUpdate
    <2>3. r \in Record /\ r.status = rec[j].status BY <2>1, TouchedRecord
    <2> HIDE DEF r
    <2>4. PhaseOf(r) = PhaseOf(rec[j]) BY <2>3 DEF PhaseOf
    <2>5. Phase' = Phase BY <1>0, <2>1, <2>2, <2>3, <2>4, PhaseStays
    <2>6. Executors' = Executors BY <1>4 DEF Heartbeat, Executors, Executing
    <2> QED BY <2>5, <2>6 DEF ContractStep
  <1>5. ASSUME NEW outcome \in {"completed", "failed"}, TerminalWrite(w, outcome)
        PROVE  ContractStep
    <2> DEFINE r == Verdicted(rec[j], outcome, clock + 1)
    <2>1. /\ j \in Jobs /\ rec[j] \in Record /\ clock + 1 \in Nat
          /\ worker[w].pc \in {"claimed", "looping"}
      BY <1>0, <1>5 DEF TerminalWrite, WorkerHasJob, TypeOK
    <2>2. /\ rec' = [rec EXCEPT ![j] = IF rec[j].status = "running" THEN r ELSE rec[j]]
          /\ worker' = [worker EXCEPT ![w] = WorkerAt("pruning")]
      BY <1>5 DEF TerminalWrite, CasUpdate, Verdicted
    <2>3. r \in Record /\ r.status = outcome
      <3>1. outcome \in TerminalStatuses BY <1>5
      <3> QED BY <2>1, <3>1, VerdictedRecord
    <2> HIDE DEF r
    <2>4. Executing(w, j) BY <2>1 DEF Executing
    <2>5. \A v \in Workers, k \in Jobs : Executing(v, k)' <=> (Executing(v, k) /\ v # w)
      BY <1>0, <2>2 DEF Executing, TypeOK
    <2>6. CASE rec[j].status = "running"
      <3>1. \A v \in Workers : Executing(v, j) => v = w
        BY <1>0, <2>4 DEF Executing, PidIsExecutor
      <3>2. \A v \in Workers, k \in Jobs : Executing(v, k) /\ k # j => v # w
        BY <2>4 DEF Executing
      <3>3. \A k \in Jobs : {v \in Workers : Executing(v, k)'} =
                IF k = j THEN {} ELSE {v \in Workers : Executing(v, k)}
        BY <2>5, <3>1, <3>2
      <3>4. Executors' = [Executors EXCEPT ![j] = {}] BY <3>3 DEF Executors
      <3> QED BY <1>0, <1>5, <2>1, <2>2, <2>3, <2>6, <3>4, PhaseSettles, ContractCases
    <2>7. CASE rec[j].status # "running"
      <3>1. Phase' = Phase BY <1>0, <2>1, <2>2, <2>7, PhaseStays
      <3>2. Contract!Leave(j, w) BY <2>1, <2>4, <2>5, <3>1, ExecutorLeaves
      <3> QED BY <2>1, <3>2, ContractCases
    <2> QED BY <2>6, <2>7
  <1>6. CASE WorkerCrash(w)
    <2>1. worker' = [worker EXCEPT ![w] = WorkerAt("gone")] BY <1>6 DEF WorkerCrash
    <2>2. Phase' = Phase BY <1>6 DEF WorkerCrash, Phase, PhaseOf
    <2>3. \A v \in Workers, k \in Jobs : Executing(v, k)' <=> (Executing(v, k) /\ v # w)
      BY <1>0, <2>1 DEF Executing, TypeOK
    <2>4. CASE \E k \in Jobs : Executing(w, k)
      <3>1. PICK k \in Jobs : Executing(w, k) BY <2>4
      <3>2. Contract!Leave(k, w) BY <2>2, <2>3, <3>1, ExecutorLeaves
      <3> QED BY <3>1, <3>2, ContractCases
    <2>5. CASE ~\E k \in Jobs : Executing(w, k)
      <3>1. \A v \in Workers, k \in Jobs : Executing(v, k)' <=> Executing(v, k)
        BY <2>3, <2>5
      <3> QED BY <2>2, <3>1, ExecutorsStay DEF ContractStep
    <2> QED BY <2>4, <2>5
  <1>7. ASSUME NEW k \in Jobs, Relaunch(w, k) PROVE ContractStep
    <2>1. \A v \in Workers, i \in Jobs : Executing(v, i)' <=> Executing(v, i)
      BY <1>0, <1>7 DEF Relaunch, Executing, TypeOK
    <2>2. Phase' = Phase BY <1>7 DEF Relaunch, Phase, PhaseOf
    <2> QED BY <2>1, <2>2, ExecutorsStay DEF ContractStep
  <1> QED BY <1>1, <1>2, <1>3, <1>4, <1>5, <1>6, <1>7 DEF WorkerContinues, WorkerLoops

LEMMA InitContract == Init => Contract!Init
  BY DEF Init, Contract!Init, NewFile, Executing

LEMMA NextContract == IInv /\ [Next]_vars => ContractStep
  <1> SUFFICES ASSUME IInv, [Next]_vars PROVE ContractStep
    OBVIOUS
  <1>1. CASE UNCHANGED <<rec, worker>>
    BY <1>1 DEF ContractStep, Phase, PhaseOf, Executors, Executing
  <1>2. ASSUME NEW c \in Clients, ClientStarts(c) \/ ClientContinues(c) PROVE ContractStep
    BY <1>2, ClientContract
  <1>3. ASSUME NEW w \in Workers, WorkerContinues(w) \/ WorkerLoops(w) PROVE ContractStep
    BY <1>3, WorkerContract
  <1>4. ASSUME NEW j \in Jobs, GracePasses(j) PROVE ContractStep
    <2> DEFINE r == [rec[j] EXCEPT !.stale = TRUE]
    <2>1. /\ rec' = [rec EXCEPT ![j] = r] /\ UNCHANGED worker /\ TypeOK
          /\ rec[j] \in Record
      BY <1>4 DEF GracePasses, IInv, TypeOK
    <2>2. r \in Record /\ r.status = rec[j].status BY <2>1 DEF Record
    <2> HIDE DEF r
    <2>3. PhaseOf(r) = PhaseOf(rec[j]) BY <2>2 DEF PhaseOf
    <2>4. Phase' = Phase BY <2>1, <2>2, <2>3, PhaseStays
    <2>5. Executors' = Executors BY <2>1 DEF Executors, Executing
    <2> QED BY <2>4, <2>5 DEF ContractStep
  <1> QED BY <1>1, <1>2, <1>3, <1>4 DEF Next, ClientCrash, vars

(* What a dispatcher is promised (JobContract) is what the processes do:   *)
(* every step of a client or a worker is a step of the contract, or none.  *)
THEOREM Refinement == Spec => ImplementsContract
  <1>1. Init => Contract!Init BY InitContract
  <1>2. IInv /\ [Next]_vars => [Contract!Next]_<<Phase, Executors>>
    BY NextContract DEF ContractStep
  <1>3. IInv /\ [Next]_vars =>
            [Contract!Next]_<<[j \in Jobs |->
                    CASE rec[j].status \in {"absent", "reserved"} -> "none"
                      [] rec[j].status \in ActiveStatuses -> "active"
                      [] OTHER -> rec[j].status],
                [j \in Jobs |-> {w \in Workers : Executing(w, j)}]>>
    BY <1>2 DEF Phase, PhaseOf, Executors
  <1> QED BY <1>1, <1>3, Invariance, PTL DEF Spec, ImplementsContract, Contract!Spec

-----------------------------------------------------------------------------
(* The lineages, where nobody relaunches a worker by hand.  Then a Job has *)
(* one hand on it at a time, its dispatcher's and then its worker's, so    *)
(* nothing makes an active Job of one that reads as crashed; and a lineage *)
(* is named after a Job that was created before its other members.         *)
Open(j) == rec[j].status \notin {"absent", "reserved"}
On(w, j) == worker[w].pc \in {"starting", "claimed", "looping"} /\ worker[w].job = j
Dispatches(c, j) ==
    client[c].pc \in {"creating", "spawning", "recording"} /\ client[c].job = j

RootsAreOpen ==
    \A j \in Jobs : /\ ~Open(j) => rec[j].root = j /\ rec[j].pid = None
                    /\ rec[j].root # j => Open(rec[j].root)
PidsWereBorn ==
    \A j \in Jobs : rec[j].pid # None => worker[rec[j].pid].pc # "unborn"
OneDispatcher ==
    \A c, d \in Clients, j \in Jobs : Dispatches(c, j) /\ Dispatches(d, j) => c = d
OneWorker ==
    \A v, w \in Workers, j \in Jobs : On(v, j) /\ On(w, j) => v = w
HandsOfWorkers ==
    \A w \in Workers, j \in Jobs :
        On(w, j) => Open(j) /\ rec[j].pid \in {None, w}
DispatcherOf(c, j) ==
    /\ client[c].pc # "creating" => Open(j)
    /\ client[c].pc = "spawning" => rec[j].pid = None /\ \A w \in Workers : ~On(w, j)
    /\ client[c].pc = "recording" =>
          /\ rec[j].status = "queued" => rec[j].pid = None
          /\ rec[j].pid \in {None, client[c].seen}
          /\ worker[client[c].seen].pc # "unborn"
          /\ \A w \in Workers : On(w, j) => w = client[c].seen
HandsOfDispatchers ==
    \A c \in Clients, j \in Jobs : Dispatches(c, j) => DispatcherOf(c, j)

LInv == /\ RootsAreOpen /\ PidsWereBorn /\ OneDispatcher /\ OneWorker
        /\ HandsOfWorkers /\ HandsOfDispatchers /\ LineageExclusive

LEMMA ActiveIs ==
    ASSUME NEW j \in Jobs
    PROVE  Active(j) <=> /\ StoredActive(rec[j])
                         /\ ~(WorkerGone(rec[j], Alive) /\ rec[j].stale)
  BY DEF Active, IsActive, EffectiveStatus, StoredActive

(* A step that makes no Job active, opens none, gives none a pid, and puts *)
(* no hand on any.                                                         *)
RecordsStay ==
    \A j \in Jobs :
        /\ rec'[j].root = rec[j].root /\ rec'[j].pid = rec[j].pid
        /\ rec'[j].status \in {"absent", "reserved"} <=> rec[j].status \in {"absent", "reserved"}
        /\ rec'[j].status = "queued" => rec[j].status = "queued"
        /\ rec'[j].status \in ActiveStatuses =>
              /\ rec[j].status \in ActiveStatuses
              /\ rec'[j].stale \/ rec'[j] = rec[j] \/ rec[j].pid \in Alive
WorkersStay ==
    \A w \in Workers :
        /\ worker'[w].pc \in {"starting", "claimed", "looping"} =>
              /\ worker[w].pc \in {"starting", "claimed", "looping"}
              /\ worker'[w].job = worker[w].job
        /\ worker[w].pc = "unborn" <=> worker'[w].pc = "unborn"
        /\ worker[w].pc = "gone" => worker'[w].pc = "gone"
ClientsStay ==
    \A c \in Clients : client'[c].pc \in {"creating", "spawning", "recording"} =>
        client'[c] = client[c]

LEMMA HandsStay ==
    ASSUME TypeOK, LInv, RecordsStay, WorkersStay
    PROVE  /\ RootsAreOpen' /\ PidsWereBorn' /\ OneWorker' /\ HandsOfWorkers'
           /\ LineageExclusive'
           /\ \A j \in Jobs : Open(j)' <=> Open(j)
           /\ \A w \in Workers, j \in Jobs : On(w, j)' => On(w, j)
  <1> USE DEF LInv
  <1>1. \A w \in Workers, j \in Jobs : On(w, j)' => On(w, j) BY DEF WorkersStay, On
  <1>3. \A j \in Jobs : Open(j)' <=> Open(j) BY DEF RecordsStay, Open
  <1>4. RootsAreOpen'
    <2>1. \A j \in Jobs : rec[j].root \in Jobs BY DEF TypeOK, Record
    <2> QED BY <1>3, <2>1 DEF RecordsStay, RootsAreOpen
  <1>5. PidsWereBorn'
    <2>1. \A j \in Jobs : rec[j].pid \in Workers \cup {None} BY DEF TypeOK, Record
    <2> QED BY <2>1 DEF RecordsStay, WorkersStay, PidsWereBorn
  <1>7. OneWorker' BY <1>1 DEF OneWorker
  <1>8. HandsOfWorkers' BY <1>1, <1>3 DEF HandsOfWorkers, RecordsStay
  <1>10. LineageExclusive'
    <2>1. ASSUME NEW j \in Jobs, Active(j)' PROVE Active(j)
      <3>1. rec'[j].status \in ActiveStatuses /\ rec[j].status \in ActiveStatuses
        BY <2>1, ActiveIs DEF StoredActive, RecordsStay, Active, IsActive, EffectiveStatus
      <3>2. \A w \in Workers : w \in Alive' => w \in Alive
        BY DEF Alive, WorkersStay
      <3>3. ~(WorkerGone(rec'[j], Alive') /\ rec'[j].stale)
        BY <2>1, <3>1 DEF Active, IsActive, EffectiveStatus, StoredActive, WorkerGone
      <3>4. rec[j].pid \in Workers \cup {None} BY DEF TypeOK, Record
      <3>5. ~(WorkerGone(rec[j], Alive) /\ rec[j].stale)
        BY <3>1, <3>2, <3>3, <3>4 DEF WorkerGone, RecordsStay
      <3> QED BY <3>1, <3>5, ActiveIs DEF StoredActive
    <2> QED BY <2>1 DEF LineageExclusive, RecordsStay
  <1> QED BY <1>1, <1>3, <1>4, <1>5, <1>7, <1>8, <1>10

(* A dispatcher that stands still among them stands as it did.             *)
LEMMA DispatcherStays ==
    ASSUME TypeOK, ClientHasJob, LInv, RecordsStay, WorkersStay,
           NEW c \in Clients, NEW j \in Jobs, Dispatches(c, j), client'[c] = client[c]
    PROVE  DispatcherOf(c, j)'
  <1>1. /\ Open(j)' <=> Open(j)
        /\ \A w \in Workers : On(w, j)' => On(w, j)
    BY HandsStay
  <1>2. client[c].pc = "recording" => client[c].seen \in Workers BY DEF ClientHasJob
  <1>3. DispatcherOf(c, j) BY DEF LInv, HandsOfDispatchers
  <1> QED BY <1>1, <1>2, <1>3 DEF DispatcherOf, RecordsStay, WorkersStay

LEMMA LineagesStay ==
    ASSUME TypeOK, ClientHasJob, LInv, RecordsStay, WorkersStay, ClientsStay
    PROVE  LInv'
  <1>1. \A c \in Clients, j \in Jobs :
            Dispatches(c, j)' => Dispatches(c, j) /\ client'[c] = client[c]
    BY DEF ClientsStay, Dispatches
  <1>2. OneDispatcher' BY <1>1 DEF OneDispatcher, LInv
  <1>3. HandsOfDispatchers' BY <1>1, DispatcherStays DEF HandsOfDispatchers
  <1>4. /\ RootsAreOpen' /\ PidsWereBorn' /\ OneWorker' /\ HandsOfWorkers'
        /\ LineageExclusive'
    BY HandsStay
  <1> QED BY <1>2, <1>3, <1>4 DEF LInv

(* Which writes leave a record where it was, for the lineages.             *)
StaysPut(old, new, alive) ==
    /\ new.root = old.root /\ new.pid = old.pid
    /\ new.status \in {"absent", "reserved"} <=> old.status \in {"absent", "reserved"}
    /\ new.status = "queued" => old.status = "queued"
    /\ new.status \in ActiveStatuses =>
          /\ old.status \in ActiveStatuses
          /\ new.stale \/ new = old \/ old.pid \in alive

LEMMA OneStaysPut ==
    ASSUME TypeOK, NEW j \in Jobs, NEW r, rec' = [rec EXCEPT ![j] = r],
           StaysPut(rec[j], r, Alive)
    PROVE  RecordsStay
  BY DEF TypeOK, StaysPut, RecordsStay

LEMMA VerdictStaysPut ==
    ASSUME NEW r \in Record, NEW status \in TerminalStatuses, NEW rank \in Nat, NEW alive,
           StoredActive(r)
    PROVE  StaysPut(r, Verdicted(r, status, rank), alive)
  BY DEF StaysPut, Verdicted, Touched, Settled, StoredActive, Record

LEMMA PruneStaysPut ==
    ASSUME TypeOK, rec' = Pruned(rec)
    PROVE  RecordsStay
  <1>1. \A j \in Jobs : \/ rec'[j] = rec[j]
                        \/ rec[j].status \in TerminalStatuses /\ rec'[j] = Unlinked(rec[j])
    BY DEF Pruned, Prunable, FinishedJobs
  <1>2. ASSUME NEW j \in Jobs, rec[j].status \in TerminalStatuses, rec'[j] = Unlinked(rec[j])
        PROVE  /\ rec'[j].root = rec[j].root /\ rec'[j].pid = rec[j].pid
               /\ rec'[j].status = "dropped"
    BY <1>2 DEF Unlinked
  <1> QED BY <1>1, <1>2 DEF RecordsStay

LEMMA NoRecordStaysPut ==
    ASSUME UNCHANGED rec PROVE RecordsStay
  BY DEF RecordsStay

(* The steps that put no hand on a Job.                                    *)
LEMMA ClientLetsGo ==
    ASSUME IInv, LInv, NEW c \in Clients,
           \/ SpawnFails(c) \/ ClientPrune(c) \/ Kill(c) \/ KillSurvived(c) \/ WriteVerdict(c)
           \/ ClientCrash(c) \/ \E j \in Jobs, verb \in EndingVerbs : EndRead(c, j, verb)
    PROVE  LInv'
  <1> DEFINE j == client[c].job
  <1>0. TypeOK /\ ClientHasJob BY DEF IInv
  <1>1. ClientsStay
    <2>1. /\ client'[c].pc \notin {"creating", "spawning", "recording"}
          /\ \A d \in Clients : d # c => client'[d] = client[d]
      <3>1. CASE SpawnFails(c) BY <1>0, <3>1 DEF SpawnFails, TypeOK
      <3>2. CASE ClientPrune(c) BY <1>0, <3>2 DEF ClientPrune, TypeOK
      <3>3. CASE Kill(c) BY <1>0, <3>3 DEF Kill, TypeOK
      <3>4. CASE KillSurvived(c) BY <1>0, <3>4 DEF KillSurvived, TypeOK
      <3>5. CASE WriteVerdict(c) BY <1>0, <3>5 DEF WriteVerdict, TypeOK
      <3>6. CASE ClientCrash(c) BY <1>0, <3>6 DEF ClientCrash, TypeOK
      <3>7. ASSUME NEW k \in Jobs, NEW verb \in EndingVerbs, EndRead(c, k, verb)
            PROVE  <2>1!1 /\ <2>1!2
        BY <1>0, <3>7 DEF EndRead, TypeOK
      <3> QED BY <3>1, <3>2, <3>3, <3>4, <3>5, <3>6, <3>7
    <2> QED BY <2>1 DEF ClientsStay
  <1>2. WorkersStay
    BY <1>0 DEF WorkersStay, SpawnFails, ClientPrune, Kill, KillSurvived, WriteVerdict,
                ClientCrash, EndRead, TypeOK, Alive
  <1>3. RecordsStay
    <2>1. CASE SpawnFails(c)
      <3> DEFINE r == Verdicted(rec[j], "failed", clock + 1)
      <3>1. j \in Jobs /\ rec[j] \in Record /\ clock + 1 \in Nat
        BY <1>0, <2>1 DEF SpawnFails, ClientHasJob, TypeOK
      <3>2. rec' = [rec EXCEPT ![j] = IF rec[j].status = "queued" THEN r ELSE rec[j]]
        BY <2>1 DEF SpawnFails, CasUpdate, Verdicted
      <3>3. rec[j].status = "queued" => StaysPut(rec[j], r, Alive)
        BY <3>1, VerdictStaysPut DEF StoredActive
      <3>4. StaysPut(rec[j], rec[j], Alive) BY DEF StaysPut
      <3> HIDE DEF r
      <3> QED BY <1>0, <3>1, <3>2, <3>3, <3>4, OneStaysPut
    <2>2. CASE WriteVerdict(c)
      <3> DEFINE verdict == Verdict(client[c].verb)
                 r == Verdicted(rec[j], verdict, clock + 1)
      <3>1. j \in Jobs /\ rec[j] \in Record /\ clock + 1 \in Nat /\ verdict \in TerminalStatuses
        BY <1>0, <2>2 DEF WriteVerdict, ClientHasJob, TypeOK, Verdict
      <3>2. rec' = [rec EXCEPT ![j] = IF StoredActive(rec[j]) THEN r ELSE rec[j]]
        BY <2>2 DEF WriteVerdict, CasUpdate, Verdicted, StoredActive
      <3>3. StoredActive(rec[j]) => StaysPut(rec[j], r, Alive)
        BY <3>1, VerdictStaysPut
      <3>4. StaysPut(rec[j], rec[j], Alive) BY DEF StaysPut
      <3> HIDE DEF r
      <3> QED BY <1>0, <3>1, <3>2, <3>3, <3>4, OneStaysPut
    <2>3. CASE ClientPrune(c) BY <1>0, <2>3, PruneStaysPut DEF ClientPrune
    <2>4. CASE UNCHANGED rec BY <2>4, NoRecordStaysPut
    <2> QED BY <2>1, <2>2, <2>3, <2>4 DEF Kill, KillSurvived, ClientCrash, EndRead
  <1> QED BY <1>0, <1>1, <1>2, <1>3, LineagesStay

LEMMA WorkerLetsGo ==
    ASSUME IInv, LInv, NEW w \in Workers,
           \/ EnterLoop(w) \/ WorkerPrune(w) \/ Heartbeat(w) \/ WorkerCrash(w)
           \/ \E outcome \in {"completed", "failed"} : TerminalWrite(w, outcome)
    PROVE  LInv'
  <1> DEFINE j == worker[w].job
  <1>0. TypeOK /\ ClientHasJob /\ WorkerHasJob /\ PidIsExecutor BY DEF IInv
  <1>1. ClientsStay
    BY DEF ClientsStay, EnterLoop, WorkerPrune, Heartbeat, WorkerCrash, TerminalWrite
  <1>2. WorkersStay
    BY <1>0 DEF WorkersStay, EnterLoop, WorkerPrune, Heartbeat, WorkerCrash, TerminalWrite,
                TypeOK, Alive
  <1>3. RecordsStay
    <2>1. CASE Heartbeat(w)
      <3> DEFINE r == IF rec[j].status = "running" THEN Touched(rec[j]) ELSE rec[j]
      <3>1. j \in Jobs /\ rec[j] \in Record /\ rec[j].pid = w /\ w \in Alive
        BY <1>0, <2>1 DEF Heartbeat, WorkerHasJob, TypeOK, PidIsExecutor, Alive
      <3>2. rec' = [rec EXCEPT ![j] = r] BY <2>1 DEF Heartbeat, CasUpdate
      <3>3. StaysPut(rec[j], Touched(rec[j]), Alive)
        BY <3>1 DEF StaysPut, Touched, Record
      <3>4. StaysPut(rec[j], rec[j], Alive) BY DEF StaysPut
      <3>5. StaysPut(rec[j], r, Alive) BY <3>3, <3>4
      <3> HIDE DEF r
      <3> QED BY <1>0, <3>1, <3>2, <3>5, OneStaysPut
    <2>2. ASSUME NEW outcome \in {"completed", "failed"}, TerminalWrite(w, outcome)
          PROVE  RecordsStay
      <3> DEFINE r == Verdicted(rec[j], outcome, clock + 1)
      <3>1. j \in Jobs /\ rec[j] \in Record /\ clock + 1 \in Nat /\ outcome \in TerminalStatuses
        BY <1>0, <2>2 DEF TerminalWrite, WorkerHasJob, TypeOK
      <3>2. rec' = [rec EXCEPT ![j] = IF rec[j].status = "running" THEN r ELSE rec[j]]
        BY <2>2 DEF TerminalWrite, CasUpdate, Verdicted
      <3>3. rec[j].status = "running" => StaysPut(rec[j], r, Alive)
        BY <3>1, VerdictStaysPut DEF StoredActive
      <3>4. StaysPut(rec[j], rec[j], Alive) BY DEF StaysPut
      <3> HIDE DEF r
      <3> QED BY <1>0, <3>1, <3>2, <3>3, <3>4, OneStaysPut
    <2>3. CASE WorkerPrune(w) BY <1>0, <2>3, PruneStaysPut DEF WorkerPrune
    <2>4. CASE UNCHANGED rec BY <2>4, NoRecordStaysPut
    <2> QED BY <2>1, <2>2, <2>3, <2>4 DEF EnterLoop, WorkerCrash
  <1> QED BY <1>0, <1>1, <1>2, <1>3, LineagesStay

LEMMA GraceLetsGo ==
    ASSUME IInv, LInv, NEW j \in Jobs, GracePasses(j)
    PROVE  LInv'
  <1> DEFINE r == [rec[j] EXCEPT !.stale = TRUE]
  <1>0. TypeOK /\ ClientHasJob /\ rec[j] \in Record BY DEF IInv, TypeOK
  <1>1. ClientsStay /\ WorkersStay BY DEF ClientsStay, WorkersStay, GracePasses
  <1>2. rec' = [rec EXCEPT ![j] = r] BY DEF GracePasses
  <1>3. StaysPut(rec[j], r, Alive) BY <1>0 DEF StaysPut, Record
  <1> HIDE DEF r
  <1>4. RecordsStay BY <1>0, <1>2, <1>3, OneStaysPut
  <1> QED BY <1>0, <1>1, <1>4, LineagesStay

(* A reservation: the dispatcher of a Job nobody has heard of.             *)
LEMMA ReserveLineage ==
    ASSUME IInv, LInv, NEW c \in Clients, NEW j \in Jobs, TaskReserve(c, j)
    PROVE  LInv'
  <1> DEFINE r == [rec[j] EXCEPT !.status = "reserved"]
  <1>0. TypeOK /\ ClientHasJob /\ ReservationHeld /\ rec[j] \in Record BY DEF IInv, TypeOK
  <1>1. rec[j].status = "absent" /\ rec' = [rec EXCEPT ![j] = r] /\ worker' = worker
    BY DEF TaskReserve
  <1>2. /\ client'[c].pc = "creating" /\ client'[c].job = j
        /\ \A d \in Clients : d # c => client'[d] = client[d]
    BY <1>0 DEF TaskReserve, TypeOK
  <1>3. StaysPut(rec[j], r, Alive) BY <1>0, <1>1 DEF StaysPut, Record
  <1>4. RecordsStay
    <2> HIDE DEF r
    <2> QED BY <1>0, <1>1, <1>3, OneStaysPut
  <1>5. WorkersStay BY <1>1 DEF WorkersStay
  <1>6. \A d \in Clients : ~Dispatches(d, j)
    BY <1>0, <1>1 DEF LInv, HandsOfDispatchers, DispatcherOf, Dispatches, Open, ReservationHeld
  <1>7. \A d \in Clients, k \in Jobs :
            Dispatches(d, k)' => \/ d = c /\ k = j
                                 \/ d # c /\ Dispatches(d, k) /\ client'[d] = client[d]
    BY <1>2 DEF Dispatches
  <1>8. OneDispatcher' BY <1>6, <1>7 DEF OneDispatcher, LInv
  <1>9. HandsOfDispatchers'
    <2>1. DispatcherOf(c, j)' BY <1>2 DEF DispatcherOf
    <2> QED BY <1>0, <1>4, <1>5, <1>7, <2>1, DispatcherStays DEF HandsOfDispatchers
  <1>10. /\ RootsAreOpen' /\ PidsWereBorn' /\ OneWorker' /\ HandsOfWorkers'
         /\ LineageExclusive'
    BY <1>0, <1>4, <1>5, HandsStay
  <1> QED BY <1>8, <1>9, <1>10 DEF LInv

(* A record that appears: its lineage is either new, or quiet.             *)
LEMMA OpensLineage ==
    ASSUME IInv, LInv, NEW c \in Clients, NEW j \in Jobs, ~Open(j), NEW r,
           rec' = [rec EXCEPT ![j] = r], worker' = worker,
           r.status = "queued", r.pid = None, r.root \in Jobs,
           r.root # j => Open(r.root),
           \A k \in Jobs : Active(k) => rec[k].root # r.root,
           client'[c].pc = "spawning", client'[c].job = j,
           \A d \in Clients : d # c => client'[d] = client[d] /\ ~Dispatches(d, j)
    PROVE  LInv'
  <1>0. TypeOK /\ ClientHasJob BY DEF IInv
  <1>1. rec'[j] = r /\ \A k \in Jobs : k # j => rec'[k] = rec[k] BY <1>0 DEF TypeOK
  <1>2. \A w \in Workers : ~On(w, j) BY DEF LInv, HandsOfWorkers
  <1>3. \A w \in Workers, k \in Jobs : On(w, k)' <=> On(w, k) BY DEF On
  <1>4. \A k \in Jobs : Open(k)' <=> (Open(k) \/ k = j) BY <1>1 DEF Open
  <1>5. \A d \in Clients, k \in Jobs :
            Dispatches(d, k)' => \/ d = c /\ k = j
                                 \/ /\ d # c /\ k # j
                                    /\ Dispatches(d, k) /\ client'[d] = client[d]
    BY DEF Dispatches
  <1>6. RootsAreOpen'
    <2>1. \A k \in Jobs : rec[k].root \in Jobs BY <1>0 DEF TypeOK, Record
    <2> QED BY <1>1, <1>4, <2>1 DEF RootsAreOpen, LInv
  <1>7. PidsWereBorn' BY <1>1 DEF PidsWereBorn, LInv
  <1>8. OneDispatcher' BY <1>5 DEF OneDispatcher, LInv
  <1>9. OneWorker' BY <1>3 DEF OneWorker, LInv
  <1>10. HandsOfWorkers' BY <1>1, <1>2, <1>3, <1>4 DEF HandsOfWorkers, LInv
  <1>11. HandsOfDispatchers'
    <2>1. DispatcherOf(c, j)' BY <1>1, <1>2, <1>3, <1>4 DEF DispatcherOf
    <2>2. ASSUME NEW d \in Clients, NEW k \in Jobs, k # j, Dispatches(d, k),
                 client'[d] = client[d]
          PROVE  DispatcherOf(d, k)'
      <3>1. DispatcherOf(d, k) BY <2>2 DEF LInv, HandsOfDispatchers
      <3> QED BY <1>1, <1>3, <1>4, <2>2, <3>1 DEF DispatcherOf
    <2> QED BY <1>5, <2>1, <2>2 DEF HandsOfDispatchers
  <1>12. LineageExclusive'
    <2>1. Alive' = Alive BY DEF Alive
    <2>2. ASSUME NEW k \in Jobs, k # j, Active(k)' PROVE Active(k) /\ rec'[k] = rec[k]
      BY <1>1, <2>1, <2>2 DEF Active, IsActive, EffectiveStatus, WorkerGone, StoredActive
    <2> QED BY <1>1, <2>2 DEF LineageExclusive, LInv
  <1> QED BY <1>6, <1>7, <1>8, <1>9, <1>10, <1>11, <1>12 DEF LInv

LEMMA CreateLineage ==
    ASSUME IInv, LInv, NEW c \in Clients, TaskCreate(c)
    PROVE  LInv'
  <1>0. TypeOK /\ ClientHasJob /\ ReservationHeld BY DEF IInv
  <1> SUFFICES ASSUME NEW j \in Jobs, j = client[c].job,
                      NEW r, r = Touched([rec[j] EXCEPT !.status = "queued"])
               PROVE  LInv'
    BY <1>0 DEF TaskCreate, ClientHasJob
  <1>1. /\ rec[j] \in Record /\ rec[j].status = "reserved"
        /\ Dispatches(c, j) /\ client[c].pc = "creating"
    BY <1>0 DEF TaskCreate, ReservationHeld, Dispatches, TypeOK
  <1>2. ~Open(j) BY <1>1 DEF Open
  <1>3. rec[j].root = j /\ rec[j].pid = None BY <1>1, <1>2 DEF LInv, RootsAreOpen
  <1>4. rec' = [rec EXCEPT ![j] = r] /\ worker' = worker BY DEF TaskCreate
  <1>5. r.status = "queued" /\ r.pid = None /\ r.root = j
    BY <1>1, <1>3 DEF Touched, Record
  <1>6. \A k \in Jobs : Active(k) => rec[k].root # r.root
    BY <1>2, <1>5, ActiveIs DEF LInv, RootsAreOpen, StoredActive, Open
  <1>7. client'[c].pc = "spawning" /\ client'[c].job = j
    BY <1>0 DEF TaskCreate, TypeOK
  <1>8. \A d \in Clients : d # c => client'[d] = client[d] /\ ~Dispatches(d, j)
    BY <1>0, <1>1 DEF TaskCreate, TypeOK, LInv, OneDispatcher
  <1> QED BY <1>2, <1>4, <1>5, <1>6, <1>7, <1>8, OpensLineage

LEMMA ResumeLineage ==
    ASSUME IInv, LInv, NEW c \in Clients, NEW j \in Jobs, NEW src \in Jobs,
           NEW bare \in BOOLEAN, ResumeCreate(c, src, j, bare)
    PROVE  LInv'
  <1> SUFFICES ASSUME NEW r,
                      r = [NewFile(j) EXCEPT !.status = "queued", !.root = rec[src].root]
               PROVE  LInv'
    OBVIOUS
  <1>0. TypeOK /\ ReservationHeld /\ rec[src] \in Record BY DEF IInv, TypeOK
  <1>1. rec[j].status = "absent" /\ ~Open(j) BY DEF ResumeCreate, Open
  <1>2. rec' = [rec EXCEPT ![j] = r] /\ worker' = worker BY DEF ResumeCreate
  <1>3. r.status = "queued" /\ r.pid = None /\ r.root = rec[src].root /\ r.root \in Jobs
    BY <1>0 DEF NewFile, Record
  <1>4. Open(r.root)
    <2>1. Open(src) BY DEF ResumeCreate, ResumeSource, Readable, Open
    <2> QED BY <1>3, <2>1 DEF LInv, RootsAreOpen
  <1>5. \A k \in Jobs : Active(k) => rec[k].root # r.root
    BY <1>3 DEF ResumeCreate, ResumeSource, NothingActive, LineageQuiet, Active
  <1>6. client'[c].pc = "spawning" /\ client'[c].job = j
    BY <1>0 DEF ResumeCreate, TypeOK
  <1>7. \A d \in Clients : d # c => client'[d] = client[d] /\ ~Dispatches(d, j)
    <2>1. \A d \in Clients : d # c => client'[d] = client[d]
      BY <1>0 DEF ResumeCreate, TypeOK
    <2>2. \A d \in Clients : ~Dispatches(d, j)
      BY <1>0, <1>1 DEF LInv, HandsOfDispatchers, DispatcherOf, Dispatches, ReservationHeld
    <2> QED BY <2>1, <2>2
  <1>8. ~Open(j) BY <1>1
  <1> QED
    BY ONLY IInv, LInv, c \in Clients, j \in Jobs,
            <1>2, <1>3, <1>4, <1>5, <1>6, <1>7, <1>8, OpensLineage

(* The child, on a Job on which there was none.                            *)
LEMMA SpawnLineage ==
    ASSUME IInv, LInv, NEW c \in Clients, NEW w \in Workers, SpawnWorker(c, w)
    PROVE  LInv'
  <1>0. TypeOK /\ ClientHasJob BY DEF IInv
  <1> SUFFICES ASSUME NEW j \in Jobs, j = client[c].job PROVE LInv'
    BY <1>0 DEF SpawnWorker, ClientHasJob
  <1>1. Dispatches(c, j) /\ client[c].pc = "spawning" /\ rec' = rec
    BY DEF SpawnWorker, Dispatches
  <1>2. /\ worker[w].pc = "unborn"
        /\ worker'[w].pc = "starting" /\ worker'[w].job = j
        /\ \A v \in Workers : v # w => worker'[v] = worker[v]
    BY <1>0 DEF SpawnWorker, TypeOK
  <1>3. /\ client'[c].pc = "recording" /\ client'[c].seen = w /\ client'[c].job = j
        /\ \A d \in Clients : d # c => client'[d] = client[d]
    BY <1>0 DEF SpawnWorker, TypeOK
  <1>4. DispatcherOf(c, j) BY <1>1 DEF LInv, HandsOfDispatchers
  <1>5. Open(j) /\ rec[j].pid = None /\ \A v \in Workers : ~On(v, j)
    BY <1>1, <1>4 DEF DispatcherOf
  <1>6. \A v \in Workers, k \in Jobs : On(v, k)' <=> (On(v, k) \/ (v = w /\ k = j))
    BY <1>2 DEF On
  <1>7. \A k \in Jobs : Open(k)' <=> Open(k) BY <1>1 DEF Open
  <1>8. \A d \in Clients, k \in Jobs :
            Dispatches(d, k)' => \/ d = c /\ k = j
                                 \/ /\ d # c /\ k # j
                                    /\ Dispatches(d, k) /\ client'[d] = client[d]
    BY <1>1, <1>3 DEF Dispatches, LInv, OneDispatcher
  <1>9. RootsAreOpen' /\ PidsWereBorn'
    <2>1. \A k \in Jobs : rec[k].pid \in Workers \cup {None} /\ rec[k].root \in Jobs
      BY <1>0 DEF TypeOK, Record
    <2>2. RootsAreOpen' BY <1>1, <1>7, <2>1 DEF LInv, RootsAreOpen
    <2>3. PidsWereBorn' BY <1>1, <1>2, <2>1 DEF LInv, PidsWereBorn
    <2> QED BY <2>2, <2>3
  <1>10. OneDispatcher' BY <1>8 DEF OneDispatcher, LInv
  <1>11. OneWorker' BY <1>5, <1>6 DEF OneWorker, LInv
  <1>12. HandsOfWorkers' BY <1>1, <1>5, <1>6, <1>7 DEF HandsOfWorkers, LInv
  <1>13. HandsOfDispatchers'
    <2>1. DispatcherOf(c, j)' BY <1>1, <1>2, <1>3, <1>5, <1>6, <1>7 DEF DispatcherOf
    <2>2. ASSUME NEW d \in Clients, NEW k \in Jobs, k # j, Dispatches(d, k),
                 client'[d] = client[d]
          PROVE  DispatcherOf(d, k)'
      <3>1. DispatcherOf(d, k) BY <2>2 DEF LInv, HandsOfDispatchers
      <3>2. client[d].pc = "recording" => client[d].seen \in Workers
        BY <1>0 DEF ClientHasJob
      <3> QED BY <1>1, <1>2, <1>6, <1>7, <2>2, <3>1, <3>2 DEF DispatcherOf
    <2> QED BY <1>8, <2>1, <2>2 DEF HandsOfDispatchers
  <1>14. LineageExclusive'
    <2>1. \A v \in Workers : v \in Alive' <=> (v \in Alive \/ v = w)
      BY <1>2 DEF Alive
    <2>2. ASSUME NEW k \in Jobs, Active(k)' PROVE Active(k)
      <3>1. rec[k].pid # w /\ rec[k].pid \in Workers \cup {None}
        BY <1>0, <1>2, NoneAssumption DEF LInv, PidsWereBorn, TypeOK, Record
      <3>2. WorkerGone(rec[k], Alive') <=> WorkerGone(rec[k], Alive)
        BY <2>1, <3>1 DEF WorkerGone
      <3> QED BY <1>1, <2>2, <3>2 DEF Active, IsActive, EffectiveStatus
    <2> QED BY <1>1, <2>2 DEF LineageExclusive, LInv
  <1> QED BY <1>9, <1>10, <1>11, <1>12, <1>13, <1>14 DEF LInv

(* The pid write of the dispatcher: it names the one worker that could be  *)
(* on the Job, and what was `queued` without a pid was active already.     *)
LEMMA RecordPidLineage ==
    ASSUME IInv, LInv, NEW c \in Clients, RecordPid(c)
    PROVE  LInv'
  <1>0. TypeOK /\ ClientHasJob BY DEF IInv
  <1> SUFFICES ASSUME NEW j \in Jobs, j = client[c].job,
                      NEW s \in Workers, s = client[c].seen
               PROVE  LInv'
    BY <1>0 DEF RecordPid, ClientHasJob
  <1>1. /\ rec[j] \in Record
        /\ Dispatches(c, j) /\ client[c].pc = "recording" /\ worker' = worker
    BY <1>0 DEF RecordPid, Dispatches, TypeOK
  <1>2. /\ client'[c].pc = "pruning"
        /\ \A d \in Clients : d # c => client'[d] = client[d]
    BY <1>0 DEF RecordPid, TypeOK
  <1>3. DispatcherOf(c, j) BY <1>1 DEF LInv, HandsOfDispatchers
  <1>4. ClientsStay BY <1>2 DEF ClientsStay
  <1>5. WorkersStay BY <1>1 DEF WorkersStay
  <1>6. CASE rec[j].status # "queued"
    <2>1. rec' = rec
      <3>1. rec' = [rec EXCEPT ![j] = rec[j]] BY <1>6 DEF RecordPid, CasUpdate
      <3> QED BY <1>0, <3>1 DEF TypeOK
    <2> QED BY <1>0, <1>4, <1>5, <2>1, NoRecordStaysPut, LineagesStay
  <1>7. CASE rec[j].status = "queued"
    <2> DEFINE r == Touched([rec[j] EXCEPT !.pid = s])
    <2>1. rec' = [rec EXCEPT ![j] = r] BY <1>7 DEF RecordPid, CasUpdate
    <2>2. r.status = "queued" /\ r.pid = s /\ r.root = rec[j].root
      BY <1>1, <1>7 DEF Touched, Record
    <2> HIDE DEF r
    <2>3. rec'[j] = r /\ \A k \in Jobs : k # j => rec'[k] = rec[k]
      BY <1>0, <2>1 DEF TypeOK
    <2>4. /\ Open(j) /\ rec[j].pid = None /\ worker[s].pc # "unborn"
          /\ \A v \in Workers : On(v, j) => v = s
      BY <1>1, <1>3, <1>7 DEF DispatcherOf
    <2>5. \A v \in Workers, k \in Jobs : On(v, k)' <=> On(v, k) BY <1>1 DEF On
    <2>6. \A k \in Jobs : Open(k)' <=> Open(k) BY <1>7, <2>2, <2>3 DEF Open
    <2>7. \A d \in Clients, k \in Jobs :
              Dispatches(d, k)' => /\ Dispatches(d, k) /\ client'[d] = client[d]
                                   /\ d # c /\ k # j
      BY <1>1, <1>2 DEF Dispatches, LInv, OneDispatcher
    <2>8. RootsAreOpen' /\ PidsWereBorn'
      <3>1. \A k \in Jobs : rec[k].root \in Jobs BY <1>0 DEF TypeOK, Record
      <3>2. RootsAreOpen' BY <2>2, <2>3, <2>4, <2>6, <3>1 DEF LInv, RootsAreOpen
      <3>3. PidsWereBorn' BY <1>1, <2>2, <2>3, <2>4 DEF LInv, PidsWereBorn
      <3> QED BY <3>2, <3>3
    <2>9. OneDispatcher' /\ OneWorker' BY <2>5, <2>7 DEF OneDispatcher, OneWorker, LInv
    <2>10. HandsOfWorkers' BY <2>2, <2>3, <2>4, <2>5, <2>6 DEF HandsOfWorkers, LInv
    <2>11. ASSUME NEW d \in Clients, NEW k \in Jobs, k # j, Dispatches(d, k),
                  client'[d] = client[d]
           PROVE  DispatcherOf(d, k)'
      <3>1. DispatcherOf(d, k) BY <2>11 DEF LInv, HandsOfDispatchers
      <3> QED BY <1>1, <2>3, <2>5, <2>6, <2>11, <3>1 DEF DispatcherOf
    <2>12. HandsOfDispatchers' BY <2>7, <2>11 DEF HandsOfDispatchers
    <2>13. LineageExclusive'
      <3>1. Active(j) BY <1>1, <1>7, <2>4, ActiveIs DEF StoredActive, WorkerGone
      <3>2. Alive' = Alive BY <1>1 DEF Alive
      <3>3. ASSUME NEW k \in Jobs, k # j, Active(k)' PROVE Active(k)
        BY <2>3, <3>2, <3>3 DEF Active, IsActive, EffectiveStatus, WorkerGone, StoredActive
      <3> QED BY <2>2, <2>3, <3>1, <3>3 DEF LineageExclusive, LInv
    <2> QED BY <2>8, <2>9, <2>10, <2>12, <2>13 DEF LInv
  <1> QED BY <1>6, <1>7

(* The claim: of a Job that was active, as the claimant lives and the      *)
(* record names nobody else.                                               *)
LEMMA ClaimLineage ==
    ASSUME IInv, LInv, NEW w \in Workers, Claim(w)
    PROVE  LInv'
  <1>0. TypeOK /\ ClientHasJob /\ WorkerHasJob BY DEF IInv
  <1> SUFFICES ASSUME NEW j \in Jobs, j = worker[w].job PROVE LInv'
    BY <1>0 DEF Claim, WorkerHasJob
  <1>1. /\ rec[j] \in Record /\ On(w, j) /\ client' = client
        /\ worker[w].pc = "starting" /\ w \in Alive
    BY <1>0 DEF Claim, On, TypeOK, Alive
  <1>2. ClientsStay BY <1>1 DEF ClientsStay
  <1>3. CASE ~Claimable(rec[j], Alive)
    <2>1. rec' = rec BY <1>3 DEF Claim
    <2>2. /\ worker'[w].pc = "gone"
          /\ \A v \in Workers : v # w => worker'[v] = worker[v]
      BY <1>0, <1>3 DEF Claim, TypeOK
    <2>3. WorkersStay BY <1>1, <2>2 DEF WorkersStay
    <2> QED BY <1>0, <1>2, <2>1, <2>3, NoRecordStaysPut, LineagesStay
  <1>4. CASE Claimable(rec[j], Alive)
    <2> DEFINE r == Touched([rec[j] EXCEPT !.status = "running", !.pid = w])
    <2>1. rec' = [rec EXCEPT ![j] = r] BY <1>4 DEF Claim
    <2>2. r.status = "running" /\ r.pid = w /\ r.root = rec[j].root
      BY <1>1 DEF Touched, Record
    <2> HIDE DEF r
    <2>3. rec'[j] = r /\ \A k \in Jobs : k # j => rec'[k] = rec[k]
      BY <1>0, <1>1, <2>1 DEF TypeOK
    <2>4. /\ worker'[w].pc = "claimed" /\ worker'[w].job = j
          /\ \A v \in Workers : v # w => worker'[v] = worker[v]
      BY <1>0, <1>4 DEF Claim, TypeOK
    <2>5. Open(j) /\ rec[j].pid \in {None, w} BY <1>1 DEF LInv, HandsOfWorkers
    <2>6. \A v \in Workers, k \in Jobs : On(v, k)' <=> On(v, k) BY <1>1, <2>4 DEF On
    <2>7. \A k \in Jobs : Open(k)' <=> Open(k) BY <2>2, <2>3, <2>5 DEF Open
    <2>8. \A v \in Workers : On(v, j) => v = w BY <1>1 DEF LInv, OneWorker
    <2>9. \A v \in Workers : /\ v \in Alive' <=> v \in Alive
                             /\ worker'[v].pc = "unborn" <=> worker[v].pc = "unborn"
      BY <1>1, <2>4 DEF Alive
    <2>10. RootsAreOpen'
      <3>1. \A k \in Jobs : rec[k].root \in Jobs BY <1>0 DEF TypeOK, Record
      <3> QED BY <2>2, <2>3, <2>5, <2>7, <3>1 DEF LInv, RootsAreOpen
    <2>11. PidsWereBorn'
      <3>1. \A k \in Jobs : rec[k].pid \in Workers \cup {None} BY <1>0 DEF TypeOK, Record
      <3> QED BY <1>1, <2>2, <2>3, <2>4, <2>9, <3>1 DEF LInv, PidsWereBorn
    <2>12. OneDispatcher' BY <1>1 DEF OneDispatcher, Dispatches, LInv
    <2>13. OneWorker' BY <2>6 DEF OneWorker, LInv
    <2>14. HandsOfWorkers' BY <2>2, <2>3, <2>6, <2>7, <2>8 DEF HandsOfWorkers, LInv
    <2>15. HandsOfDispatchers'
      <3> SUFFICES ASSUME NEW d \in Clients, NEW k \in Jobs, Dispatches(d, k)'
                   PROVE  DispatcherOf(d, k)'
        BY DEF HandsOfDispatchers
      <3>1. Dispatches(d, k) BY <1>1 DEF Dispatches
      <3>2. DispatcherOf(d, k) BY <3>1 DEF LInv, HandsOfDispatchers
      <3>3. client[d].pc = "recording" => client[d].seen \in Workers
        BY <1>0 DEF ClientHasJob
      <3>4. CASE k # j BY <1>1, <2>3, <2>6, <2>7, <2>9, <3>2, <3>3, <3>4 DEF DispatcherOf
      <3>5. CASE k = j
        BY <1>1, <2>2, <2>3, <2>6, <2>7, <2>9, <3>2, <3>3, <3>5 DEF DispatcherOf
      <3> QED BY <3>4, <3>5
    <2>16. LineageExclusive'
      <3>1. Active(j)
        <4>1. StoredActive(rec[j]) BY <1>4 DEF Claimable, StoredActive
        <4>2. ~WorkerGone(rec[j], Alive) BY <1>1, <2>5 DEF WorkerGone
        <4> QED BY <1>1, <4>1, <4>2, ActiveIs
      <3>2. Alive' = Alive BY <2>9 DEF Alive
      <3>3. ASSUME NEW k \in Jobs, k # j, Active(k)' PROVE Active(k)
        BY <2>3, <3>2, <3>3 DEF Active, IsActive, EffectiveStatus, WorkerGone, StoredActive
      <3> QED BY <2>2, <2>3, <3>1, <3>3 DEF LineageExclusive, LInv
    <2> QED BY <2>10, <2>11, <2>12, <2>13, <2>14, <2>15, <2>16 DEF LInv
  <1> QED BY <1>3, <1>4

LEMMA InitLineage == Init => LInv
  BY DEF Init, LInv, RootsAreOpen, PidsWereBorn, OneDispatcher, OneWorker, HandsOfWorkers,
         HandsOfDispatchers, LineageExclusive, Dispatches, On, Active, IsActive,
         EffectiveStatus, StoredActive, NewFile

LEMMA StutterLineage == LInv /\ UNCHANGED vars => LInv'
  BY DEF vars, LInv, RootsAreOpen, PidsWereBorn, OneDispatcher, OneWorker, HandsOfWorkers,
         HandsOfDispatchers, DispatcherOf, LineageExclusive, Dispatches, On, Open, Active,
         Alive

LEMMA NextLineage ==
    ASSUME ~AllowRelaunch, IInv, LInv, [Next]_vars
    PROVE  LInv'
  <1>1. ASSUME NEW c \in Clients, ClientStarts(c) PROVE LInv'
    BY <1>1, ReserveLineage, ResumeLineage, ClientLetsGo DEF ClientStarts
  <1>2. ASSUME NEW c \in Clients, ClientContinues(c) PROVE LInv'
    BY <1>2, CreateLineage, SpawnLineage, RecordPidLineage, ClientLetsGo DEF ClientContinues
  <1>3. ASSUME NEW c \in Clients, ClientCrash(c) PROVE LInv' BY <1>3, ClientLetsGo
  <1>4. ASSUME NEW w \in Workers, WorkerContinues(w) PROVE LInv'
    BY <1>4, ClaimLineage, WorkerLetsGo DEF WorkerContinues
  <1>5. ASSUME NEW w \in Workers, WorkerLoops(w) PROVE LInv'
    BY <1>5, WorkerLetsGo DEF WorkerLoops, Relaunch
  <1>6. ASSUME NEW j \in Jobs, GracePasses(j) PROVE LInv' BY <1>6, GraceLetsGo
  <1>7. CASE UNCHANGED vars BY <1>7, StutterLineage
  <1> QED BY <1>1, <1>2, <1>3, <1>4, <1>5, <1>6, <1>7 DEF Next

(* A lineage has at most one active Job, however resumes, dispatches,      *)
(* crashes and cancels interleave: `JobStore.create_resume` decides and    *)
(* creates under one lock.  Where nobody runs `task-worker` a second time: *)
(* the reclaim of a crashed Job asks nothing of its lineage.               *)
THEOREM LineageExclusion ==
    ASSUME ~AllowRelaunch PROVE Spec => []LineageExclusive
  <1>1. Init => IInv /\ LInv BY InitInv, InitLineage
  <1>2. IInv /\ LInv /\ [Next]_vars => (IInv /\ LInv)' BY NextInv, NextLineage
  <1>3. LInv => LineageExclusive BY DEF LInv
  <1> QED BY <1>1, <1>2, <1>3, PTL DEF Spec
=============================================================================
