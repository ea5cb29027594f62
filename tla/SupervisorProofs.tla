-------------------------- MODULE SupervisorProofs --------------------------
(***************************************************************************)
(* What WorkerSupervisor promises, for any number of forks, requests and   *)
(* restarts allowed.                                                       *)
(***************************************************************************)
EXTENDS WorkerSupervisor, FiniteSetTheorems, TLAPS

\* A process is killed only by a shutdown, and its 'spawn' is on the way only
\* once it was launched.
Processes ==
  \A p \in Forks : /\ procs[p].killed => stopping
                   /\ procs[p].spawnDue => procs[p].life \notin {"UNFORKED", "LAUNCHING"}

\* Who lives is tracked or killed, and alone.
Tracked ==
  /\ \A p \in Alive : worker = p \/ procs[p].killed
  /\ \A p, q \in Alive : p = q

\* Nobody waits on a worker that is not tracked.
NobodyWaits == worker = NoWorker => pending = {}

\* Every request there is, waiting or in some process, and its id.
Made == pending \cup UNION {inbox[p] : p \in Forks}

\* Ids are never given twice.
IdsUnique ==
  /\ \A r \in Made : r.id < nextRequestId
  /\ \A q, r \in Made : q.id = r.id => q = r

IInv == TypeOK /\ Processes /\ Tracked /\ NobodyWaits /\ IdsUnique
        /\ StoppedForGood /\ MissingWorkerShows /\ RepliesMatch

USE ConstantsAssumption DEF Forks

LEMMA InitHolds == Init => IInv
<1>. SUFFICES ASSUME Init PROVE IInv
  OBVIOUS
<1>1. TypeOK
  BY DEF Init, TypeOK, Proc, Caller
<1>2. Processes /\ Tracked /\ NobodyWaits /\ StoppedForGood /\ MissingWorkerShows /\ RepliesMatch
  BY DEF Init, Processes, Tracked, NobodyWaits, StoppedForGood, MissingWorkerShows, RepliesMatch,
         Alive
<1>3. IdsUnique
  BY DEF Init, IdsUnique, Made
<1>. QED
  BY <1>1, <1>2, <1>3 DEF IInv

-----------------------------------------------------------------------------
\* A fork: nobody lives when main may start one.
LEMMA ForkHolds ==
  ASSUME IInv, MayStart, StartForks, restartTimer' \in BOOLEAN, restartAttempts' \in Nat,
         UNCHANGED <<stopping, nextRequestId, pending, callers, inbox>>
  PROVE  IInv'
<1>1. PICK p \in Forks :
        /\ procs[p].life = "UNFORKED"
        /\ procs' = [procs EXCEPT ![p].life = "LAUNCHING"]
        /\ worker' = p
        /\ health' = "STARTING"
  BY DEF StartForks
<1>2. Alive = {}
  BY DEF IInv, Processes, Tracked, MayStart, Alive
<1>3. Alive' = {p}
  BY <1>1, <1>2 DEF Alive, IInv, TypeOK
<1>4. TypeOK'
  BY <1>1 DEF IInv, TypeOK, Proc
<1>5. Processes'
  BY <1>1 DEF IInv, TypeOK, Proc, Processes
<1>6. Tracked'
  BY <1>1, <1>3 DEF Tracked
<1>7. NobodyWaits' /\ StoppedForGood' /\ MissingWorkerShows' /\ RepliesMatch'
  BY <1>1 DEF IInv, NobodyWaits, StoppedForGood, MissingWorkerShows, RepliesMatch, MayStart
<1>8. IdsUnique'
  BY DEF IInv, IdsUnique, Made
<1>. QED
  BY <1>4, <1>5, <1>6, <1>7, <1>8 DEF IInv

\* A restart scheduled, or given up, when nobody is tracked and main is not
\* stopping.
LEMMA ScheduleHolds ==
  ASSUME IInv, ~stopping, worker' = NoWorker, pending' = {}, NEW timerSet \in BOOLEAN,
         ScheduleRestart(timerSet), procs' \in [Forks -> Proc], callers' \in [Callers -> Caller],
         Processes', Tracked', RepliesMatch', UNCHANGED <<stopping, nextRequestId, inbox>>
  PROVE  IInv'
<1>1. TypeOK'
  BY DEF IInv, TypeOK, ScheduleRestart
<1>2. NobodyWaits' /\ StoppedForGood' /\ MissingWorkerShows'
  BY DEF NobodyWaits, StoppedForGood, MissingWorkerShows, ScheduleRestart
<1>3. IdsUnique'
  BY DEF IInv, IdsUnique, Made
<1>. QED
  BY <1>1, <1>2, <1>3 DEF IInv

\* Rejecting every request is no reply.
LEMMA FailingIsNoReply ==
  ASSUME IInv, NEW why \in {"EXITED", "SHUT_DOWN"}, FailAllPending(why)
  PROVE  callers' \in [Callers -> Caller] /\ RepliesMatch'
  BY DEF IInv, TypeOK, Caller, FailAllPending, RepliesMatch

LEMMA StepHolds == IInv /\ [Next]_vars => IInv'
<1>. SUFFICES ASSUME IInv, [Next]_vars PROVE IInv'
  OBVIOUS
<1>1. CASE Start
  BY <1>1, ForkHolds DEF Start, IInv, TypeOK
<1>2. CASE StartThrows
  <2>1. pending = {} /\ restartTimer \in BOOLEAN /\ ~stopping /\ worker' = NoWorker
    BY <1>2 DEF StartThrows, MayStart, IInv, NobodyWaits, TypeOK
  <2>2. Processes' /\ Tracked' /\ RepliesMatch'
    BY <1>2 DEF StartThrows, IInv, Processes, Tracked, Alive, RepliesMatch
  <2>. QED
    BY <1>2, <2>1, <2>2, ScheduleHolds DEF StartThrows, IInv, TypeOK
<1>3. CASE RestartFires
  <2>1. CASE MayStart
    BY <1>3, <2>1, ForkHolds DEF RestartFires, IInv, TypeOK
  <2>2. CASE ~MayStart
    <3>1. stopping \/ worker # NoWorker
      BY <2>2 DEF MayStart
    <3>2. restartTimer' = FALSE /\ UNCHANGED <<procs, worker, health, restartAttempts, stopping,
                                              nextRequestId, pending, callers, inbox>>
      BY <1>3, <2>2 DEF RestartFires
    <3>3. TypeOK' /\ Processes' /\ Tracked' /\ NobodyWaits'
      BY <3>2 DEF IInv, TypeOK, Processes, Tracked, Alive, NobodyWaits
    <3>4. IdsUnique' /\ RepliesMatch'
      BY <3>2 DEF IInv, IdsUnique, Made, RepliesMatch
    <3>5. StoppedForGood' /\ MissingWorkerShows'
      BY <3>1, <3>2 DEF IInv, StoppedForGood, MissingWorkerShows
    <3>. QED
      BY <3>3, <3>4, <3>5 DEF IInv
  <2>. QED
    BY <2>1, <2>2
<1>4. CASE RestartThrows
  <2>1. pending = {} /\ ~stopping /\ worker' = NoWorker
    BY <1>4 DEF RestartThrows, MayStart, IInv, NobodyWaits
  <2>2. Processes' /\ Tracked' /\ RepliesMatch'
    BY <1>4 DEF RestartThrows, IInv, Processes, Tracked, Alive, RepliesMatch
  <2>. QED
    BY <1>4, <2>1, <2>2, ScheduleHolds DEF RestartThrows, IInv, TypeOK
<1>5. CASE Stop
  <2>1. procs' \in [Forks -> Proc] /\ Processes'
    BY <1>5 DEF Stop, IInv, TypeOK, Proc, Processes
  <2>2. Alive' = Alive
    BY <1>5 DEF Stop, IInv, TypeOK, Proc, Alive
  <2>3. Tracked'
    <3>1. \A q \in Forks : procs'[q].killed = (procs[q].killed \/ q = worker)
      BY <1>5 DEF Stop, IInv, TypeOK, Proc
    <3>2. \A q \in Alive : q \in Forks /\ procs'[q].killed
      BY <3>1 DEF IInv, Tracked, Alive
    <3>. QED
      BY <2>2, <3>2 DEF IInv, Tracked
  <2>4. callers' \in [Callers -> Caller] /\ RepliesMatch'
    BY <1>5, FailingIsNoReply DEF Stop
  <2>5. TypeOK' /\ NobodyWaits' /\ StoppedForGood' /\ MissingWorkerShows'
    BY <1>5, <2>1, <2>4 DEF Stop, FailAllPending, IInv, TypeOK, NobodyWaits, StoppedForGood,
                            MissingWorkerShows
  <2>6. IdsUnique'
    BY <1>5 DEF Stop, FailAllPending, IInv, IdsUnique, Made
  <2>. QED
    BY <2>1, <2>3, <2>4, <2>5, <2>6 DEF IInv
<1>6. ASSUME NEW c \in Callers, MakeRequest(c) PROVE IInv'
  <2>1. CASE worker = NoWorker
    <3>1. callers' = [callers EXCEPT ![c].got = "NOT_RUNNING"]
          /\ UNCHANGED <<nextRequestId, pending, inbox, procs, worker, health, stopping,
                         restartAttempts, restartTimer>>
      BY <1>6, <2>1 DEF MakeRequest
    <3>2. TypeOK' /\ RepliesMatch'
      BY <3>1 DEF IInv, TypeOK, Caller, RepliesMatch
    <3>. QED
      BY <3>1, <3>2 DEF IInv, Processes, Tracked, Alive, NobodyWaits, IdsUnique, Made,
                        StoppedForGood, MissingWorkerShows
  <2>2. CASE worker # NoWorker
    <3>. DEFINE r == [id |-> nextRequestId, from |-> c]
    <3>1. /\ nextRequestId' = nextRequestId + 1
          /\ pending' = {q \in pending : q.id # r.id} \cup {r}
          /\ callers' = [callers EXCEPT ![c].got = "WAITING"]
          /\ inbox' = [inbox EXCEPT ![worker] = @ \cup {r}]
          /\ UNCHANGED <<procs, worker, health, stopping, restartAttempts, restartTimer>>
      BY <1>6, <2>2 DEF MakeRequest, FreshId
    <3>2. worker \in Forks
      BY <2>2 DEF IInv, TypeOK
    <3>3. TypeOK' /\ RepliesMatch'
      BY <3>1, <3>2 DEF IInv, TypeOK, Caller, RepliesMatch
    <3>4. Made' \subseteq Made \cup {r}
      BY <3>1, <3>2 DEF Made, IInv, TypeOK
    <3>5. IdsUnique'
      <4>1. \A q \in Made : q.id \in Nat /\ q.id < nextRequestId
        BY DEF IInv, IdsUnique, Made, TypeOK
      <4>2. nextRequestId \in Nat /\ nextRequestId < nextRequestId + 1
        BY DEF IInv, TypeOK
      <4>. QED
        BY <3>1, <3>4, <4>1, <4>2 DEF IInv, IdsUnique
    <3>6. Processes' /\ Tracked' /\ NobodyWaits' /\ StoppedForGood' /\ MissingWorkerShows'
      BY <3>1, <2>2 DEF IInv, Processes, Tracked, Alive, NobodyWaits, StoppedForGood,
                        MissingWorkerShows
    <3>. QED
      BY <3>3, <3>5, <3>6 DEF IInv
  <2>. QED
    BY <2>1, <2>2
<1>7. ASSUME NEW r \in Request, TimesOut(r) PROVE IInv'
  <2>1. worker # NoWorker /\ ~stopping
    BY <1>7 DEF TimesOut, IInv, NobodyWaits, StoppedForGood
  <2>2. TypeOK' /\ RepliesMatch'
    BY <1>7 DEF TimesOut, IInv, TypeOK, Caller, Request, RepliesMatch
  <2>3. IdsUnique'
    BY <1>7 DEF TimesOut, IInv, IdsUnique, Made
  <2>4. Processes' /\ Tracked' /\ NobodyWaits' /\ StoppedForGood' /\ MissingWorkerShows'
    BY <1>7, <2>1 DEF TimesOut, IInv, Processes, Tracked, Alive, NobodyWaits, StoppedForGood,
                      MissingWorkerShows
  <2>. QED
    BY <2>2, <2>3, <2>4 DEF IInv
<1>8. ASSUME NEW p \in Forks, SpawnEvent(p) PROVE IInv'
  <2>1. procs' \in [Forks -> Proc] /\ Processes'
    BY <1>8 DEF SpawnEvent, IInv, TypeOK, Proc, Processes
  <2>2. Alive' = Alive /\ \A q \in Forks : procs'[q].killed = procs[q].killed
                                           /\ procs'[q].life = procs[q].life
    BY <1>8 DEF SpawnEvent, Alive, IInv, TypeOK, Proc
  <2>3. TypeOK' /\ Tracked' /\ NobodyWaits'
    BY <1>8, <2>1, <2>2 DEF SpawnEvent, IInv, TypeOK, Tracked, NobodyWaits, Alive
  <2>4. StoppedForGood'
    BY <1>8 DEF SpawnEvent, IInv, StoppedForGood
  <2>5. MissingWorkerShows'
    BY <1>8, <2>2 DEF SpawnEvent, IInv, MissingWorkerShows, Processes, TypeOK
  <2>6. IdsUnique' /\ RepliesMatch'
    BY <1>8 DEF SpawnEvent, IInv, IdsUnique, Made, RepliesMatch
  <2>. QED
    BY <2>1, <2>3, <2>4, <2>5, <2>6 DEF IInv
<1>9. ASSUME NEW p \in Forks, ExitEvent(p) PROVE IInv'
  <2>1. procs' \in [Forks -> Proc] /\ Processes'
    BY <1>9 DEF ExitEvent, IInv, TypeOK, Proc, Processes
  <2>2. /\ Alive' = Alive /\ p \notin Alive
        /\ \A q \in Forks : procs'[q].killed = procs[q].killed
    BY <1>9 DEF ExitEvent, Alive, IInv, TypeOK, Proc
  <2>3. CASE worker = p
    <3>1. ~stopping
      BY <2>3 DEF IInv, StoppedForGood
    <3>2. Tracked'
      BY <1>9, <2>2, <2>3 DEF IInv, Tracked, ExitEvent, Alive
    <3>3. callers' \in [Callers -> Caller] /\ RepliesMatch'
      BY <1>9, <2>3, FailingIsNoReply DEF ExitEvent
    <3>. QED
      BY <1>9, <2>1, <2>3, <3>1, <3>2, <3>3, ScheduleHolds
         DEF ExitEvent, FailAllPending, IInv, TypeOK
  <2>4. CASE worker # p
    <3>1. UNCHANGED <<worker, pending, callers, health, restartAttempts, restartTimer, stopping,
                      nextRequestId, inbox>>
      BY <1>9, <2>4 DEF ExitEvent
    <3>2. Tracked'
      BY <2>2, <3>1 DEF IInv, Tracked, Alive
    <3>3. MissingWorkerShows'
      BY <1>9, <2>4, <3>1 DEF ExitEvent, IInv, MissingWorkerShows, TypeOK
    <3>. QED
      BY <2>1, <3>1, <3>2, <3>3 DEF IInv, TypeOK, NobodyWaits, IdsUnique, Made, StoppedForGood,
                                    RepliesMatch
  <2>. QED
    BY <2>3, <2>4
<1>10. ASSUME NEW p \in Forks, Launch(p) \/ Die(p) PROVE IInv'
  <2>1. procs' \in [Forks -> Proc] /\ Processes'
    <3>1. CASE Launch(p)
      BY <3>1 DEF Launch, IInv, TypeOK, Proc, Processes
    <3>2. CASE Die(p)
      BY <3>2 DEF Die, IInv, TypeOK, Proc, Processes
    <3>. QED
      BY <1>10, <3>1, <3>2
  <2>2. Alive' \subseteq Alive /\ \A q \in Forks : procs'[q].killed = procs[q].killed
    BY <1>10, ZenonT(40) DEF Launch, Die, IInv, TypeOK, Proc, Alive
  <2>3. Tracked'
    BY <1>10, <2>2 DEF Launch, Die, IInv, Tracked, Alive
  <2>4. /\ worker' = worker /\ health' = health /\ restartTimer' = restartTimer
        /\ worker # NoWorker /\ procs[worker].life # "LAUNCHING" => procs'[worker].life # "LAUNCHING"
    BY <1>10 DEF Launch, Die, IInv, TypeOK, Proc
  <2>5. MissingWorkerShows'
    BY <2>4 DEF IInv, MissingWorkerShows
  <2>6. UNCHANGED <<worker, health, stopping, restartAttempts, restartTimer, nextRequestId, pending,
                    callers, inbox>>
    BY <1>10 DEF Launch, Die
  <2>7. TypeOK' /\ NobodyWaits' /\ IdsUnique' /\ StoppedForGood' /\ RepliesMatch'
    BY <2>1, <2>6 DEF IInv, TypeOK, NobodyWaits, IdsUnique, Made, StoppedForGood, RepliesMatch
  <2>. QED
    BY <2>1, <2>3, <2>5, <2>7 DEF IInv
<1>11. ASSUME NEW p \in Forks, NEW r \in Request, ReplyArrives(p, r) PROVE IInv'
  <2>1. r \in Made /\ inbox' = [inbox EXCEPT ![p] = @ \ {r}]
        /\ UNCHANGED <<procs, worker, health, stopping, restartAttempts, restartTimer, nextRequestId>>
    BY <1>11 DEF ReplyArrives, Made
  <2>2. pending' \subseteq pending /\ Made' \subseteq Made
    BY <1>11, <2>1 DEF ReplyArrives, Made, IInv, TypeOK
  <2>3. callers' \in [Callers -> Caller] /\ RepliesMatch'
    <3>1. CASE worker = p
      <4>1. callers' = [c \in Callers |->
                          IF [id |-> r.id, from |-> c] \in pending
                            THEN [got |-> "REPLY", reply |-> r.from] ELSE callers[c]]
        BY <1>11, <3>1 DEF ReplyArrives
      <4>2. \A c \in Callers : [id |-> r.id, from |-> c] \in pending => r.from = c
        <5>. SUFFICES ASSUME NEW c \in Callers, [id |-> r.id, from |-> c] \in pending
                      PROVE  r.from = c
          OBVIOUS
        <5>1. [id |-> r.id, from |-> c] \in Made
          BY DEF Made
        <5>2. [id |-> r.id, from |-> c] = r
          BY <2>1, <5>1 DEF IInv, IdsUnique
        <5>. QED
          BY <5>2
      <4>. QED
        BY <4>1, <4>2 DEF IInv, TypeOK, Caller, RepliesMatch, Request
    <3>2. CASE worker # p
      BY <1>11, <3>2 DEF ReplyArrives, IInv, TypeOK, RepliesMatch
    <3>. QED
      BY <3>1, <3>2
  <2>4. TypeOK'
    BY <2>1, <2>2, <2>3 DEF IInv, TypeOK
  <2>5. IdsUnique'
    BY <2>1, <2>2 DEF IInv, IdsUnique
  <2>6. Processes' /\ Tracked' /\ NobodyWaits' /\ StoppedForGood' /\ MissingWorkerShows'
    BY <2>1, <2>2 DEF IInv, Processes, Tracked, Alive, NobodyWaits, StoppedForGood,
                      MissingWorkerShows
  <2>. QED
    BY <2>3, <2>4, <2>5, <2>6 DEF IInv
<1>12. CASE UNCHANGED vars
  BY <1>12 DEF vars, IInv, TypeOK, Processes, Tracked, Alive, NobodyWaits, IdsUnique, Made,
               StoppedForGood, MissingWorkerShows, RepliesMatch
<1>. QED
  BY <1>1, <1>2, <1>3, <1>4, <1>5, <1>6, <1>7, <1>8, <1>9, <1>10, <1>11, <1>12 DEF Next

LEMMA InvHolds == Spec => []IInv
  BY InitHolds, StepHolds, PTL DEF Spec

-----------------------------------------------------------------------------
\* Every variable keeps to its type, for every number of forks, requests and
\* restarts.  (WorkerSupervisor's fields, workerSupervisor.ts:74-95)
THEOREM TypeCorrect == Spec => []TypeOK
<1>1. IInv => TypeOK
  BY DEF IInv
<1>. QED
  BY <1>1, InvHolds, PTL

\* Two workers never live beside each other, and one that main does not track
\* is killed, however starts, timers, exits and shutdown fall together.
THEOREM OneWorker == Spec => []OneWorkerLives
<1>1. IInv => OneWorkerLives
  <2>. SUFFICES ASSUME IInv PROVE OneWorkerLives
    OBVIOUS
  <2>1. Cardinality(Alive) <= 1
    <3>1. CASE Alive = {}
      BY <3>1, FS_EmptySet
    <3>2. CASE Alive # {}
      <4>1. PICK p \in Alive : TRUE
        BY <3>2
      <4>2. Alive = {p}
        BY <4>1 DEF IInv, Tracked
      <4>. QED
        BY <4>2, FS_Singleton
    <3>. QED
      BY <3>1, <3>2
  <2>. QED
    BY <2>1 DEF IInv, Tracked, OneWorkerLives
<1>. QED
  BY <1>1, InvHolds, PTL

\* Shutdown is final: no late event or timer undoes it.
THEOREM StoppedStays == Spec => []StoppedForGood
<1>1. IInv => StoppedForGood
  BY DEF IInv
<1>. QED
  BY <1>1, InvHolds, PTL

\* Health tells of a missing worker.
THEOREM MissingShows == Spec => []MissingWorkerShows
<1>1. IInv => MissingWorkerShows
  BY DEF IInv
<1>. QED
  BY <1>1, InvHolds, PTL

\* A reply, however late, goes to the request it answers: ids are never given
\* twice.
THEOREM RepliesMatchHolds == Spec => []RepliesMatch
<1>1. IInv => RepliesMatch
  BY DEF IInv
<1>. QED
  BY <1>1, InvHolds, PTL
=============================================================================
