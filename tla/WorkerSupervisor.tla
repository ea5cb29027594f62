-------------------------- MODULE WorkerSupervisor --------------------------
(***************************************************************************)
(* The main process's supervisor of the one background worker: forking,    *)
(* health, restarts with an attempt limit, and the requests in flight.     *)
(*                                                                         *)
(*   src/src/adapters/electron/workerSupervisor.ts                         *)
(*   src/src/adapters/electron/workerHost.ts   the fork itself             *)
(*                                                                         *)
(* Main is one event loop: each event handler, timer or call runs alone    *)
(* and is one action.  A worker process lives beside it: it starts,        *)
(* answers, and dies whenever it likes, and main learns of it from events, *)
(* later.                                                                  *)
(***************************************************************************)
EXTENDS Integers, FiniteSets

CONSTANTS
  MaxForks,     \* a bound on the processes ever forked
  Callers,      \* requests main's gateways and probes make, one each
  MaxRestartAttempts,
  StartsAgain,  \* may start() be called again?  main.ts calls it once
  NoWorker      \* `undefined'

ASSUME ConstantsAssumption ==
  /\ MaxForks \in Nat
  /\ MaxRestartAttempts \in Nat
  /\ StartsAgain \in BOOLEAN
  /\ NoWorker \notin Nat

\* Processes, in the order they are forked.
Forks == 1..MaxForks

VARIABLES
  procs,      \* what became of each process, as the system knows it
  worker,     \* the process main tracks
  health,     \* what main says of it
  stopping,
  restartAttempts,
  restartTimer,   \* is a backoff timer set?
  nextRequestId,
  pending,    \* the map from request ids to who waits
  callers,    \* what each request got
  inbox       \* requests a process has and has not answered

procVars == <<procs, inbox>>
vars == <<procs, worker, health, stopping, restartAttempts, restartTimer, nextRequestId,
          pending, callers, inbox>>

Alive == {p \in Forks : procs[p].life \in {"LAUNCHING", "RUNNING"}}

\* A bound: starts that throw after the limit still count up.
AttemptBound == MaxRestartAttempts + 2

\* The requests there can be: each caller makes one.
Request == [id : 1..Cardinality(Callers), from : Callers]

Proc   == [life : {"UNFORKED", "LAUNCHING", "RUNNING", "DEAD", "REAPED"},
           killed : BOOLEAN, spawnDue : BOOLEAN]
Caller == [got : {"NOTHING", "WAITING", "REPLY", "TIMEOUT", "EXITED", "NOT_RUNNING", "SHUT_DOWN"},
           reply : Callers \cup {NoWorker}]

TypeOK ==
  /\ procs \in [Forks -> Proc]
  /\ worker \in Forks \cup {NoWorker}
  /\ health \in {"STARTING", "HEALTHY", "DEGRADED", "STOPPED"}
  /\ stopping \in BOOLEAN
  /\ restartAttempts \in Nat
  /\ restartTimer \in BOOLEAN
  /\ nextRequestId \in Nat
  /\ pending \subseteq [id : Nat, from : Callers]
  /\ callers \in [Callers -> Caller]
  /\ inbox \in [Forks -> SUBSET [id : Nat, from : Callers]]

Init ==
  /\ procs = [p \in Forks |-> [life |-> "UNFORKED", killed |-> FALSE, spawnDue |-> FALSE]]
  /\ worker = NoWorker
  /\ health = "STOPPED"
  /\ stopping = FALSE
  /\ restartAttempts = 0
  /\ restartTimer = FALSE
  /\ nextRequestId = 1
  /\ pending = {}
  /\ callers = [c \in Callers |-> [got |-> "NOTHING", reply |-> NoWorker]]
  /\ inbox = [p \in Forks |-> {}]

-----------------------------------------------------------------------------
(* What the supervisor's methods share. *)

\* Mistaken forms of the next two: giving up without saying so; the map
\* cleared and those who wait forgotten.
ScheduleRestartSilently(timerSet) ==
  /\ restartAttempts' = IF timerSet THEN restartAttempts ELSE restartAttempts + 1
  /\ restartTimer' = (timerSet \/ restartAttempts < MaxRestartAttempts)
  /\ health' = "DEGRADED"
ForgetPending(why) == pending' = {} /\ UNCHANGED callers

\* setHealth(DEGRADED), then scheduleRestart: a timer that is set stays the
\* one; else one more attempt, or STOPPED for good when there were enough.
ScheduleRestart(timerSet) ==
  LET more == timerSet \/ restartAttempts < MaxRestartAttempts IN
  /\ restartAttempts' = IF timerSet THEN restartAttempts ELSE restartAttempts + 1
  /\ restartTimer' = more
  /\ health' = IF more THEN "DEGRADED" ELSE "STOPPED"

\* failAllPending: every waiting request is rejected and its timer cleared.
FailAllPending(why) ==
  /\ pending' = {}
  /\ callers' = [c \in Callers |->
                   IF \E r \in pending : r.from = c THEN [callers[c] EXCEPT !.got = why]
                   ELSE callers[c]]

\* start: nothing when stopping or when a worker is tracked; else it forks, or
\* the fork throws.
StartForks ==
  \E p \in Forks :
    /\ procs[p].life = "UNFORKED"
    /\ \A q \in Forks : q < p => procs[q].life # "UNFORKED"
    /\ procs' = [procs EXCEPT ![p].life = "LAUNCHING"]
    /\ worker' = p
    /\ health' = "STARTING"

-----------------------------------------------------------------------------
(* Calls and events in main. *)

\* Mistaken forms: a tracked worker, or a shutdown, is not looked for.
MayStartUnlessStopping == ~stopping
MayStartUnlessTracked == worker = NoWorker

MayStart == ~stopping /\ worker = NoWorker

NeverStarted == restartAttempts = 0 /\ \A p \in Forks : procs[p].life = "UNFORKED"

\* start(), called by whoever wants the worker there.
Start ==
  /\ StartsAgain \/ NeverStarted
  /\ MayStart
  /\ StartForks
  /\ UNCHANGED <<stopping, restartAttempts, restartTimer, nextRequestId, pending, callers,
                 inbox>>

StartThrows ==
  /\ StartsAgain \/ NeverStarted
  /\ MayStart
  /\ restartAttempts < AttemptBound
  /\ ScheduleRestart(restartTimer)
  /\ UNCHANGED <<procs, worker, stopping, nextRequestId, pending, callers, inbox>>

\* The backoff timer: start('restart'), which may find a worker there already.
RestartFires ==
  /\ restartTimer
  /\ IF MayStart
       THEN StartForks /\ restartTimer' = FALSE /\ UNCHANGED restartAttempts
       ELSE restartTimer' = FALSE /\ UNCHANGED <<procs, worker, health, restartAttempts>>
  /\ UNCHANGED <<stopping, nextRequestId, pending, callers, inbox>>

\* The same, and the fork throws.
RestartThrows ==
  /\ restartTimer
  /\ MayStart
  /\ ScheduleRestart(FALSE)
  /\ UNCHANGED <<procs, worker, stopping, nextRequestId, pending, callers, inbox>>

\* 'spawn' of the tracked worker resets the attempts; of another, nothing.
SpawnEvent(p) ==
  /\ procs[p].spawnDue
  /\ procs' = [procs EXCEPT ![p].spawnDue = FALSE]
  /\ IF worker = p THEN restartAttempts' = 0 /\ health' = "HEALTHY"
     ELSE UNCHANGED <<restartAttempts, health>>
  /\ UNCHANGED <<worker, stopping, restartTimer, nextRequestId, pending, callers, inbox>>

\* 'exit' of the tracked worker: nobody is tracked, every waiting request is
\* rejected, and a restart is scheduled.  Of another, nothing.
ExitEvent(p) ==
  /\ procs[p].life = "DEAD"
  /\ ~procs[p].spawnDue
  /\ procs' = [procs EXCEPT ![p].life = "REAPED"]
  /\ IF worker = p
       THEN /\ worker' = NoWorker
            /\ FailAllPending("EXITED")
            /\ ScheduleRestart(restartTimer)
       ELSE UNCHANGED <<worker, pending, callers, health, restartAttempts, restartTimer>>
  /\ UNCHANGED <<stopping, nextRequestId, inbox>>

\* A mistaken form: an id counted by what is pending, so that one comes again.
FreshIdByPending == Cardinality(pending) + 1

FreshId == nextRequestId

\* request(): refused when nothing is tracked; else a fresh id, a timer, and
\* the message to the process, launched or not.
MakeRequest(c) ==
  /\ callers[c].got = "NOTHING"
  /\ IF worker = NoWorker
       THEN /\ callers' = [callers EXCEPT ![c].got = "NOT_RUNNING"]
            /\ UNCHANGED <<nextRequestId, pending, inbox>>
       ELSE LET r == [id |-> FreshId, from |-> c] IN
            /\ nextRequestId' = nextRequestId + 1
            /\ pending' = {q \in pending : q.id # r.id} \cup {r}
            /\ callers' = [callers EXCEPT ![c].got = "WAITING"]
            /\ inbox' = [inbox EXCEPT ![worker] = @ \cup {r}]
  /\ UNCHANGED <<procs, worker, health, stopping, restartAttempts, restartTimer>>

\* The request's own timer.  The worker may still be at work on it.
TimesOut(r) ==
  /\ r \in pending
  /\ pending' = pending \ {r}
  /\ callers' = [callers EXCEPT ![r.from].got = "TIMEOUT"]
  /\ health' = "DEGRADED"
  /\ UNCHANGED <<procs, worker, stopping, restartAttempts, restartTimer, nextRequestId, inbox>>

\* A reply of p reaches main; only the tracked worker is listened to, and only
\* for an id that somebody still waits for.
ReplyArrives(p, r) ==
  /\ procs[p].life \in {"RUNNING", "DEAD"}
  /\ r \in inbox[p]
  /\ inbox' = [inbox EXCEPT ![p] = @ \ {r}]
  /\ IF worker = p
       THEN /\ pending' = {q \in pending : q.id # r.id}
            /\ callers' = [c \in Callers |->
                             IF [id |-> r.id, from |-> c] \in pending
                               THEN [got |-> "REPLY", reply |-> r.from] ELSE callers[c]]
       ELSE UNCHANGED <<pending, callers>>
  /\ UNCHANGED <<procs, worker, health, stopping, restartAttempts, restartTimer, nextRequestId>>

\* stop(), from before-quit: the restart is cancelled, the waiting requests are
\* rejected, the worker is killed and no longer tracked.
Stop ==
  /\ ~stopping
  /\ stopping' = TRUE
  /\ restartTimer' = FALSE
  /\ FailAllPending("SHUT_DOWN")
  /\ worker' = NoWorker
  /\ procs' = [p \in Forks |-> [procs[p] EXCEPT !.killed = @ \/ p = worker]]
  /\ health' = "STOPPED"
  /\ UNCHANGED <<restartAttempts, nextRequestId, inbox>>

-----------------------------------------------------------------------------
(* The process. *)

\* The system has launched it: its 'spawn' is on the way to main.
Launch(p) ==
  /\ procs[p].life = "LAUNCHING"
  /\ procs' = [procs EXCEPT ![p].life = "RUNNING", ![p].spawnDue = TRUE]
  /\ UNCHANGED <<worker, health, stopping, restartAttempts, restartTimer, nextRequestId,
                 pending, callers, inbox>>

\* It crashes, was killed, or never got as far as being launched.
Die(p) ==
  /\ p \in Alive
  /\ procs' = [procs EXCEPT ![p].life = "DEAD"]
  /\ UNCHANGED <<worker, health, stopping, restartAttempts, restartTimer, nextRequestId,
                 pending, callers, inbox>>

Next ==
  \/ Start \/ StartThrows \/ RestartFires \/ RestartThrows \/ Stop
  \/ \E c \in Callers : MakeRequest(c)
  \/ \E r \in Request : TimesOut(r)
  \/ \E p \in Forks :
       SpawnEvent(p) \/ ExitEvent(p) \/ Launch(p) \/ Die(p) \/ \E r \in Request : ReplyArrives(p, r)

Spec == Init /\ [][Next]_vars

\* A request's timer fires unless it is cleared.
LiveSpec == Spec /\ \A r \in Request : WF_vars(TimesOut(r))

-----------------------------------------------------------------------------
(* What holds. *)

\* One worker for the application's lifetime (workerSupervisor.ts:15): however
\* often start is called, timers fire and workers die, two processes never
\* live beside each other, or two handlers would share the wallet's nonce.  A
\* live process that main does not track is one it has killed.
OneWorkerLives ==
  /\ Cardinality(Alive) <= 1
  /\ \A p \in Alive : worker = p \/ procs[p].killed

\* Shutdown is final (workerSupervisor.ts:22): nothing is tracked or waited
\* for, no timer is set and no late event moves the health again.
StoppedForGood ==
  stopping => worker = NoWorker /\ ~restartTimer /\ pending = {} /\ health = "STOPPED"

\* Health is not silent about a missing worker: HEALTHY is said only of a
\* tracked worker that reported in, and when none is tracked either a restart
\* is due or the member is told STOPPED.
MissingWorkerShows ==
  /\ health = "HEALTHY" => worker # NoWorker /\ procs[worker].life # "LAUNCHING"
  /\ worker = NoWorker => restartTimer \/ health = "STOPPED"

\* A reply goes to the request it answers, however late it comes and whatever
\* other requests timed out meanwhile.
RepliesMatch ==
  \A c \in Callers : callers[c].got = "REPLY" => callers[c].reply = c

\* Every request comes to an end: an answer, a timeout, an exit or a shutdown.
EveryRequestSettles ==
  \A c \in Callers : callers[c].got = "WAITING" ~> callers[c].got # "WAITING"
=============================================================================
