------------------------------ MODULE Desktop ------------------------------
(* The application around the worker: the window's panels (renderer.ts),      *)
(* main's handlers and dialogs (ipcHandlers.ts, main.ts), the member key and  *)
(* its way to every new worker (safeStorageKeyStore.ts), and the worker's     *)
(* dispatch of a request up to its reply (worker.ts).                         *)
(*                                                                            *)
(* What the worker does with a form or an operation is FormOperations and     *)
(* WritePath; here it may refuse any request. Of a submission there remain    *)
(* the guard, the row it opens and whether a transaction left: the guard is   *)
(* passed some time before the row is open, so that two submissions may pass. *)
(* No row is closed: nothing in the application runs reconcileTransactions.   *)
EXTENDS Naturals, FiniteSets

CONSTANTS
  Ops,    \* operations a form of which is issued, filled in and returned
  Keys,   \* wallets that may be generated
  None,
  Slots   \* bound: calls between the window and the worker at a time

VARIABLES
  panel,      \* the window: what Send names and whether it may be pressed, the
              \* operation whose fields are shown, the buttons that wait
  calls,      \* the calls under way
  rows,       \* the worker's record of each operation
  posts,      \* how many transactions each operation posted
  inFlight,   \* operations an attempt of which is unresolved
  consents,   \* operations whose sending was confirmed since they were pressed
  main,       \* "off", "creating", "running"
  held,       \* the wallet main has decrypted
  generated,  \* the wallet being created
  file,       \* the stored wallet
  vault,      \* whether the system offers secure storage
  worker,     \* "down", "forked", "up"
  workerKey,  \* the wallet the worker signs with
  keyMessage  \* whether it has one still to read

window == <<panel, calls>>
records == <<rows, posts, inFlight, consents>>
wallet == <<main, held, generated, file, vault>>
process == <<worker, workerKey, keyMessage>>
vars == <<window, records, wallet, process>>

ASSUME DesktopAssumption == None \notin Ops \cup Keys /\ Slots \subseteq Nat

Panels == {"issue", "report", "import"}

WorkerRequests == Panels \cup {"submit"}

(* What a request is answered with when all went well, and what the worker    *)
(* may answer at all: the reply of another kind of request is not taken.      *)
Results == [issue |-> "ISSUED", report |-> "REPORTED", import |-> "IMPORTED", submit |-> "SENT"]
WorkerReplies == [kind \in WorkerRequests |-> {Results[kind], "REFUSED", "FAILED"}]

Closed == [armed |-> None, enabled |-> FALSE, shown |-> None, waiting |-> {}]

(* A call: which panel made it, for which operation, how far main is with it, *)
(* whether the page that made it is still there, and what the worker has.     *)
Free == [kind |-> "none", op |-> None, stage |-> "free", ours |-> FALSE, job |-> "none"]

Init ==
  /\ panel = Closed
  /\ calls = [s \in Slots |-> Free]
  /\ rows = [op \in Ops |-> "RECORDED"]
  /\ posts = [op \in Ops |-> 0]
  /\ inFlight = {}
  /\ consents = {}
  /\ main = "off" /\ held = None /\ generated = None /\ file = None /\ vault \in BOOLEAN
  /\ worker = "down" /\ workerKey = None /\ keyMessage = FALSE

-----------------------------------------------------------------------------
(* The window. A dialog is modal: nothing is pressed while one is open.       *)
DialogOpen == \E s \in Slots : calls[s].stage = "dialog"

CanPress == main = "running" /\ ~DialogOpen /\ \E s \in Slots : calls[s] = Free
NextSlot == CHOOSE s \in Slots : calls[s] = Free /\ \A t \in Slots : calls[t] = Free => s <= t

Call(kind, op) ==
  calls' = [calls EXCEPT ![NextSlot] =
              [kind |-> kind, op |-> op, stage |-> "dialog", ours |-> TRUE, job |-> "none"]]

(* issue, generateReport, importForm: the button waits. A new import clears   *)
(* the fields of the last and disarms Send.                                   *)
Press(button) ==
  /\ CanPress /\ button \notin panel.waiting
  /\ Call(button, None)
  /\ panel' = IF button = "import"
              THEN [armed |-> None, enabled |-> FALSE, shown |-> None,
                    waiting |-> panel.waiting \cup {"import"}]
              ELSE [panel EXCEPT !.waiting = @ \cup {button}]
  /\ UNCHANGED <<records, wallet, process>>

(* submitOperation: it names what is armed, and cannot be pressed again until *)
(* it is armed anew.                                                          *)
PressSend ==
  /\ CanPress /\ panel.enabled
  /\ Call("submit", panel.armed)
  /\ panel' = [panel EXCEPT !.enabled = FALSE]
  /\ consents' = consents \ {panel.armed}
  /\ UNCHANGED <<rows, posts, inFlight, wallet, process>>

(* Mutant of the next: Send is offered again after a failure too.             *)
SubmitAnsweredAlways(op, reply) ==
  panel' = IF reply = "SENT" THEN [panel EXCEPT !.armed = None, !.enabled = FALSE]
           ELSE [panel EXCEPT !.armed = op, !.enabled = TRUE]

(* submitOperation's four results. After a failure, and an error, Send is     *)
(* left as it is.                                                             *)
SubmitAnswered(op, reply) ==
  panel' = CASE reply = "SENT" -> [panel EXCEPT !.armed = None, !.enabled = FALSE]
             [] reply \in {"CANCELLED", "REFUSED"} -> [panel EXCEPT !.armed = op, !.enabled = TRUE]
             [] reply = "FAILED" -> panel

ImportAnswered(op, reply) ==
  panel' = IF reply = "IMPORTED"
           THEN [armed |-> op, enabled |-> TRUE, shown |-> op, waiting |-> panel.waiting \ {"import"}]
           ELSE [panel EXCEPT !.waiting = @ \ {"import"}]

(* The answer of a call: it reaches the page that called, if that is still    *)
(* there. The slot is free once the worker is done with the request too.      *)
Answer(s, reply, job) ==
  /\ calls' = [calls EXCEPT ![s] = IF job = "none" THEN Free
                                   ELSE [@ EXCEPT !.stage = "over", !.ours = FALSE]]
  /\ IF ~calls[s].ours THEN panel' = panel
     ELSE CASE calls[s].kind = "submit" -> SubmitAnswered(calls[s].op, reply)
            [] calls[s].kind = "import" -> ImportAnswered(calls[s].op, reply)
            [] calls[s].kind \in {"issue", "report"} -> panel' = [panel EXCEPT !.waiting = @ \ {calls[s].kind}]

(* The page is loaded again, or its window closed and another opened.         *)
Reload ==
  /\ main = "running" /\ panel # Closed
  /\ panel' = Closed
  /\ calls' = [s \in Slots |-> [calls[s] EXCEPT !.ours = FALSE]]
  /\ UNCHANGED <<records, wallet, process>>

-----------------------------------------------------------------------------
(* Main: the dialog first, then the request, which a worker that is not there *)
(* fails at once. A file or a destination is chosen; sending is confirmed.    *)
Choose(s, op) ==
  /\ calls[s].stage = "dialog" /\ worker # "down"
  /\ calls[s].kind = "submit" => op = calls[s].op
  /\ calls' = [calls EXCEPT ![s].op = op, ![s].stage = "asked", ![s].job = "queued"]
  /\ consents' = IF calls[s].kind = "submit" THEN consents \cup {op} ELSE consents
  /\ UNCHANGED <<panel, rows, posts, inFlight, wallet, process>>

ChooseInVain(s) ==
  /\ calls[s].stage = "dialog" /\ worker = "down"
  /\ Answer(s, "FAILED", "none")
  /\ UNCHANGED <<records, wallet, process>>

Cancel(s) ==
  /\ calls[s].stage = "dialog"
  /\ Answer(s, "CANCELLED", "none")
  /\ UNCHANGED <<records, wallet, process>>

(* Main gives up; the worker goes on.                                         *)
TimesOut(s) ==
  /\ calls[s].stage = "asked"
  /\ Answer(s, "FAILED", calls[s].job)
  /\ UNCHANGED <<records, wallet, process>>

-----------------------------------------------------------------------------
(* The worker.                                                                *)
Waiting(s) == worker = "up" /\ calls[s].job = "queued"

Done(s, result) == calls' = [calls EXCEPT ![s].job = result]

Issues(s) ==
  /\ Waiting(s) /\ calls[s].kind = "issue" /\ rows[calls[s].op] = "RECORDED"
  /\ rows' = [rows EXCEPT ![calls[s].op] = "EMITTED"]
  /\ Done(s, Results.issue)
  /\ UNCHANGED <<panel, posts, inFlight, consents, wallet, process>>

Reports(s) ==
  /\ Waiting(s) /\ calls[s].kind = "report"
  /\ Done(s, Results.report)
  /\ UNCHANGED <<panel, records, wallet, process>>

(* A form is imported once: a second copy is refused.                         *)
Imports(s) ==
  /\ Waiting(s) /\ calls[s].kind = "import" /\ rows[calls[s].op] = "EMITTED"
  /\ rows' = [rows EXCEPT ![calls[s].op] = "RETURNED"]
  /\ Done(s, Results.import)
  /\ UNCHANGED <<panel, posts, inFlight, consents, wallet, process>>

(* Mutant of the next: the in-flight guard is dropped.                        *)
PassesUnguarded(s) ==
  /\ Waiting(s) /\ calls[s].kind = "submit" /\ rows[calls[s].op] = "RETURNED" /\ workerKey # None
  /\ Done(s, "sending")
  /\ UNCHANGED <<panel, records, wallet, process>>

(* Nothing this wallet sent may be unresolved.                                *)
PassesGuard(s) ==
  /\ Waiting(s) /\ calls[s].kind = "submit" /\ rows[calls[s].op] = "RETURNED" /\ workerKey # None
  /\ inFlight = {}
  /\ Done(s, "sending")
  /\ UNCHANGED <<panel, records, wallet, process>>

(* The row is opened, then the provider is asked: whether it took the         *)
(* transaction or not, the attempt may be answered as refused, or fail.       *)
Posts(s) ==
  /\ worker = "up" /\ calls[s].job = "sending"
  /\ inFlight' = inFlight \cup {calls[s].op}
  /\ \/ /\ posts' = [posts EXCEPT ![calls[s].op] = IF @ < 2 THEN @ + 1 ELSE @]
        /\ \E result \in {Results.submit, "REFUSED", "FAILED"} : Done(s, result)
     \/ /\ posts' = posts
        /\ \E result \in {"REFUSED", "FAILED"} : Done(s, result)
  /\ UNCHANGED <<panel, rows, consents, wallet, process>>

(* Anything may be refused or fail with nothing done; a submission, until its *)
(* row is open.                                                               *)
Declines(s) ==
  /\ Waiting(s) \/ (worker = "up" /\ calls[s].job = "sending")
  /\ \E result \in {"REFUSED", "FAILED"} : Done(s, result)
  /\ UNCHANGED <<panel, records, wallet, process>>

(* A reply is dropped when nobody waits for it any more.                      *)
Replies(s) ==
  /\ worker = "up" /\ calls[s] # Free /\ calls[s].job \in WorkerReplies[calls[s].kind]
  /\ IF calls[s].stage = "asked" THEN Answer(s, calls[s].job, "none")
     ELSE calls' = [calls EXCEPT ![s] = Free] /\ panel' = panel
  /\ UNCHANGED <<records, wallet, process>>

(* failAllPending: every call it was asked fails, and what it was doing is    *)
(* lost. A submission's failure changes nothing in the window.                *)
WorkerDies ==
  /\ worker # "down"
  /\ worker' = "down" /\ workerKey' = None /\ keyMessage' = FALSE
  /\ LET lost == {s \in Slots : calls[s].stage \in {"asked", "over"}}
     IN /\ calls' = [s \in Slots |-> IF s \in lost THEN Free ELSE calls[s]]
        /\ panel' = [panel EXCEPT !.waiting = @ \ {calls[s].kind : s \in {t \in lost : calls[t].ours}}]
  /\ UNCHANGED <<records, wallet>>

WorkerForks ==
  /\ main = "running" /\ worker = "down"
  /\ worker' = "forked"
  /\ UNCHANGED <<window, records, wallet, workerKey, keyMessage>>

(* provisionSigner: on every start, not once. unlock reads the file only if   *)
(* nothing was decrypted yet.                                                 *)
WorkerLaunches ==
  /\ worker = "forked"
  /\ worker' = "up"
  /\ held' = IF held = None /\ vault THEN file ELSE held
  /\ keyMessage' = (held' # None)
  /\ UNCHANGED <<window, records, main, generated, file, vault, workerKey>>

(* acceptMemberKey.                                                           *)
WorkerTakesKey ==
  /\ worker = "up" /\ keyMessage
  /\ workerKey' = held /\ keyMessage' = FALSE
  /\ UNCHANGED <<window, records, wallet, worker>>

-----------------------------------------------------------------------------
(* The member key: loaded at every start, created only where there is none.   *)
MainStarts ==
  /\ main = "off"
  /\ vault' \in BOOLEAN
  /\ IF file = None /\ vault'
     THEN main' = "creating" /\ generated' \in Keys /\ held' = held
     ELSE main' = "running" /\ generated' = None /\ held' = IF vault' THEN file ELSE None
  /\ UNCHANGED <<window, records, file, process>>

(* Mutant of the next: the wallet is used whether or not it was stored.       *)
CreatesUnstored ==
  /\ main = "creating"
  /\ main' = "running" /\ generated' = None
  /\ held' = generated
  /\ file' = IF file = None THEN generated ELSE file
  /\ UNCHANGED <<window, records, vault, process>>

(* The exclusive write fails if another instance was first.                   *)
Creates ==
  /\ main = "creating"
  /\ main' = "running" /\ generated' = None
  /\ \/ file = None /\ file' = generated /\ held' = generated
     \/ UNCHANGED <<file, held>>
  /\ UNCHANGED <<window, records, vault, process>>

OtherInstanceCreates ==
  /\ file = None
  /\ file' \in Keys \ {generated}
  /\ UNCHANGED <<window, records, main, held, generated, vault, process>>

(* before-quit, or a crash of the application.                                *)
MainEnds ==
  /\ main # "off"
  /\ main' = "off" /\ held' = None /\ generated' = None
  /\ worker' = "down" /\ workerKey' = None /\ keyMessage' = FALSE
  /\ panel' = Closed /\ calls' = [s \in Slots |-> Free]
  /\ UNCHANGED <<records, file, vault>>

-----------------------------------------------------------------------------
Main == MainStarts \/ Creates \/ OtherInstanceCreates \/ MainEnds

Handles(s) == Issues(s) \/ Reports(s) \/ Imports(s) \/ PassesGuard(s) \/ Posts(s) \/ Declines(s)

Next ==
  \/ \E button \in Panels : Press(button)
  \/ PressSend
  \/ Reload
  \/ \E s \in Slots, op \in Ops : Choose(s, op)
  \/ \E s \in Slots : Cancel(s) \/ ChooseInVain(s) \/ TimesOut(s) \/ Handles(s) \/ Replies(s)
  \/ WorkerDies \/ WorkerForks \/ WorkerLaunches \/ WorkerTakesKey
  \/ Main

Spec == Init /\ [][Next]_vars

-----------------------------------------------------------------------------
(* Properties.                                                                *)
(* A button waits exactly while a call of this page's for it is under way.    *)
TypeOK ==
  /\ panel \in [armed : Ops \cup {None}, enabled : BOOLEAN, shown : Ops \cup {None}, waiting : SUBSET Panels]
  /\ rows \in [Ops -> {"RECORDED", "EMITTED", "RETURNED"}] /\ posts \in [Ops -> 0..2]
  /\ inFlight \subseteq Ops /\ consents \subseteq Ops
  /\ main \in {"off", "creating", "running"} /\ worker \in {"down", "forked", "up"}
  /\ {held, generated, file, workerKey} \subseteq Keys \cup {None}
  /\ \A button \in Panels :
       Cardinality({s \in Slots : calls[s].ours /\ calls[s].kind = button}) =
         IF button \in panel.waiting THEN 1 ELSE 0

(* Whatever times out, is lost, or answers late, however the page is reloaded *)
(* and the application restarted, no operation is posted a second time. Send  *)
(* is offered again after a refusal, though the provider may have taken the   *)
(* transaction; the row it left then stops the second attempt. It is not      *)
(* offered again while an attempt might not have opened its row. (renderer.ts *)
(* submitOperation, submitOperation.ts: the in-flight guard)                  *)
PostedOnce == \A op \in Ops : posts[op] <= 1

(* Nothing is posted that main did not ask the member about since Send was    *)
(* pressed last. (main.ts, hard rule 1)                                       *)
PostedIsConfirmed ==
  [][\A op \in Ops : posts'[op] # posts[op] => op \in consents]_vars

(* A worker that signs does so with the stored wallet, whoever stored it.     *)
(* (safeStorageKeyStore.ts: it creates exactly once)                          *)
SignsWithStoredKey == workerKey # None => workerKey = file
=============================================================================
