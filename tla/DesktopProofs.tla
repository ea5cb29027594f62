---------------------------- MODULE DesktopProofs ----------------------------
(* For every set of operations, wallets and calls: a worker signs with the    *)
(* wallet that is stored; an operation is posted once, and never unconfirmed. *)
EXTENDS Desktop, FiniteSetTheorems, WellFoundedInduction, TLAPS

(* The wallet main has decrypted, and the one its worker holds, are the one in *)
(* the file: it is never replaced, and a key that was generated is held only   *)
(* once it is written.                                                        *)
Stored(key) == key # None => key = file
KeyInv == Stored(held) /\ Stored(workerKey)

(* What leaves the wallet and the worker's key alone keeps the invariant.     *)
LEMMA KeysUntouched ==
  ASSUME KeyInv, UNCHANGED <<held, file, workerKey>>
  PROVE  KeyInv'
  BY DEF KeyInv, Stored

(* Nothing of the window, and nothing a worker does with a request, touches a *)
(* key.                                                                       *)
LEMMA RequestsTouchNoKey ==
  ASSUME \/ \E button \in Panels : Press(button)
         \/ PressSend
         \/ Reload
         \/ \E s \in Slots, op \in Ops : Choose(s, op)
         \/ \E s \in Slots : Cancel(s) \/ ChooseInVain(s) \/ TimesOut(s) \/ Handles(s) \/ Replies(s)
         \/ WorkerForks
  PROVE  UNCHANGED <<held, file, workerKey>>
  BY DEF Press, PressSend, Reload, Choose, Cancel, ChooseInVain, TimesOut, Handles, Replies,
         Issues, Reports, Imports, PassesGuard, Posts, Declines, WorkerForks, wallet, process

LEMMA KeyStep ==
  ASSUME KeyInv, [Next]_vars
  PROVE  KeyInv'
<1>1. CASE UNCHANGED vars
  BY <1>1, KeysUntouched DEF vars, wallet, process
<1>2. CASE WorkerDies
  <2>1. workerKey' = None /\ UNCHANGED <<held, file>>
    BY <1>2 DEF WorkerDies, wallet
  <2>. QED
    BY <2>1 DEF KeyInv, Stored
<1>3. CASE WorkerLaunches
  (* What is decrypted is what the file holds.                                *)
  <2>1. UNCHANGED <<file, workerKey>> /\ held' \in {file, held}
    BY <1>3 DEF WorkerLaunches
  <2>. QED
    BY <2>1 DEF KeyInv, Stored
<1>4. CASE WorkerTakesKey
  <2>1. workerKey' = held /\ UNCHANGED <<held, file>>
    BY <1>4 DEF WorkerTakesKey, wallet
  <2>. QED
    BY <2>1 DEF KeyInv, Stored
<1>5. CASE MainStarts
  <2>1. UNCHANGED <<file, workerKey>> /\ held' \in {file, held, None}
    BY <1>5 DEF MainStarts, process
  <2>. QED
    BY <2>1 DEF KeyInv, Stored
<1>6. CASE Creates
  <2>1. workerKey' = workerKey
    BY <1>6 DEF Creates, process
  <2>2. CASE file = None /\ file' = generated /\ held' = generated
    (* Without a file no worker holds a key.                                  *)
    BY <2>1, <2>2 DEF KeyInv, Stored
  <2>3. CASE UNCHANGED <<file, held>>
    BY <2>1, <2>3, KeysUntouched
  <2>. QED
    BY <1>6, <2>2, <2>3 DEF Creates
<1>7. CASE OtherInstanceCreates
  <2>1. file = None /\ UNCHANGED <<held, workerKey>>
    BY <1>7 DEF OtherInstanceCreates, process
  <2>. QED
    BY <2>1 DEF KeyInv, Stored
<1>8. CASE MainEnds
  <2>1. held' = None /\ workerKey' = None
    BY <1>8 DEF MainEnds
  <2>. QED
    BY <2>1 DEF KeyInv, Stored
<1>. QED
  BY <1>1, <1>2, <1>3, <1>4, <1>5, <1>6, <1>7, <1>8, RequestsTouchNoKey, KeysUntouched
     DEF Next, Main

(* A worker that signs does so with the stored wallet, whichever instance      *)
(* stored it and however often workers and the application were restarted      *)
(* (safeStorageKeyStore.ts, main.ts provisionSigner).                         *)
THEOREM SignsWithStoredKeyHolds == Spec => []SignsWithStoredKey
<1>1. Init => KeyInv
  BY DEF Init, KeyInv, Stored
<1>2. KeyInv => SignsWithStoredKey
  BY DEF KeyInv, Stored, SignsWithStoredKey
<1>. QED
  BY <1>1, <1>2, KeyStep, PTL DEF Spec

-----------------------------------------------------------------------------
(* One sending per operation. The right to have an operation sent is held in  *)
(* one place at a time: by its row until the form is imported, then by the    *)
(* call that reports the import, by the panel that offers Send, by the call   *)
(* that carries the request until the worker has opened a row for it or       *)
(* refused, and by nobody once it failed or was lost. A refusal gives it back *)
(* though the transaction may be out: what was posted has a row in flight,    *)
(* and no request that passed the guard is for an operation that has one.     *)
Armed(op) == panel.enabled /\ panel.armed = op

Carries(s, op) ==
  /\ calls[s].op = op
  /\ \/ /\ calls[s].kind = "submit"
        /\ \/ calls[s].stage = "dialog" \/ calls[s].job \in {"queued", "sending"}
           \/ calls[s].stage = "asked" /\ calls[s].job = "REFUSED"
     \/ calls[s].kind = "import" /\ calls[s].job = "IMPORTED"

HeldOnce(op) ==
  /\ rows[op] # "RETURNED" => ~Armed(op) /\ \A s \in Slots : ~Carries(s, op)
  /\ Armed(op) => \A s \in Slots : ~Carries(s, op)
  /\ \A s, t \in Slots : Carries(s, op) /\ Carries(t, op) => s = t

CallShape ==
  [kind : WorkerRequests \cup {"none"}, op : Ops \cup {None},
   stage : {"free", "dialog", "asked", "over"}, ours : BOOLEAN,
   job : {"none", "queued", "sending", "SENT", "ISSUED", "REPORTED", "IMPORTED", "REFUSED", "FAILED"}]

PanelShape ==
  [armed : Ops \cup {None}, enabled : BOOLEAN, shown : Ops \cup {None}, waiting : SUBSET Panels]

Shape ==
  /\ panel \in PanelShape /\ calls \in [Slots -> CallShape]
  /\ rows \in [Ops -> {"RECORDED", "EMITTED", "RETURNED"}] /\ posts \in [Ops -> 0..2]
  /\ \A s \in Slots : calls[s].stage \in {"free", "dialog"} => calls[s].job = "none"
  /\ \A s \in Slots : calls[s].job # "none" => calls[s].op \in Ops
  /\ \A s \in Slots : calls[s].ours \/ calls[s].stage \in {"dialog", "asked"} => calls[s].kind \in WorkerRequests

(* What waits to be posted was consented to.                                  *)
Consented ==
  \A s \in Slots :
    calls[s].kind = "submit" /\ calls[s].job \in {"queued", "sending"} => calls[s].op \in consents

Sending(s) == calls[s].job = "sending"

Recorded ==
  /\ \A op \in Ops : posts[op] = 0 \/ (posts[op] = 1 /\ op \in inFlight)
  /\ \A s \in Slots : Sending(s) => calls[s].kind = "submit" /\ calls[s].op \notin inFlight

SendInv == Shape /\ (\A op \in Ops : HeldOnce(op)) /\ Consented /\ Recorded

(* The right moves between the panel and a call, and is not doubled.          *)
LEMMA RightMoves ==
  ASSUME NEW op \in Ops, HeldOnce(op), rows'[op] = rows[op],
         \A s \in Slots : Carries(s, op)' => Carries(s, op) \/ Armed(op),
         Armed(op)' => Armed(op) \/ \E s \in Slots : Carries(s, op),
         Armed(op)' => \A s \in Slots : ~Carries(s, op)',
         \A s, t \in Slots : Carries(s, op)' /\ Carries(t, op)' => s = t
  PROVE  HeldOnce(op)'
<1>. HIDE DEF Armed, Carries
<1>. QED
  BY DEF HeldOnce

(* A step that leaves the panel's offer alone, and hands no call the right.   *)
LEMMA RightStays ==
  ASSUME NEW op \in Ops, HeldOnce(op), rows'[op] = rows[op],
         \A s \in Slots : Carries(s, op)' => Carries(s, op),
         Armed(op)' => Armed(op)
  PROVE  HeldOnce(op)'
<1>. HIDE DEF Armed, Carries
<1>. QED
  BY DEF HeldOnce

(* Another call in a slot keeps the shape of things.                          *)
LEMMA ShapeOfSlot ==
  ASSUME Shape, NEW s, NEW c \in CallShape, calls' = [calls EXCEPT ![s] = c],
         panel' \in PanelShape, rows' \in [Ops -> {"RECORDED", "EMITTED", "RETURNED"}],
         posts' \in [Ops -> 0..2],
         c.stage \in {"free", "dialog"} => c.job = "none",
         c.job # "none" => c.op \in Ops,
         c.ours \/ c.stage \in {"dialog", "asked"} => c.kind \in WorkerRequests
  PROVE  Shape'
<1>1. calls' \in [Slots -> CallShape]
  BY DEF Shape
<1>2. \A t \in Slots : calls'[t] = c \/ calls'[t] = calls[t]
  BY DEF Shape
<1>3. /\ \A t \in Slots : calls'[t].stage \in {"free", "dialog"} => calls'[t].job = "none"
      /\ \A t \in Slots : calls'[t].job # "none" => calls'[t].op \in Ops
      /\ \A t \in Slots : calls'[t].ours \/ calls'[t].stage \in {"dialog", "asked"} => calls'[t].kind \in WorkerRequests
  BY <1>2 DEF Shape
<1>. QED
  BY <1>1, <1>3 DEF Shape

LEMMA FreeShape ==
  Free \in CallShape /\ Free.job = "none" /\ ~Free.ours /\ Free.stage = "free"
  BY DEF Free, CallShape

(* A call that is free, or over with nothing left to post.                    *)
LEMMA FreeCarriesNothing ==
  ASSUME NEW s \in Slots, NEW op \in Ops, calls[s] = Free
  PROVE  ~Carries(s, op)
  BY DEF Free, Carries

(* A step that sends no further request on past the guard.                    *)
LEMMA RecordedStays ==
  ASSUME Recorded, UNCHANGED <<posts, inFlight>>,
         \A s \in Slots : Sending(s)' => /\ Sending(s) /\ calls'[s].kind = calls[s].kind
                                        /\ calls'[s].op = calls[s].op
  PROVE  Recorded'
<1>. HIDE DEF Sending
<1>. QED
  BY DEF Recorded

LEMMA SendInit == Init => SendInv
<1>. SUFFICES ASSUME Init PROVE SendInv
  OBVIOUS
<1>1. Shape
  BY DEF Init, Shape, Closed, Free, PanelShape, CallShape
<1>2. \A op \in Ops : HeldOnce(op)
  BY FreeCarriesNothing DEF Init, HeldOnce, Closed, Armed
<1>3. Consented
  BY DEF Init, Consented, Free
<1>4. Recorded
  BY DEF Init, Recorded, Sending, Free
<1>. QED
  BY <1>1, <1>2, <1>3, <1>4 DEF SendInv

(* Another call in a slot, which was the panel's right if it is a Send.       *)
LEMMA PressHolds ==
  ASSUME SendInv, NEW button \in Panels, Press(button)
  PROVE  SendInv'
<1>. DEFINE call == [kind |-> button, op |-> None, stage |-> "dialog", ours |-> TRUE, job |-> "none"]
<1>1. calls' = [calls EXCEPT ![NextSlot] = call] /\ UNCHANGED <<rows, posts, inFlight, consents>>
  BY DEF Press, Call, records
<1>2. call \in CallShape
  BY DEF CallShape, Panels, WorkerRequests
<1>3. \A s \in Slots : calls'[s] = call \/ calls'[s] = calls[s]
  BY <1>1 DEF SendInv, Shape
<1>4. panel' \in PanelShape /\ (panel'.enabled => panel' = [panel EXCEPT !.waiting = @ \cup {button}])
  BY DEF Press, SendInv, Shape, PanelShape
<1>5. \A op \in Ops : Armed(op)' => Armed(op)
  BY <1>4 DEF Armed, SendInv, Shape, PanelShape
<1>6. \A s \in Slots, op \in Ops : Carries(s, op)' => Carries(s, op)
  <2>1. call.op = None /\ \A op \in Ops : op # None
    BY DesktopAssumption
  <2>. QED
    BY <1>3, <2>1 DEF Carries
<1>7. Shape'
  <2>1. call.job = "none" /\ call.kind \in WorkerRequests
    BY DEF WorkerRequests
  <2>2. Shape /\ UNCHANGED <<rows, posts>>
    BY <1>1 DEF SendInv
  <2>. HIDE DEF call
  <2>3. rows' \in [Ops -> {"RECORDED", "EMITTED", "RETURNED"}] /\ posts' \in [Ops -> 0..2]
    BY <2>2 DEF Shape
  <2>. QED
    BY <1>1, <1>2, <1>4, <2>1, <2>2, <2>3, ShapeOfSlot
<1>8. \A op \in Ops : HeldOnce(op)'
  BY <1>1, <1>5, <1>6, RightStays DEF SendInv
<1>9. Consented'
  BY <1>1, <1>3 DEF SendInv, Consented
<1>10. Recorded'
  BY <1>1, <1>3, RecordedStays DEF SendInv, Sending
<1>. QED
  BY <1>7, <1>8, <1>9, <1>10 DEF SendInv

LEMMA PressSendHolds ==
  ASSUME SendInv, PressSend
  PROVE  SendInv'
<1>. DEFINE call == [kind |-> "submit", op |-> panel.armed, stage |-> "dialog", ours |-> TRUE, job |-> "none"]
<1>1. /\ calls' = [calls EXCEPT ![NextSlot] = call] /\ UNCHANGED <<rows, posts, inFlight>>
      /\ panel' = [panel EXCEPT !.enabled = FALSE] /\ consents' = consents \ {panel.armed}
      /\ panel.enabled
  BY DEF PressSend, Call
<1>2. call \in CallShape
  BY DEF CallShape, WorkerRequests, SendInv, Shape, PanelShape
<1>3. \A s \in Slots : (s = NextSlot /\ calls'[s] = call) \/ calls'[s] = calls[s]
  BY <1>1 DEF SendInv, Shape
<1>4. panel' \in PanelShape /\ ~panel'.enabled
  BY <1>1 DEF SendInv, Shape, PanelShape
<1>5. ASSUME NEW op \in Ops PROVE HeldOnce(op)'
  <2>1. ~Armed(op)'
    BY <1>4 DEF Armed
  <2>2. \A s \in Slots : Carries(s, op)' => Carries(s, op) \/ (s = NextSlot /\ Armed(op))
    BY <1>1, <1>3 DEF Carries, Armed
  <2>3. HeldOnce(op)
    BY DEF SendInv
  <2>4. \A s, t \in Slots : Carries(s, op)' /\ Carries(t, op)' => s = t
    BY <2>2, <2>3 DEF HeldOnce
  <2>. QED
    BY <1>1, <2>1, <2>2, <2>3, <2>4, RightMoves
<1>6. Shape'
  <2>1. call.job = "none" /\ call.kind \in WorkerRequests
    BY DEF WorkerRequests
  <2>2. Shape /\ UNCHANGED <<rows, posts>>
    BY <1>1 DEF SendInv
  <2>. HIDE DEF call
  <2>3. rows' \in [Ops -> {"RECORDED", "EMITTED", "RETURNED"}] /\ posts' \in [Ops -> 0..2]
    BY <2>2 DEF Shape
  <2>. QED
    BY <1>1, <1>2, <1>4, <2>1, <2>2, <2>3, ShapeOfSlot
<1>7. Consented'
  <2>1. \A op \in Ops : op = panel.armed => \A s \in Slots : ~Carries(s, op)
    BY <1>1 DEF SendInv, HeldOnce, Armed
  <2>2. \A s \in Slots : calls[s].kind = "submit" /\ calls[s].job \in {"queued", "sending"}
                           => calls[s].op \in Ops /\ Carries(s, calls[s].op)
    BY DEF SendInv, Shape, Carries
  <2>. QED
    BY <1>1, <1>3, <2>1, <2>2 DEF SendInv, Consented
<1>8. Recorded'
  BY <1>1, <1>3, RecordedStays DEF SendInv, Sending
<1>. QED
  BY <1>5, <1>6, <1>7, <1>8 DEF SendInv

LEMMA ReloadHolds ==
  ASSUME SendInv, Reload
  PROVE  SendInv'
<1>1. /\ panel' = Closed /\ calls' = [s \in Slots |-> [calls[s] EXCEPT !.ours = FALSE]]
      /\ UNCHANGED <<rows, posts, inFlight, consents>>
  BY DEF Reload, records
<1>2. \A s \in Slots : /\ calls'[s] \in CallShape /\ calls'[s].kind = calls[s].kind
                         /\ calls'[s].op = calls[s].op /\ calls'[s].stage = calls[s].stage
                         /\ calls'[s].job = calls[s].job /\ ~calls'[s].ours
  <2>. SUFFICES ASSUME NEW s \in Slots
                PROVE  /\ calls'[s] \in CallShape /\ calls'[s].kind = calls[s].kind
                       /\ calls'[s].op = calls[s].op /\ calls'[s].stage = calls[s].stage
                       /\ calls'[s].job = calls[s].job /\ ~calls'[s].ours
    OBVIOUS
  <2>1. calls[s] \in CallShape /\ calls'[s] = [calls[s] EXCEPT !.ours = FALSE]
    BY <1>1 DEF SendInv, Shape
  <2>. QED
    BY <2>1 DEF CallShape
<1>3. Shape'
  BY <1>1, <1>2 DEF SendInv, Shape, Closed, PanelShape
<1>4. \A op \in Ops : HeldOnce(op)'
  <2>1. \A op \in Ops : ~Armed(op)' /\ \A s \in Slots : Carries(s, op)' => Carries(s, op)
    BY <1>1, <1>2 DEF Armed, Closed, Carries
  <2>. QED
    BY <1>1, <2>1, RightStays DEF SendInv
<1>5. Consented'
  <2>1. Consented /\ UNCHANGED consents
    BY <1>1 DEF SendInv
  <2>. QED
    BY <1>2, <2>1 DEF Consented
<1>6. Recorded'
  BY <1>1, <1>2, RecordedStays DEF SendInv, Sending
<1>. QED
  BY <1>3, <1>4, <1>5, <1>6 DEF SendInv

LEMMA ChooseHolds ==
  ASSUME SendInv, NEW s \in Slots, NEW op \in Ops, Choose(s, op)
  PROVE  SendInv'
<1>. DEFINE call == [calls[s] EXCEPT !.op = op, !.stage = "asked", !.job = "queued"]
<1>1. /\ calls' = [calls EXCEPT ![s] = call] /\ UNCHANGED <<panel, rows, posts, inFlight>>
      /\ calls[s].stage = "dialog" /\ (calls[s].kind = "submit" => calls[s].op = op)
      /\ consents' = IF calls[s].kind = "submit" THEN consents \cup {op} ELSE consents
  BY DEF Choose, SendInv, Shape, CallShape
<1>2. /\ call \in CallShape /\ call.kind = calls[s].kind /\ call.op = op
      /\ call.stage = "asked" /\ call.job = "queued" /\ call.ours = calls[s].ours
  BY DEF SendInv, Shape, CallShape
<1>. HIDE DEF call
<1>3. \A t \in Slots : calls'[t] = IF t = s THEN call ELSE calls[t]
  BY <1>1 DEF SendInv, Shape
<1>4. Shape'
  <2>1. Shape /\ UNCHANGED <<panel, rows, posts>>
    BY <1>1 DEF SendInv
  <2>2. /\ panel' \in PanelShape /\ posts' \in [Ops -> 0..2]
        /\ rows' \in [Ops -> {"RECORDED", "EMITTED", "RETURNED"}]
        /\ call.kind \in WorkerRequests
    BY <1>1, <1>2, <2>1 DEF Shape
  <2>. QED
    BY <1>1, <1>2, <2>1, <2>2, ShapeOfSlot
<1>5. \A p \in Ops : HeldOnce(p)'
  <2>1. \A p \in Ops, t \in Slots : Carries(t, p)' => Carries(t, p)
    BY <1>1, <1>2, <1>3 DEF Carries
  <2>. QED
    BY <1>1, <2>1, RightStays DEF SendInv, Armed
<1>6. Consented'
  BY <1>1, <1>2, <1>3 DEF SendInv, Consented
<1>7. Recorded'
  BY <1>1, <1>2, <1>3, RecordedStays DEF SendInv, Sending
<1>. QED
  BY <1>4, <1>5, <1>6, <1>7 DEF SendInv

(* A call answered: the right goes back to the panel, or is gone.             *)
LEMMA AnswerHolds ==
  ASSUME SendInv, NEW s \in Slots, NEW reply, NEW job, Answer(s, reply, job),
         UNCHANGED <<rows, posts, inFlight, consents>>,
         job \in {"none", calls[s].job},
         reply \in {"CANCELLED", "FAILED", "SENT", "REFUSED", "ISSUED", "REPORTED", "IMPORTED"},
         calls[s].kind = "submit" => reply \in {"CANCELLED", "FAILED", "SENT", "REFUSED"},
         reply = "CANCELLED" => calls[s].stage = "dialog" /\ job = "none",
         reply = "REFUSED" => calls[s].stage = "asked" /\ calls[s].job = "REFUSED" /\ job = "none",
         reply = "IMPORTED" => calls[s].job = "IMPORTED" /\ job = "none"
  PROVE  SendInv'
<1>. DEFINE call == IF job = "none" THEN Free ELSE [calls[s] EXCEPT !.stage = "over", !.ours = FALSE]
            op == calls[s].op
<1>1. calls' = [calls EXCEPT ![s] = call]
  BY DEF Answer, SendInv, Shape, CallShape
<1>2. Shape /\ calls[s] \in CallShape /\ panel \in PanelShape
  BY DEF SendInv, Shape
<1>3. /\ call \in CallShape
      /\ \/ call = Free
         \/ /\ job # "none" /\ call.kind = calls[s].kind /\ call.op = op /\ call.job = calls[s].job
            /\ call.stage = "over" /\ call.ours = FALSE
  <2>1. CASE job = "none"
    <3>1. call = Free
      BY <2>1
    <3>2. call \in CallShape
      BY <3>1, FreeShape
    <3>. QED
      BY <3>1, <3>2
  <2>2. CASE job # "none"
    <3>1. call = [calls[s] EXCEPT !.stage = "over", !.ours = FALSE]
      BY <2>2
    <3>. QED
      BY <1>2, <2>2, <3>1 DEF CallShape
  <2>. QED
    BY <2>1, <2>2
<1>. HIDE DEF call
<1>4. \A t \in Slots : calls'[t] = IF t = s THEN call ELSE calls[t]
  BY <1>1, <1>2 DEF Shape
<1>5. /\ panel' \in PanelShape
      /\ panel'.enabled => \/ panel.enabled /\ panel'.armed = panel.armed
                           \/ /\ panel'.armed = op /\ job = "none"
                              /\ \/ calls[s].kind = "submit" /\ reply \in {"CANCELLED", "REFUSED"}
                                 \/ calls[s].kind = "import" /\ reply = "IMPORTED"
  <2>1. CASE ~calls[s].ours
    BY <1>2, <2>1 DEF Answer
  <2>2. CASE calls[s].ours /\ calls[s].kind = "submit"
    <3>1. SubmitAnswered(op, reply) /\ op \in Ops \cup {None}
      BY <1>2, <2>2 DEF Answer, CallShape
    <3>. QED
      BY <1>2, <2>2, <3>1 DEF SubmitAnswered, PanelShape
  <2>3. CASE calls[s].ours /\ calls[s].kind = "import"
    <3>1. ImportAnswered(op, reply) /\ op \in Ops \cup {None}
      BY <1>2, <2>3 DEF Answer, CallShape
    <3>. QED
      BY <1>2, <2>3, <3>1 DEF ImportAnswered, PanelShape
  <2>4. CASE calls[s].ours /\ calls[s].kind \in {"issue", "report"}
    <3>1. panel' = [panel EXCEPT !.waiting = @ \ {calls[s].kind}]
      BY <2>4 DEF Answer
    <3>. QED
      BY <1>2, <3>1 DEF PanelShape
  <2>. QED
    BY <1>2, <2>1, <2>2, <2>3, <2>4 DEF Shape, WorkerRequests, Panels
<1>6. Shape'
  <2>1. /\ rows' \in [Ops -> {"RECORDED", "EMITTED", "RETURNED"}] /\ posts' \in [Ops -> 0..2]
        /\ calls[s].job # "none" => op \in Ops
    BY <1>2 DEF Shape
  <2>2. ~call.ours /\ call.stage \in {"free", "over"} /\ (call.stage = "over" \/ call.job = "none") /\ (call.job # "none" => call.op \in Ops)
    BY <1>3, <2>1, FreeShape
  <2>. QED
    BY <1>1, <1>2, <1>3, <1>5, <2>1, <2>2, ShapeOfSlot
<1>7. ASSUME NEW p \in Ops PROVE HeldOnce(p)'
  <2>1. \A t \in Slots : t # s => (Carries(t, p)' <=> Carries(t, p))
    BY <1>4 DEF Carries
  <2>2. Carries(s, p)' => Carries(s, p) /\ job # "none"
    BY <1>3, <1>4 DEF Carries, Free
  <2>3. Armed(p)' => Armed(p) \/ (Carries(s, p) /\ job = "none")
    BY <1>5 DEF Armed, Carries
  <2>4. HeldOnce(p)
    BY DEF SendInv
  <2>5. Armed(p)' => \A t \in Slots : ~Carries(t, p)'
    BY <2>1, <2>2, <2>3, <2>4 DEF HeldOnce
  <2>6. \A t, u \in Slots : Carries(t, p)' /\ Carries(u, p)' => t = u
    BY <2>1, <2>2, <2>4 DEF HeldOnce
  <2>7. \A t \in Slots : Carries(t, p)' => Carries(t, p)
    BY <2>1, <2>2
  <2>. QED
    BY <2>3, <2>4, <2>5, <2>6, <2>7, RightMoves
<1>8. Consented'
  BY <1>3, <1>4 DEF SendInv, Consented, Free
<1>9. Recorded'
  BY <1>3, <1>4, FreeShape, RecordedStays DEF SendInv, Sending
<1>. QED
  BY <1>6, <1>7, <1>8, <1>9 DEF SendInv

(* What a worker does with a request that waits for it.                       *)
LEMMA JobHolds ==
  ASSUME SendInv, NEW s \in Slots, NEW result, Done(s, result), panel' = panel,
         calls[s].job \in {"queued", "sending"},
         result \in {"sending", "SENT", "ISSUED", "REPORTED", "IMPORTED", "REFUSED", "FAILED"},
         rows' \in [Ops -> {"RECORDED", "EMITTED", "RETURNED"}], posts' \in [Ops -> 0..2],
         \A op \in Ops : HeldOnce(op)', consents' = consents, Recorded'
  PROVE  SendInv'
<1>. DEFINE call == [calls[s] EXCEPT !.job = result]
<1>1. calls[s] \in CallShape /\ calls[s].op \in Ops /\ calls[s].stage \notin {"free", "dialog"}
      /\ (calls[s].ours \/ calls[s].stage \in {"dialog", "asked"} => calls[s].kind \in WorkerRequests)
  BY DEF SendInv, Shape
<1>2. /\ call \in CallShape /\ call.op = calls[s].op /\ call.stage = calls[s].stage
      /\ call.kind = calls[s].kind /\ call.ours = calls[s].ours /\ call.job = result
  BY <1>1 DEF CallShape
<1>3. calls' = [calls EXCEPT ![s] = call]
  BY DEF Done
<1>. HIDE DEF call
<1>4. Shape'
  BY <1>1, <1>2, <1>3, ShapeOfSlot DEF SendInv, Shape
<1>5. Consented'
  <2>1. \A t \in Slots : calls'[t] = IF t = s THEN call ELSE calls[t]
    BY <1>3 DEF SendInv, Shape
  <2>2. \A t \in Slots : calls'[t].kind = "submit" /\ calls'[t].job \in {"queued", "sending"}
                           => calls'[t].op \in consents
    BY <1>2, <2>1 DEF SendInv, Consented
  <2>. QED
    BY <2>2 DEF Consented
<1>. QED
  BY <1>4, <1>5 DEF SendInv

(* A request done with: who carried what before and after.                    *)
LEMMA JobCarries ==
  ASSUME SendInv, NEW s \in Slots, NEW result, Done(s, result), NEW op \in Ops
  PROVE  /\ \A t \in Slots : t # s => (Carries(t, op)' <=> Carries(t, op))
         /\ Carries(s, op)' => calls[s].op = op
         /\ Carries(s, op)' => \/ calls[s].kind = "submit" /\ calls[s].stage = "dialog"
                               \/ calls[s].kind = "submit" /\ result \in {"queued", "sending", "REFUSED"}
                               \/ calls[s].kind = "import" /\ result = "IMPORTED"
<1>. DEFINE call == [calls[s] EXCEPT !.job = result]
<1>1. \A t \in Slots : calls'[t] = IF t = s THEN call ELSE calls[t]
  BY DEF Done, SendInv, Shape
<1>2. calls[s] \in CallShape
  BY DEF SendInv, Shape
<1>3. /\ call.op = calls[s].op /\ call.stage = calls[s].stage
      /\ call.kind = calls[s].kind /\ call.job = result
  BY <1>2 DEF CallShape
<1>. HIDE DEF call
<1>. QED
  BY <1>1, <1>3 DEF Carries

(* What a request done with keeps, and that it no longer is past the guard.   *)
LEMMA JobKeeps ==
  ASSUME SendInv, NEW s \in Slots, NEW result, Done(s, result)
  PROVE  \A t \in Slots : /\ calls'[t].kind = calls[t].kind /\ calls'[t].op = calls[t].op
                          /\ calls'[t].job = IF t = s THEN result ELSE calls[t].job
<1>1. \A t \in Slots : calls[t] \in CallShape
  BY DEF SendInv, Shape
<1>2. \A t \in Slots : calls'[t] = IF t = s THEN [calls[t] EXCEPT !.job = result] ELSE calls[t]
  BY DEF Done, SendInv, Shape
<1>. QED
  BY <1>1, <1>2 DEF CallShape

LEMMA JobRecorded ==
  ASSUME SendInv, NEW s \in Slots, NEW result, Done(s, result), result # "sending",
         UNCHANGED <<posts, inFlight>>
  PROVE  Recorded'
  BY JobKeeps, RecordedStays DEF SendInv, Sending

LEMMA HandlesHolds ==
  ASSUME SendInv, NEW s \in Slots, Handles(s)
  PROVE  SendInv'
<1>1. CASE Issues(s)
  <2>1. /\ Done(s, "ISSUED") /\ calls[s].job = "queued" /\ UNCHANGED <<panel, posts, inFlight, consents>>
        /\ calls[s].kind = "issue" /\ rows[calls[s].op] = "RECORDED"
        /\ rows' = [rows EXCEPT ![calls[s].op] = "EMITTED"]
    BY <1>1 DEF Issues, Waiting, Results
  <2>2. Shape /\ Recorded'
    BY <2>1, JobRecorded DEF SendInv
  <2>3. rows' \in [Ops -> {"RECORDED", "EMITTED", "RETURNED"}] /\ posts' \in [Ops -> 0..2]
        /\ \A op \in Ops : rows'[op] = "RETURNED" <=> rows[op] = "RETURNED"
    BY <2>1, <2>2 DEF Shape
  <2>4. ASSUME NEW op \in Ops PROVE HeldOnce(op)'
    <3>1. (\A t \in Slots : Carries(t, op)' => Carries(t, op)) /\ (Armed(op)' <=> Armed(op))
      BY <2>1, JobCarries DEF Armed
    <3>2. HeldOnce(op)
      BY DEF SendInv
    <3>. HIDE DEF Carries, Armed
    <3>. QED
      BY <2>3, <3>1, <3>2 DEF HeldOnce
  <2>. QED
    BY <2>1, <2>2, <2>3, <2>4, JobHolds
<1>2. CASE Reports(s)
  <2>1. /\ Done(s, "REPORTED") /\ calls[s].job = "queued" /\ UNCHANGED <<panel, posts, rows, inFlight, consents>>
        /\ calls[s].kind = "report"
    BY <1>2 DEF Reports, Waiting, Results, records
  <2>2. Shape /\ Recorded'
    BY <2>1, JobRecorded DEF SendInv
  <2>3. ASSUME NEW op \in Ops PROVE HeldOnce(op)'
    <3>1. (\A t \in Slots : Carries(t, op)' => Carries(t, op)) /\ (Armed(op)' <=> Armed(op))
      BY <2>1, JobCarries DEF Armed
    <3>2. HeldOnce(op)
      BY DEF SendInv
    <3>. QED
      BY <2>1, <3>1, <3>2, RightStays
  <2>. QED
    BY <2>1, <2>2, <2>3, JobHolds DEF Shape
<1>3. CASE Imports(s)
  <2>1. /\ Done(s, "IMPORTED") /\ calls[s].job = "queued" /\ UNCHANGED <<panel, posts, inFlight, consents>>
        /\ calls[s].kind = "import" /\ rows[calls[s].op] = "EMITTED"
        /\ rows' = [rows EXCEPT ![calls[s].op] = "RETURNED"]
    BY <1>3 DEF Imports, Waiting, Results
  <2>2. Shape /\ Recorded'
    BY <2>1, JobRecorded DEF SendInv
  <2>3. /\ rows' \in [Ops -> {"RECORDED", "EMITTED", "RETURNED"}] /\ posts' \in [Ops -> 0..2]
        /\ \A op \in Ops : rows'[op] = IF op = calls[s].op THEN "RETURNED" ELSE rows[op]
    BY <2>1, <2>2 DEF Shape
  <2>4. ASSUME NEW op \in Ops PROVE HeldOnce(op)'
    <3>1. (\A t \in Slots : t # s => (Carries(t, op)' <=> Carries(t, op))) /\ (Armed(op)' <=> Armed(op))
      BY <2>1, JobCarries DEF Armed
    <3>2. Carries(s, op)' => calls[s].op = op
      BY <2>1, JobCarries
    <3>3. HeldOnce(op)
      BY DEF SendInv
    <3>4. calls[s].op = op => rows[op] # "RETURNED"
      BY <2>1
    <3>. HIDE DEF Carries, Armed
    <3>. QED
      BY <2>3, <3>1, <3>2, <3>3, <3>4 DEF HeldOnce
  <2>. QED
    BY <2>1, <2>2, <2>3, <2>4, JobHolds
<1>4. CASE PassesGuard(s)
  (* Nothing is in flight, so this operation is not.                          *)
  <2>1. /\ Done(s, "sending") /\ calls[s].job = "queued" /\ UNCHANGED <<panel, posts, rows, inFlight, consents>>
        /\ calls[s].kind = "submit" /\ inFlight = {}
    BY <1>4 DEF PassesGuard, Waiting, records
  <2>2. Shape /\ calls[s].op \in Ops
    BY <2>1 DEF SendInv, Shape
  <2>3. ASSUME NEW op \in Ops PROVE HeldOnce(op)'
    <3>1. (\A t \in Slots : t # s => (Carries(t, op)' <=> Carries(t, op))) /\ (Armed(op)' <=> Armed(op))
      BY <2>1, JobCarries DEF Armed
    <3>2. Carries(s, op)' => Carries(s, op)
      <4>1. Carries(s, op)' => calls[s].op = op
        BY <2>1, JobCarries
      <4>. QED
        BY <2>1, <4>1 DEF Carries
    <3>3. HeldOnce(op)
      BY DEF SendInv
    <3>. QED
      BY <2>1, <3>1, <3>2, <3>3, RightStays
  <2>4. Recorded'
    <3>1. \A t \in Slots : calls'[t].kind = calls[t].kind /\ (t # s => calls'[t].job = calls[t].job)
      BY <2>1, JobKeeps
    <3>2. Recorded
      BY DEF SendInv
    <3>. QED
      BY <2>1, <3>1, <3>2 DEF Recorded, Sending
  <2>. QED
    BY <2>1, <2>2, <2>3, <2>4, JobHolds DEF Shape
<1>5. CASE Posts(s)
  <2>. DEFINE posted == calls[s].op
  <2>1. PICK result \in {"SENT", "REFUSED", "FAILED"} : Done(s, result)
    BY <1>5 DEF Posts, Results
  <2>2. /\ calls[s].job = "sending" /\ UNCHANGED <<panel, rows, consents>>
        /\ inFlight' = inFlight \cup {posted}
        /\ posts' \in {posts, [posts EXCEPT ![posted] = IF @ < 2 THEN @ + 1 ELSE @]}
    BY <1>5 DEF Posts
  <2>3. Shape /\ Recorded /\ posted \in Ops /\ calls[s].kind = "submit" /\ posted \notin inFlight
    BY <2>2 DEF SendInv, Shape, Recorded, Sending
  <2>4. posts[posted] = 0
    BY <2>3 DEF Recorded
  <2>5. posts' \in [Ops -> 0..2] /\ \A op \in Ops : posts'[op] = posts[op] \/ (op = posted /\ posts'[op] = 1)
    BY <2>2, <2>3, <2>4 DEF Shape
  <2>6. Carries(s, posted)
    BY <2>2, <2>3 DEF Carries
  <2>7. ASSUME NEW op \in Ops PROVE HeldOnce(op)'
    <3>1. (\A t \in Slots : t # s => (Carries(t, op)' <=> Carries(t, op))) /\ (Armed(op)' <=> Armed(op))
      BY <2>1, <2>2, JobCarries DEF Armed
    <3>2. Carries(s, op)' => Carries(s, op)
      BY <2>1, <2>6, JobCarries
    <3>3. HeldOnce(op) /\ rows'[op] = rows[op]
      BY <2>2 DEF SendInv
    <3>. QED
      BY <3>1, <3>2, <3>3, RightStays
  (* Another request past the guard for the same operation would hold the     *)
  (* right as well.                                                           *)
  <2>8. Recorded'
    <3>1. \A t \in Slots : t # s /\ Sending(t) => calls[t].op # posted
      <4>. SUFFICES ASSUME NEW t \in Slots, Sending(t), calls[t].op = posted PROVE t = s
        OBVIOUS
      <4>1. Carries(t, posted)
        BY <2>3 DEF Carries, Sending, Recorded
      <4>2. HeldOnce(posted)
        BY <2>3 DEF SendInv
      <4>. HIDE DEF Carries, posted
      <4>. QED
        BY <2>6, <4>1, <4>2 DEF HeldOnce
    <3>2. \A t \in Slots : /\ calls'[t].kind = calls[t].kind /\ calls'[t].op = calls[t].op
                           /\ Sending(t)' => t # s /\ Sending(t)
      BY <2>1, JobKeeps DEF Sending
    <3>. HIDE DEF posted, Sending
    <3>. QED
      BY <2>2, <2>3, <2>5, <3>1, <3>2 DEF Recorded
  <2>9. rows' \in [Ops -> {"RECORDED", "EMITTED", "RETURNED"}]
    BY <2>2, <2>3 DEF Shape
  <2>. QED
    BY <2>1, <2>2, <2>5, <2>7, <2>8, <2>9, JobHolds
<1>6. CASE Declines(s)
  <2>1. PICK result \in {"REFUSED", "FAILED"} : Done(s, result)
    BY <1>6 DEF Declines
  <2>2. calls[s].job \in {"queued", "sending"} /\ UNCHANGED <<panel, posts, rows, inFlight, consents>>
    BY <1>6 DEF Declines, Waiting, records
  <2>3. Shape /\ Recorded'
    BY <2>1, <2>2, JobRecorded DEF SendInv
  <2>4. ASSUME NEW op \in Ops PROVE HeldOnce(op)'
    <3>1. (\A t \in Slots : t # s => (Carries(t, op)' => Carries(t, op))) /\ (Armed(op)' <=> Armed(op))
      BY <2>1, <2>2, JobCarries DEF Armed
    <3>2. Carries(s, op)' => Carries(s, op)
      <4>1. Carries(s, op)' => calls[s].op = op /\ calls[s].kind = "submit"
        <5>1. result # "IMPORTED"
          BY <2>1
        <5>. QED
          BY <2>1, <5>1, JobCarries
      <4>. QED
        BY <2>2, <4>1 DEF Carries
    <3>3. HeldOnce(op)
      BY DEF SendInv
    <3>. QED
      BY <2>2, <3>1, <3>2, <3>3, RightStays
  <2>. QED
    BY <2>1, <2>2, <2>3, <2>4, JobHolds DEF Shape
<1>. QED
  BY <1>1, <1>2, <1>3, <1>4, <1>5, <1>6 DEF Handles

(* Calls that are dropped, whoever waits for them.                            *)
LEMMA DroppedHolds ==
  ASSUME SendInv, \A t \in Slots : calls'[t] \in {calls[t], Free}, calls' \in [Slots -> CallShape],
         panel' \in PanelShape, panel'.armed = panel.armed, panel'.enabled = panel.enabled,
         UNCHANGED <<rows, posts, inFlight, consents>>
  PROVE  SendInv'
<1>1. Shape'
  BY FreeShape DEF SendInv, Shape
<1>2. ASSUME NEW op \in Ops PROVE HeldOnce(op)'
  <2>1. \A t \in Slots : Carries(t, op)' => Carries(t, op)
    BY DEF Carries, Free
  <2>2. Armed(op)' <=> Armed(op)
    BY DEF Armed
  <2>. QED
    BY <2>1, <2>2, RightStays DEF SendInv
<1>3. Consented'
  BY FreeShape DEF SendInv, Consented
<1>4. Recorded'
  BY FreeShape, RecordedStays DEF SendInv, Sending
<1>. QED
  BY <1>1, <1>2, <1>3, <1>4 DEF SendInv

LEMMA RepliesHolds ==
  ASSUME SendInv, NEW s \in Slots, Replies(s)
  PROVE  SendInv'
<1>1. /\ UNCHANGED <<rows, posts, inFlight, consents>>
      /\ calls[s] # Free /\ calls[s].job \in WorkerReplies[calls[s].kind]
  BY DEF Replies, records
<1>2. Shape /\ calls[s] \in CallShape
  BY DEF SendInv, Shape
<1>3. CASE calls[s].stage = "asked"
  <2>0. calls[s].kind \in WorkerRequests
    BY <1>2, <1>3 DEF Shape
  <2>1. Answer(s, calls[s].job, "none")
    BY <1>3 DEF Replies
  <2>2. calls[s].job \in {Results[calls[s].kind], "REFUSED", "FAILED"}
    BY <1>1, <2>0 DEF WorkerReplies
  <2>3. /\ calls[s].job \in {"FAILED", "SENT", "REFUSED", "ISSUED", "REPORTED", "IMPORTED"}
        /\ calls[s].kind = "submit" => calls[s].job \in {"FAILED", "SENT", "REFUSED"}
    BY <2>0, <2>2 DEF Results, WorkerRequests, Panels
  <2>. QED
    BY <1>1, <1>3, <2>1, <2>3, AnswerHolds
<1>4. CASE calls[s].stage # "asked"
  <2>1. calls' = [calls EXCEPT ![s] = Free] /\ panel' = panel
    BY <1>4 DEF Replies
  <2>. QED
    BY <1>1, <1>2, <2>1, FreeShape, DroppedHolds DEF Shape
<1>. QED
  BY <1>3, <1>4

(* A worker that dies fails what it was asked, and the window only learns     *)
(* that its buttons need not wait.                                            *)
LEMMA WorkerDiesHolds ==
  ASSUME SendInv, WorkerDies
  PROVE  SendInv'
<1>. DEFINE lost == {s \in Slots : calls[s].stage \in {"asked", "over"}}
            gone == {calls[s].kind : s \in {t \in lost : calls[t].ours}}
<1>1. /\ calls' = [s \in Slots |-> IF s \in lost THEN Free ELSE calls[s]]
      /\ panel' = [panel EXCEPT !.waiting = @ \ gone]
      /\ UNCHANGED <<rows, posts, inFlight, consents>>
  BY DEF WorkerDies, records
<1>2. panel \in PanelShape /\ calls \in [Slots -> CallShape]
  BY DEF SendInv, Shape
<1>. HIDE DEF lost, gone
<1>3. panel' \in PanelShape /\ panel'.armed = panel.armed /\ panel'.enabled = panel.enabled
  BY <1>1, <1>2 DEF PanelShape
<1>4. calls' \in [Slots -> CallShape] /\ \A s \in Slots : calls'[s] \in {calls[s], Free}
  BY <1>1, <1>2, FreeShape
<1>. QED
  BY <1>1, <1>3, <1>4, DroppedHolds

LEMMA MainEndsHolds ==
  ASSUME SendInv, MainEnds
  PROVE  SendInv'
<1>1. /\ calls' = [s \in Slots |-> Free] /\ panel' = Closed
      /\ UNCHANGED <<rows, posts, inFlight, consents>>
  BY DEF MainEnds, records
<1>2. Shape'
  <2>1. panel' \in PanelShape /\ calls' \in [Slots -> CallShape]
    BY <1>1, FreeShape DEF Closed, PanelShape
  <2>. QED
    BY <1>1, <2>1, FreeShape DEF SendInv, Shape
<1>3. ASSUME NEW op \in Ops PROVE HeldOnce(op)'
  <2>1. ~Armed(op)' /\ \A s \in Slots : ~Carries(s, op)'
    BY <1>1 DEF Armed, Closed, Carries, Free
  <2>2. HeldOnce(op) /\ UNCHANGED <<posts, rows>>
    BY <1>1 DEF SendInv
  <2>. HIDE DEF Armed, Carries
  <2>. QED
    BY <2>1, <2>2 DEF HeldOnce
<1>4. Consented'
  BY <1>1, FreeShape DEF SendInv, Consented
<1>5. Recorded'
  BY <1>1, FreeShape, RecordedStays DEF SendInv, Sending
<1>. QED
  BY <1>2, <1>3, <1>4, <1>5 DEF SendInv

LEMMA SendUntouched ==
  ASSUME SendInv, UNCHANGED <<panel, calls, rows, posts, inFlight, consents>>
  PROVE  SendInv'
<1>1. Shape' /\ Consented' /\ Recorded'
  BY DEF SendInv, Shape, Consented, Recorded, Sending
<1>2. \A op \in Ops : HeldOnce(op)'
  BY DEF SendInv, HeldOnce, Armed, Carries
<1>. QED
  BY <1>1, <1>2 DEF SendInv

LEMMA SendStep ==
  ASSUME SendInv, [Next]_vars
  PROVE  SendInv'
<1>1. CASE UNCHANGED vars
  BY <1>1, SendUntouched DEF vars, window, records
<1>2. CASE WorkerForks \/ WorkerLaunches \/ WorkerTakesKey \/ MainStarts \/ Creates \/ OtherInstanceCreates
  <2>1. UNCHANGED <<panel, calls, rows, posts, inFlight, consents>>
    BY <1>2 DEF WorkerForks, WorkerLaunches, WorkerTakesKey, MainStarts, Creates, OtherInstanceCreates,
                window, records
  <2>. QED
    BY <2>1, SendUntouched
<1>3. ASSUME NEW s \in Slots, Cancel(s) \/ ChooseInVain(s) \/ TimesOut(s)
      PROVE  SendInv'
  <2>1. UNCHANGED <<rows, posts, inFlight, consents>>
    BY <1>3 DEF Cancel, ChooseInVain, TimesOut, records
  <2>2. CASE Cancel(s)
    BY <2>1, <2>2, AnswerHolds DEF Cancel
  <2>3. CASE ChooseInVain(s)
    BY <2>1, <2>3, AnswerHolds DEF ChooseInVain
  <2>4. CASE TimesOut(s)
    BY <2>1, <2>4, AnswerHolds DEF TimesOut
  <2>. QED
    BY <1>3, <2>2, <2>3, <2>4
<1>. QED
  BY <1>1, <1>2, <1>3, PressHolds, PressSendHolds, ReloadHolds, ChooseHolds, HandlesHolds,
     RepliesHolds, WorkerDiesHolds, MainEndsHolds DEF Next, Main

LEMMA SendInvHolds == Spec => []SendInv
  BY SendInit, SendStep, PTL DEF Spec

(* However calls time out, pages reload, and workers and the application are  *)
(* restarted, an operation is posted once, for every number of operations and *)
(* calls at a time (renderer.ts submitOperation, submitOperation.ts).         *)
THEOREM PostedOnceHolds == Spec => []PostedOnce
<1>1. SendInv => PostedOnce
  BY DEF SendInv, Recorded, PostedOnce
<1>. QED
  BY <1>1, SendInvHolds, PTL

(* Only a request past the guard posts anything.                              *)
LEMMA PostsAlone ==
  ASSUME [Next]_vars, NEW op \in Ops, posts'[op] # posts[op]
  PROVE  \E s \in Slots : Posts(s)
  BY DEF Next, Main, vars, Press, PressSend, Reload, Choose, Cancel, ChooseInVain, TimesOut, Handles,
         Issues, Reports, Imports, PassesGuard, Declines, Replies, WorkerDies, WorkerForks,
         WorkerLaunches, WorkerTakesKey, MainStarts, Creates, OtherInstanceCreates, MainEnds, records

(* What is posted was confirmed in main's dialog after Send was pressed last, *)
(* also where an answer told the window that it was refused (main.ts confirm, *)
(* ipcHandlers.ts).                                                           *)
THEOREM PostedIsConfirmedHolds == Spec => PostedIsConfirmed
<1>1. ASSUME SendInv, [Next]_vars, NEW op \in Ops, posts'[op] # posts[op]
      PROVE  op \in consents
  <2>1. PICK s \in Slots : Posts(s)
    BY <1>1, PostsAlone
  <2>2. calls[s].job = "sending" /\ posts \in [Ops -> 0..2]
    BY <1>1, <2>1 DEF Posts, SendInv, Shape
  <2>3. calls[s].op \in consents
    BY <1>1, <2>2 DEF SendInv, Consented, Recorded, Sending
  <2>4. calls[s].op = op
    BY <1>1, <2>1, <2>2 DEF Posts
  <2>. QED
    BY <2>3, <2>4
<1>2. SendInv /\ [Next]_vars => [\A op \in Ops : posts'[op] # posts[op] => op \in consents]_vars
  BY <1>1
<1>. QED
  BY <1>2, SendInvHolds, PTL DEF Spec, PostedIsConfirmed

-----------------------------------------------------------------------------
(* Buttons and calls. A button waits because one call of this page's does:    *)
(* such a call is with main, never a request nobody waits for any more.       *)
Asks(s, button) == calls[s].ours /\ calls[s].kind = button

Buttons ==
  /\ \A s \in Slots : calls[s].ours => calls[s].stage \in {"dialog", "asked"}
  /\ \A button \in Panels : button \in panel.waiting <=> \E s \in Slots : Asks(s, button)
  /\ \A button \in Panels : \A s, t \in Slots : Asks(s, button) /\ Asks(t, button) => s = t

Values ==
  /\ inFlight \subseteq Ops /\ consents \subseteq Ops
  /\ main \in {"off", "creating", "running"} /\ worker \in {"down", "forked", "up"}
  /\ {held, generated, file, workerKey} \subseteq Keys \cup {None}

LEMMA MinimumBy ==
  ASSUME NEW T, T \subseteq Nat, T # {}, NEW R, IsWellFoundedOn(R, Nat)
  PROVE  \E m \in T : \A n \in T : ~(<<n, m>> \in R)
  BY WFMin, Zenon

LEMMA Least ==
  ASSUME NEW T, T \subseteq Nat, T # {}
  PROVE  \E m \in T : \A n \in T : m <= n
<1>. DEFINE R == OpToRel(<, Nat)
<1>1. \A a, b \in Nat : a < b => <<a, b>> \in R
  BY DEF OpToRel
<1>2. IsWellFoundedOn(R, Nat)
  BY NatLessThanWellFounded
<1>. HIDE DEF R
<1>3. PICK m \in T : \A n \in T : ~(<<n, m>> \in R)
  BY <1>2, MinimumBy
<1>4. \A n \in T : ~(n < m)
  BY <1>1, <1>3
<1>. QED
  BY <1>4

(* A press takes a slot no call is in.                                        *)
LEMMA NextSlotIsFree ==
  ASSUME CanPress
  PROVE  NextSlot \in Slots /\ calls[NextSlot] = Free
<1>. DEFINE unused == {s \in Slots : calls[s] = Free}
<1>1. unused \subseteq Nat /\ unused # {}
  BY DesktopAssumption DEF CanPress
<1>. HIDE DEF unused
<1>2. PICK m \in unused : \A t \in unused : m <= t
  BY <1>1, Least
<1>3. \E s \in Slots : calls[s] = Free /\ \A t \in Slots : calls[t] = Free => s <= t
  BY <1>2 DEF unused
<1>. QED
  BY <1>3 DEF NextSlot

(* A step that changes neither whose calls there are nor what waits.          *)
LEMMA ButtonsStay ==
  ASSUME Buttons, panel'.waiting = panel.waiting,
         \A s \in Slots : /\ calls'[s].ours = calls[s].ours /\ calls'[s].kind = calls[s].kind
                          /\ calls'[s].ours => calls'[s].stage \in {"dialog", "asked"}
  PROVE  Buttons'
  BY DEF Buttons, Asks

(* A new call of the page's, for a button that did not wait or for Send.      *)
LEMMA ButtonPressed ==
  ASSUME SendInv, Buttons, CanPress, NEW kind \in WorkerRequests, NEW op, Call(kind, op),
         kind \notin panel.waiting,
         panel'.waiting = IF kind \in Panels THEN panel.waiting \cup {kind} ELSE panel.waiting
  PROVE  Buttons'
<1>. DEFINE call == [kind |-> kind, op |-> op, stage |-> "dialog", ours |-> TRUE, job |-> "none"]
<1>1. NextSlot \in Slots /\ ~calls[NextSlot].ours
  BY NextSlotIsFree, FreeShape
<1>2. \A s \in Slots : calls'[s] = IF s = NextSlot THEN call ELSE calls[s]
  BY DEF Call, SendInv, Shape
<1>3. \A s \in Slots, button \in Panels :
        Asks(s, button)' <=> IF s = NextSlot THEN button = kind ELSE Asks(s, button)
  BY <1>2 DEF Asks
<1>4. \A s \in Slots : calls'[s].ours => calls'[s].stage \in {"dialog", "asked"}
  BY <1>2 DEF Buttons
<1>5. \A button \in Panels : ~Asks(NextSlot, button)
  BY <1>1 DEF Asks
<1>6. \A button \in Panels : button = kind => \A s \in Slots : ~Asks(s, button)
  BY DEF Buttons
<1>. HIDE DEF Asks
<1>. QED
  BY <1>1, <1>3, <1>4, <1>5, <1>6 DEF Buttons

(* A call that is the page's no longer, for whose button nothing waits any    *)
(* more if it was.                                                            *)
LEMMA ButtonReleased ==
  ASSUME Buttons, NEW s \in Slots, ~calls'[s].ours,
         \A t \in Slots : t # s => calls'[t] = calls[t],
         panel'.waiting = IF calls[s].ours THEN panel.waiting \ {calls[s].kind} ELSE panel.waiting
  PROVE  Buttons'
<1>1. \A t \in Slots, button \in Panels : Asks(t, button)' <=> t # s /\ Asks(t, button)
  BY DEF Asks
<1>2. \A t \in Slots : calls'[t].ours => calls'[t].stage \in {"dialog", "asked"}
  BY DEF Buttons
<1>3. \A button \in Panels : Asks(s, button) <=> calls[s].ours /\ calls[s].kind = button
  BY DEF Asks
<1>. HIDE DEF Asks
<1>. QED
  BY <1>1, <1>2, <1>3 DEF Buttons

(* An answer ends the wait of the button whose call it is.                    *)
LEMMA AnswerReleases ==
  ASSUME SendInv, Buttons, NEW s \in Slots, NEW reply, NEW job, Answer(s, reply, job),
         reply \in {"CANCELLED", "FAILED", "SENT", "REFUSED", "ISSUED", "REPORTED", "IMPORTED"},
         calls[s].kind = "submit" => reply \in {"CANCELLED", "FAILED", "SENT", "REFUSED"}
  PROVE  Buttons'
<1>1. Shape /\ calls \in [Slots -> CallShape] /\ panel \in PanelShape
  BY DEF SendInv, Shape
<1>2. (\A t \in Slots : t # s => calls'[t] = calls[t]) /\ ~calls'[s].ours
  <2>1. calls' = [calls EXCEPT ![s] = IF job = "none" THEN Free
                                      ELSE [calls[s] EXCEPT !.stage = "over", !.ours = FALSE]]
    BY DEF Answer
  <2>2. calls[s] \in CallShape
    BY <1>1
  <2>3. ~[calls[s] EXCEPT !.stage = "over", !.ours = FALSE].ours
    BY <2>2 DEF CallShape
  <2>. QED
    BY <1>1, <2>1, <2>3, FreeShape
<1>3. panel'.waiting = IF calls[s].ours THEN panel.waiting \ {calls[s].kind} ELSE panel.waiting
  <2>1. CASE ~calls[s].ours
    BY <2>1 DEF Answer
  <2>2. CASE calls[s].ours /\ calls[s].kind = "submit"
    <3>1. SubmitAnswered(calls[s].op, reply)
      BY <2>2 DEF Answer
    <3>2. panel'.waiting = panel.waiting
      BY <1>1, <2>2, <3>1 DEF SubmitAnswered, PanelShape
    <3>. QED
      BY <1>1, <2>2, <3>2 DEF PanelShape, Panels
  <2>3. CASE calls[s].ours /\ calls[s].kind = "import"
    <3>1. ImportAnswered(calls[s].op, reply)
      BY <2>3 DEF Answer
    <3>. QED
      BY <1>1, <2>3, <3>1 DEF ImportAnswered, PanelShape
  <2>4. CASE calls[s].ours /\ calls[s].kind \in {"issue", "report"}
    <3>1. panel' = [panel EXCEPT !.waiting = @ \ {calls[s].kind}]
      BY <2>4 DEF Answer
    <3>. QED
      BY <1>1, <2>4, <3>1 DEF PanelShape
  <2>. QED
    BY <1>1, <2>1, <2>2, <2>3, <2>4 DEF Shape, WorkerRequests, Panels
<1>. QED
  BY <1>2, <1>3, ButtonReleased

(* What a worker that dies was asked is lost with it, for every button at once. *)
LEMMA DeathReleases ==
  ASSUME SendInv, Buttons, WorkerDies
  PROVE  Buttons'
<1>. DEFINE lost == {s \in Slots : calls[s].stage \in {"asked", "over"}}
            gone == {calls[s].kind : s \in {t \in lost : calls[t].ours}}
<1>1. /\ calls' = [s \in Slots |-> IF s \in lost THEN Free ELSE calls[s]]
      /\ panel' = [panel EXCEPT !.waiting = @ \ gone]
  BY DEF WorkerDies
<1>2. panel'.waiting = panel.waiting \ gone
  BY <1>1 DEF SendInv, Shape, PanelShape
<1>3. \A s \in Slots : calls'[s] = IF s \in lost THEN Free ELSE calls[s]
  BY <1>1
<1>4. \A s \in Slots, button \in Panels : Asks(s, button)' <=> Asks(s, button) /\ s \notin lost
  BY <1>3, FreeShape DEF Asks
<1>5. \A button \in Panels : button \in gone <=> \E s \in lost : Asks(s, button)
  BY DEF Asks
<1>6. \A s \in Slots : calls'[s].ours => calls'[s].stage \in {"dialog", "asked"}
  BY <1>3, FreeShape DEF Buttons
<1>7. lost \subseteq Slots
  OBVIOUS
<1>. HIDE DEF lost, gone, Asks
<1>. QED
  BY <1>2, <1>4, <1>5, <1>6, <1>7 DEF Buttons

(* A page that is gone has no calls, and the next one no button that waits.   *)
LEMMA NobodyAsks ==
  ASSUME panel' = Closed, \A s \in Slots : ~calls'[s].ours
  PROVE  Buttons'
  BY DEF Buttons, Asks, Closed

LEMMA ButtonsStep ==
  ASSUME SendInv, Buttons, [Next]_vars
  PROVE  Buttons'
<1>0. calls \in [Slots -> CallShape] /\ panel \in PanelShape /\ Shape
  BY DEF SendInv, Shape
<1>1. CASE UNCHANGED window
  BY <1>1 DEF window, Buttons, Asks
<1>2. ASSUME NEW button \in Panels, Press(button) PROVE Buttons'
  <2>1. CanPress /\ Call(button, None) /\ button \notin panel.waiting
    BY <1>2 DEF Press
  <2>2. panel'.waiting = panel.waiting \cup {button} /\ button \in WorkerRequests
    BY <1>0, <1>2 DEF Press, PanelShape, WorkerRequests
  <2>. QED
    BY <2>1, <2>2, ButtonPressed
<1>3. CASE PressSend
  <2>1. CanPress /\ Call("submit", panel.armed) /\ panel'.waiting = panel.waiting
    BY <1>0, <1>3 DEF PressSend, PanelShape
  <2>2. "submit" \in WorkerRequests /\ "submit" \notin Panels /\ "submit" \notin panel.waiting
    BY <1>0 DEF WorkerRequests, Panels, PanelShape
  <2>. QED
    BY <2>1, <2>2, ButtonPressed
<1>4. CASE Reload
  <2>1. panel' = Closed /\ calls' = [s \in Slots |-> [calls[s] EXCEPT !.ours = FALSE]]
    BY <1>4 DEF Reload
  <2>2. ASSUME NEW s \in Slots PROVE ~calls'[s].ours
    <3>1. calls[s] \in CallShape /\ calls'[s] = [calls[s] EXCEPT !.ours = FALSE]
      BY <1>0, <2>1
    <3>. QED
      BY <3>1 DEF CallShape
  <2>. QED
    BY <2>1, <2>2, NobodyAsks
<1>5. ASSUME NEW s \in Slots, NEW op \in Ops, Choose(s, op) PROVE Buttons'
  <2>1. /\ calls' = [calls EXCEPT ![s].op = op, ![s].stage = "asked", ![s].job = "queued"]
        /\ panel' = panel
    BY <1>5 DEF Choose
  <2>2. ASSUME NEW t \in Slots
        PROVE  /\ calls'[t].ours = calls[t].ours /\ calls'[t].kind = calls[t].kind
               /\ calls'[t].ours => calls'[t].stage \in {"dialog", "asked"}
    <3>1. calls[t] \in CallShape
      BY <1>0
    <3>2. calls[t].ours => calls[t].stage \in {"dialog", "asked"}
      BY DEF Buttons
    <3>. QED
      BY <1>0, <2>1, <3>1, <3>2 DEF CallShape
  <2>. QED
    BY <2>1, <2>2, ButtonsStay
<1>6. ASSUME NEW s \in Slots, Cancel(s) \/ ChooseInVain(s) \/ TimesOut(s) PROVE Buttons'
  BY <1>6, AnswerReleases DEF Cancel, ChooseInVain, TimesOut
<1>7. ASSUME NEW s \in Slots, Handles(s) PROVE Buttons'
  <2>1. PICK result : calls' = [calls EXCEPT ![s].job = result]
    BY <1>7 DEF Handles, Issues, Reports, Imports, PassesGuard, Posts, Declines, Done
  <2>2. panel' = panel
    BY <1>7 DEF Handles, Issues, Reports, Imports, PassesGuard, Posts, Declines
  <2>3. ASSUME NEW t \in Slots
        PROVE  /\ calls'[t].ours = calls[t].ours /\ calls'[t].kind = calls[t].kind
               /\ calls'[t].ours => calls'[t].stage \in {"dialog", "asked"}
    <3>1. calls[t] \in CallShape
      BY <1>0
    <3>2. calls[t].ours => calls[t].stage \in {"dialog", "asked"}
      BY DEF Buttons
    <3>. QED
      BY <1>0, <2>1, <3>1, <3>2 DEF CallShape
  <2>. QED
    BY <2>2, <2>3, ButtonsStay
<1>8. ASSUME NEW s \in Slots, Replies(s) PROVE Buttons'
  <2>1. calls[s].job \in WorkerReplies[calls[s].kind] /\ calls[s] \in CallShape
    BY <1>0, <1>8 DEF Replies
  <2>2. CASE calls[s].stage = "asked"
    <3>1. Answer(s, calls[s].job, "none")
      BY <1>8, <2>2 DEF Replies
    <3>2. calls[s].kind \in WorkerRequests
      BY <1>0, <2>2 DEF Shape
    <3>3. calls[s].job \in {Results[calls[s].kind], "REFUSED", "FAILED"}
      BY <2>1, <3>2 DEF WorkerReplies
    <3>4. /\ calls[s].job \in {"FAILED", "SENT", "REFUSED", "ISSUED", "REPORTED", "IMPORTED"}
          /\ calls[s].kind = "submit" => calls[s].job \in {"FAILED", "SENT", "REFUSED"}
      BY <3>2, <3>3 DEF Results, WorkerRequests, Panels
    <3>. QED
      BY <3>1, <3>4, AnswerReleases
  <2>3. CASE calls[s].stage # "asked"
    <3>1. calls' = [calls EXCEPT ![s] = Free] /\ panel' = panel
      BY <1>8, <2>3 DEF Replies
    (* A dialog has no reply yet, so nobody waits for this one.               *)
    <3>2. calls[s].stage # "dialog"
      <4>1. ASSUME calls[s].stage = "dialog" PROVE FALSE
        <5>1. calls[s].job = "none" /\ calls[s].kind \in WorkerRequests
          BY <1>0, <4>1 DEF Shape
        <5>2. calls[s].job \in {Results[calls[s].kind], "REFUSED", "FAILED"}
          BY <2>1, <5>1 DEF WorkerReplies
        <5>. QED
          BY <5>1, <5>2 DEF Results, WorkerRequests, Panels
      <4>. QED
        BY <4>1
    <3>3. ~calls[s].ours
      BY <2>3, <3>2 DEF Buttons
    <3>4. ~calls'[s].ours /\ \A t \in Slots : t # s => calls'[t] = calls[t]
      BY <1>0, <3>1, FreeShape
    <3>. QED
      BY <3>1, <3>3, <3>4, ButtonReleased
  <2>. QED
    BY <2>2, <2>3
<1>9. CASE MainEnds
  <2>1. panel' = Closed /\ calls' = [s \in Slots |-> Free]
    BY <1>9 DEF MainEnds
  <2>. QED
    BY <2>1, FreeShape, NobodyAsks
<1>10. CASE WorkerForks \/ WorkerLaunches \/ WorkerTakesKey \/ MainStarts \/ Creates \/ OtherInstanceCreates
  BY <1>1, <1>10 DEF WorkerForks, WorkerLaunches, WorkerTakesKey, MainStarts, Creates, OtherInstanceCreates
<1>. QED
  BY <1>1, <1>2, <1>3, <1>4, <1>5, <1>6, <1>7, <1>8, <1>9, <1>10, DeathReleases DEF Next, Main, vars

LEMMA ValuesStep ==
  ASSUME SendInv, Values, [Next]_vars
  PROVE  Values'
<1>1. CASE UNCHANGED <<inFlight, consents, wallet, process>>
  BY <1>1 DEF Values, wallet, process
<1>2. CASE \/ \E button \in Panels : Press(button)
           \/ Reload
           \/ \E s \in Slots : Cancel(s) \/ ChooseInVain(s) \/ TimesOut(s) \/ Issues(s) \/ Reports(s) \/ Imports(s)
              \/ PassesGuard(s) \/ Declines(s) \/ Replies(s)
  BY <1>1, <1>2 DEF Press, Reload, Cancel, ChooseInVain, TimesOut, Issues, Reports, Imports,
                    PassesGuard, Declines, Replies, records
<1>13. CASE \E s \in Slots : Posts(s)
  <2>1. PICK s \in Slots : Posts(s)
    BY <1>13
  <2>2. calls[s].op \in Ops /\ inFlight' = inFlight \cup {calls[s].op}
    BY <2>1 DEF Posts, SendInv, Shape
  <2>. QED
    BY <2>1, <2>2 DEF Posts, Values, wallet, process
<1>3. CASE PressSend
  BY <1>3 DEF PressSend, Values, wallet, process
<1>4. CASE \E s \in Slots, op \in Ops : Choose(s, op)
  BY <1>4 DEF Choose, Values, wallet, process
<1>5. CASE WorkerDies
  BY <1>5 DEF WorkerDies, Values, records, wallet
<1>6. CASE WorkerForks
  BY <1>6 DEF WorkerForks, Values, records, wallet
<1>7. CASE WorkerLaunches
  BY <1>7 DEF WorkerLaunches, Values, records
<1>8. CASE WorkerTakesKey
  BY <1>8 DEF WorkerTakesKey, Values, records, wallet
<1>9. CASE MainStarts
  BY <1>9 DEF MainStarts, Values, records, process
<1>10. CASE Creates
  BY <1>10 DEF Creates, Values, records, process
<1>11. CASE OtherInstanceCreates
  BY <1>11 DEF OtherInstanceCreates, Values, records, process
<1>12. CASE MainEnds
  BY <1>12 DEF MainEnds, Values, records
<1>. QED
  BY <1>1, <1>2, <1>3, <1>4, <1>5, <1>6, <1>7, <1>8, <1>9, <1>10, <1>11, <1>12, <1>13 DEF Next, Main, Handles, vars, records

(* How many calls a button waits for: one, or none.                           *)
LEMMA ButtonsCount ==
  ASSUME Buttons, NEW button \in Panels
  PROVE  Cardinality({s \in Slots : Asks(s, button)}) = IF button \in panel.waiting THEN 1 ELSE 0
<1>. DEFINE asking == {s \in Slots : Asks(s, button)}
<1>1. CASE button \in panel.waiting
  <2>1. PICK s \in Slots : Asks(s, button)
    BY <1>1 DEF Buttons
  <2>2. asking = {s}
    BY <2>1 DEF Buttons
  <2>. QED
    BY <1>1, <2>2, FS_Singleton
<1>2. CASE button \notin panel.waiting
  <2>1. asking = {}
    BY <1>2 DEF Buttons
  <2>. QED
    BY <1>2, <2>1, FS_EmptySet
<1>. QED
  BY <1>1, <1>2

(* Every variable keeps its values, and in whatever order calls are answered, *)
(* time out or are lost, and pages are loaded again, a button waits exactly   *)
(* while one call of its page's is under way: none waits for ever on a call   *)
(* that is gone, and none is pressed twice (renderer.ts issue, generateReport, importForm).            *)
THEOREM TypeCorrect == Spec => []TypeOK
<1>1. Init => Buttons /\ Values
  BY DEF Init, Buttons, Asks, Values, Closed, Free
<1>2. SendInv /\ Buttons /\ Values => TypeOK
  <2>. SUFFICES ASSUME SendInv, Buttons, Values PROVE TypeOK
    OBVIOUS
  <2>1. ASSUME NEW button \in Panels
        PROVE  Cardinality({s \in Slots : calls[s].ours /\ calls[s].kind = button}) =
                 IF button \in panel.waiting THEN 1 ELSE 0
    BY ButtonsCount DEF Asks
  <2>. QED
    BY <2>1 DEF TypeOK, SendInv, Shape, PanelShape, Values
<1>. QED
  BY <1>1, <1>2, SendInvHolds, ButtonsStep, ValuesStep, PTL DEF Spec
=============================================================================
