-------------------------- MODULE WritePathProofs --------------------------
(***************************************************************************)
(* What the write path keeps for every set of presses, operations, organs  *)
(* and sweeps.  The invariants WritePath states are not inductive: they    *)
(* rest on where each handler is (Progress), on rows that no handler has   *)
(* opened yet (Fresh), and on what a sweep copied out (CopiedRows).        *)
(* Told and OrderInv add what the calls of one operation know of those     *)
(* before.                                                                 *)
(***************************************************************************)
EXTENDS WritePath, TLAPS

\* Every press under way names an operation, and one that waits for an organ
\* has an organ to wait for.
Named ==
  \A r \in Requests :
    /\ reqs[r].pc # "IDLE" => reqs[r].op \in Ops
    /\ reqs[r].pc = "ENCODING" => OrganOf[reqs[r].op] \in Organs

\* The event loop is held by r exactly while r is between two waits.
LoopHeld ==
  /\ \A r \in Requests : reqs[r].pc \in Running <=> thread = r
  /\ \A s \in Sweeps : sweeps[s].pc = "RESOLVING" <=> thread = s

BeforeOpen == {"IDLE", "DERIVING", "ENCODING", "OPENING",
               "NOT_SENT", "WRITES_IN_FLIGHT", "NOT_ENCODABLE"}

\* The attempts a handler has not reached have no row and no transaction, and
\* a handler that was refused before the signer never reached one.
Fresh ==
  \A r \in Requests :
    /\ reqs[r].pc \in BeforeOpen \ {"OPENING"} => reqs[r].call = 1
    /\ \A i \in 1..MaxCalls :
         i > reqs[r].call \/ (i = reqs[r].call /\ reqs[r].pc \in BeforeOpen) =>
           rows[<<r, i>>].state = "ABSENT" /\ txs[<<r, i>>].status = "UNSENT"

\* What a handler under way knows of its current attempt.
Progress ==
  \A r \in Requests :
    LET row == rows[Attempt(r)]
        tx  == txs[Attempt(r)]
    IN
    /\ reqs[r].pc = "MARKING" => row.state = "READY"
    /\ reqs[r].pc \in {"READING_NONCE", "PREPARING", "AWAITING_HASH"} =>
         row.state \notin {"ABSENT", "READY", "PENDING", "CONFIRMED"}
    /\ reqs[r].pc \in {"MARKING", "READING_NONCE", "PREPARING"} => tx.status = "UNSENT"
    /\ reqs[r].pc = "AWAITING_HASH" =>
         tx.status # "UNSENT" /\ tx.nonce = reqs[r].nonce
    /\ reqs[r].pc = "RECORDING_HASH" =>
         /\ row.state = "BROADCAST"
         /\ row.nonce = tx.nonce
         /\ Accepted(Attempt(r))

\* A row a sweep copied out had been opened, and rows are never closed again.
CopiedRows ==
  \A s \in Sweeps : \A record \in sweeps[s].todo :
    rows[record.id].state \notin {"ABSENT", "READY"}

IInv ==
  /\ TypeOK
  /\ Named
  /\ LoopHeld
  /\ Fresh
  /\ Progress
  /\ CopiedRows
  /\ PostedIsRecorded
  /\ HashedIsAccepted
  /\ ConfirmedIsMined

-----------------------------------------------------------------------------
(* Types. *)

\* A handler that goes on keeps its type and hands the loop to a proper holder.
LEMMA GotoTypes ==
  ASSUME TypeOK, NEW r \in Requests, NEW pc \in HandlerPCs, NEW held \in {r, Free},
         Goto(r, pc, held)
  PROVE  /\ reqs' \in [Requests -> Handler]
         /\ thread' \in Requests \cup Sweeps \cup {Free}
BY DEF TypeOK, Goto, Handler

\* The current attempt of a handler is an attempt.
LEMMA AttemptTypes ==
  ASSUME TypeOK, NEW r \in Requests
  PROVE  Attempt(r) \in Attempts
BY ConstantsAssumption DEF TypeOK, Handler, Attempt, Attempts

\* Moving one row to a state of the table, other columns alone.
LEMMA RowTypes ==
  ASSUME TypeOK, NEW a \in Attempts, NEW state \in TransactionStates,
         rows' = [rows EXCEPT ![a].state = state]
  PROVE  rows' \in [Attempts -> Row]
<1> DEFINE row == [rows[a] EXCEPT !.state = state]
<1>1. row \in Row
  BY DEF TypeOK, Row, RowStates
<1>2. rows' = [rows EXCEPT ![a] = row]
  OBVIOUS
<1> QED BY <1>1, <1>2 DEF TypeOK

\* What a sweep's local variables are.
LEMMA SweepFields ==
  ASSUME TypeOK, NEW s \in Sweeps
  PROVE  /\ sweeps[s] \in Sweep
         /\ sweeps[s].pc \in SweepPCs
         /\ sweeps[s].todo \subseteq Record
         /\ sweeps[s].pendingNonce \in MaybeNonce
         /\ sweeps[s].blocked \in BOOLEAN
BY DEF TypeOK, Sweep

LEMMA RecordFields ==
  ASSUME NEW record \in Record
  PROVE  record.id \in Attempts /\ record.nonce \in MaybeNonce /\ record.hash \in BOOLEAN
BY DEF Record

\* A sweep that has dealt with one record is a sweep still.
LEMMA ResolvedTypes ==
  ASSUME TypeOK, NEW s \in Sweeps, NEW record, NEW blocks \in BOOLEAN,
         Resolved(s, record, blocks)
  PROVE  sweeps' \in [Sweeps -> Sweep]
<1> DEFINE left    == sweeps[s].todo \ {record}
           blocked == sweeps[s].blocked \/ blocks
           next    == [sweeps[s] EXCEPT !.pc = "RESOLVING", !.todo = left, !.blocked = blocked]
<1>1. sweeps' = [sweeps EXCEPT ![s] = next]
  BY DEF Resolved
<1>2. next \in Sweep
  <2>1. left \subseteq Record
    BY SweepFields
  <2>2. blocked \in BOOLEAN
    OBVIOUS
  <2> HIDE DEF left, blocked
  <2> QED BY <2>1, <2>2, SweepFields DEF Sweep, SweepPCs
<1> HIDE DEF next
<1> QED BY <1>1, <1>2 DEF TypeOK

LEMMA SweepThrowsTypes ==
  ASSUME TypeOK, NEW s \in Sweeps, SweepThrows(s)
  PROVE  sweeps' \in [Sweeps -> Sweep]
BY DEF TypeOK, SweepThrows, Sweep, SweepPCs, MaybeNonce

\* Every step of a submit handler keeps the types.
LEMMA HandlerKeepsType ==
  ASSUME TypeOK, Named, NEW r \in Requests, HandlerStep(r) \/ \E op \in Ops : Press(r, op)
  PROVE  TypeOK'
<1>1. CASE \E op \in Ops : Press(r, op)
  <2>1. PICK op \in Ops : reqs' = [reqs EXCEPT ![r] = [@ EXCEPT !.pc = "DERIVING", !.op = op]]
    BY <1>1 DEF Press
  <2>2. [reqs[r] EXCEPT !.pc = "DERIVING", !.op = op] \in Handler
    BY DEF TypeOK, Handler, HandlerPCs, Parked
  <2>3. reqs' \in [Requests -> Handler]
    BY <2>1, <2>2 DEF TypeOK
  <2> QED BY <1>1, <2>3 DEF Press, TypeOK
<1>2. CASE DeriveFails(r)
  BY <1>2, GotoTypes DEF DeriveFails, TypeOK, HandlerPCs, Replies
<1>3. CASE RefuseInFlight(r)
  BY <1>3, GotoTypes DEF RefuseInFlight, TypeOK, HandlerPCs, Replies
<1>4. CASE PassGuard(r)
  <2>1. {"OPENING", "ENCODING"} \subseteq HandlerPCs
    BY DEF HandlerPCs, Parked, Running
  <2> QED BY <1>4, <2>1, GotoTypes DEF PassGuard, TypeOK
<1>5. CASE EncodeAnswers(r)
  <2>1. OrganOf[reqs[r].op] \in Organs
    BY <1>5 DEF EncodeAnswers, Named
  <2> QED BY <1>5, <2>1, GotoTypes DEF EncodeAnswers, TypeOK, HandlerPCs, Running
<1>6. CASE EncodeFails(r)
  BY <1>6, GotoTypes DEF EncodeFails, TypeOK, HandlerPCs, Replies
<1>7. CASE Open(r)
  <2>1. rows' \in [Attempts -> Row]
    BY <1>7, AttemptTypes, RowTypes DEF Open, TransactionStates
  <2> QED BY <1>7, <2>1, GotoTypes DEF Open, TypeOK, HandlerPCs, Running
<1>8. CASE MarkSigning(r)
  <2>1. rows' \in [Attempts -> Row]
    BY <1>8, AttemptTypes, RowTypes DEF MarkSigning, TransactionStates
  <2> QED BY <1>8, <2>1, GotoTypes DEF MarkSigning, TypeOK, HandlerPCs, Parked
<1>9. CASE NonceAnswers(r)
  <2>1. PICK n \in MaybeNonce :
          reqs' = [reqs EXCEPT ![r] = [@ EXCEPT !.pc = "PREPARING", !.nonce = n]]
    BY <1>9 DEF NonceAnswers, MaybeNonce
  <2>2. reqs' \in [Requests -> Handler]
    BY <2>1 DEF TypeOK, Handler, HandlerPCs, Parked
  <2> QED BY <1>9, <2>2 DEF NonceAnswers, TypeOK
<1>10. CASE Post(r)
  <2>1. txs' \in [Attempts -> Tx]
    BY <1>10, AttemptTypes DEF Post, TypeOK, Tx, TxStatuses, Handler
  <2> QED BY <1>10, <2>1, GotoTypes DEF Post, TypeOK, HandlerPCs, Parked
<1>11. CASE SubmitThrows(r)
  <2>1. Partial(r) \in HandlerPCs
    BY DEF Partial, HandlerPCs, Replies
  <2>2. reqs' \in [Requests -> Handler] /\ thread' \in Requests \cup Sweeps \cup {Free}
    <3>1. Goto(r, Partial(r), Free)
      BY <1>11 DEF SubmitThrows
    <3> QED BY <2>1, <3>1, GotoTypes
  <2> QED BY <1>11, <2>2 DEF SubmitThrows, TypeOK
<1>12. CASE HashAnswers(r)
  <2> DEFINE row == [rows[Attempt(r)] EXCEPT !.state = "BROADCAST", !.nonce = reqs[r].nonce]
  <2>1. row \in Row
    <3>1. rows[Attempt(r)] \in Row
      BY AttemptTypes DEF TypeOK
    <3>2. reqs[r].nonce \in MaybeNonce
      BY DEF TypeOK, Handler
    <3> QED BY <3>1, <3>2 DEF Row, RowStates, TransactionStates
  <2>2. rows' = [rows EXCEPT ![Attempt(r)] = row]
    BY <1>12 DEF HashAnswers
  <2>3. rows' \in [Attempts -> Row]
    BY <2>1, <2>2 DEF TypeOK
  <2> QED BY <1>12, <2>3, GotoTypes DEF HashAnswers, TypeOK, HandlerPCs, Running
<1>13. CASE HashRejected(r)
  BY <1>13, GotoTypes DEF HashRejected, TypeOK, HandlerPCs, Replies
<1>14. CASE RecordHash(r)
  <2>1. reqs' \in [Requests -> Handler] /\ thread' \in Requests \cup Sweeps \cup {Free}
    <3>1. CASE HasNextCall(r)
      <4>1. reqs[r].call + 1 \in 1..MaxCalls
        <5>1. reqs[r].call \in 1..MaxCalls
          BY DEF TypeOK, Handler
        <5>2. reqs[r].op \in Ops
          BY <1>14 DEF RecordHash, Named
        <5>3. NumCalls[reqs[r].op] \in 1..MaxCalls
          BY <5>2, ConstantsAssumption
        <5> QED BY <3>1, <5>1, <5>3, ConstantsAssumption DEF HasNextCall
      <4> QED BY <1>14, <3>1, <4>1 DEF RecordHash, TypeOK, Handler, HandlerPCs, Running
    <3>2. CASE ~HasNextCall(r)
      BY <1>14, <3>2, GotoTypes DEF RecordHash, HandlerPCs, Replies
    <3> QED BY <3>1, <3>2
  <2> DEFINE row == [rows[Attempt(r)] EXCEPT !.state = "PENDING", !.hash = TRUE]
  <2>2. row \in Row
    BY AttemptTypes DEF TypeOK, Row, RowStates, TransactionStates
  <2>3. rows' = [rows EXCEPT ![Attempt(r)] = row]
    BY <1>14 DEF RecordHash
  <2>4. rows' \in [Attempts -> Row]
    BY <2>2, <2>3 DEF TypeOK
  <2> QED BY <1>14, <2>1, <2>4 DEF RecordHash, TypeOK
<1> QED BY <1>1, <1>2, <1>3, <1>4, <1>5, <1>6, <1>7, <1>8, <1>9, <1>10, <1>11, <1>12, <1>13,
           <1>14 DEF HandlerStep

\* So does every step of the provider and the chain.
LEMMA ChainKeepsType ==
  ASSUME TypeOK, ChainStep
  PROVE  TypeOK'
<1> SUFFICES ASSUME NEW a \in Attempts,
                    \/ Accept(a)
                    \/ Refuse(a)
                    \/ Evict(a)
                    \/ \E outcome \in Outcomes : Mine(a, outcome)
             PROVE  TypeOK'
  BY DEF ChainStep
<1>1. txs' \in [Attempts -> Tx]
  <2>1. CASE Accept(a)
    BY <2>1 DEF Accept, TypeOK, Tx, TxStatuses
  <2>2. CASE Refuse(a) \/ Evict(a)
    BY <2>2 DEF Refuse, Evict, TypeOK, Tx, TxStatuses
  <2>3. CASE \E outcome \in Outcomes : Mine(a, outcome)
    BY <2>3 DEF Mine, TypeOK, Tx, TxStatuses
  <2> QED BY <2>1, <2>2, <2>3
<1> QED BY <1>1 DEF Accept, Refuse, Evict, Mine, TypeOK

\* And every step of a sweep.
LEMMA SweepKeepsType ==
  ASSUME TypeOK, NEW s \in Sweeps, SweepStart(s) \/ SweepStep(s)
  PROVE  TypeOK'
<1>1. CASE SweepStart(s)
  <2>1. Snapshot \subseteq Record
    BY DEF Snapshot, InFlight, Record, TypeOK, Row
  <2>2. [pc |-> IF InFlight = {} THEN "DONE" ELSE "NONCE", todo |-> Snapshot,
         pendingNonce |-> NoNonce, blocked |-> FALSE] \in Sweep
    BY <2>1 DEF Sweep, SweepPCs, MaybeNonce
  <2>3. sweeps' \in [Sweeps -> Sweep]
    BY <1>1, <2>2 DEF SweepStart, TypeOK
  <2> QED BY <1>1, <2>3 DEF SweepStart, TypeOK
<1>2. CASE SweepReadsNonce(s)
  <2>1. PICK n \in MaybeNonce :
          sweeps' = [sweeps EXCEPT ![s] = [@ EXCEPT !.pc = "RESOLVING", !.pendingNonce = n]]
    BY <1>2 DEF SweepReadsNonce, MaybeNonce
  <2>2. [sweeps[s] EXCEPT !.pc = "RESOLVING", !.pendingNonce = n] \in Sweep
    BY SweepFields DEF Sweep, SweepPCs
  <2>3. sweeps' \in [Sweeps -> Sweep]
    BY <2>1, <2>2 DEF TypeOK
  <2> QED BY <1>2, <2>3 DEF SweepReadsNonce, TypeOK
<1>3. CASE AskReceipt(s) \/ SweepReturns(s)
  <2>1. PICK pc \in SweepPCs : sweeps' = [sweeps EXCEPT ![s] = [@ EXCEPT !.pc = pc]]
    BY <1>3 DEF AskReceipt, SweepReturns, SweepPCs
  <2>2. [sweeps[s] EXCEPT !.pc = pc] \in Sweep
    BY SweepFields DEF Sweep
  <2>3. sweeps' \in [Sweeps -> Sweep]
    BY <2>1, <2>2 DEF TypeOK
  <2> QED BY <1>3, <2>3 DEF AskReceipt, SweepReturns, TypeOK
<1>4. CASE ReceiptUnanswered(s)
  BY <1>4, ResolvedTypes DEF ReceiptUnanswered, TypeOK, Resolved
<1>5. ASSUME NEW a \in Attempts, ReceiptConfirms(s, a)
      PROVE  TypeOK'
  <2>1. PICK record \in sweeps[s].todo :
          \/ /\ rows' = [rows EXCEPT ![a] =
                           [@ EXCEPT !.state = "CONFIRMED", !.outcome = txs[a].status]]
             /\ Resolved(s, record, FALSE)
          \/ SweepThrows(s) /\ UNCHANGED rows
    BY <1>5 DEF ReceiptConfirms
  <2> DEFINE row == [rows[a] EXCEPT !.state = "CONFIRMED", !.outcome = txs[a].status]
  <2>2. row \in Row
    <3>1. txs[a].status \in Outcomes
      BY <1>5 DEF ReceiptConfirms, Mined
    <3> QED BY <3>1 DEF TypeOK, Row, RowStates, TransactionStates
  <2>3. rows' \in [Attempts -> Row]
    BY <2>1, <2>2 DEF TypeOK
  <2>4. sweeps' \in [Sweeps -> Sweep]
    BY <2>1, ResolvedTypes, SweepThrowsTypes
  <2> QED BY <1>5, <2>1, <2>3, <2>4 DEF ReceiptConfirms, TypeOK, Resolved, SweepThrows
<1>6. CASE ResolveNeverSent(s)
  <2>1. PICK record \in sweeps[s].todo :
          \/ /\ rows' = [rows EXCEPT ![record.id].state = "FAILED_RETRYABLE"]
             /\ Resolved(s, record, TRUE)
          \/ SweepThrows(s) /\ UNCHANGED rows
    BY <1>6 DEF ResolveNeverSent
  <2>2. record.id \in Attempts
    BY SweepFields, RecordFields
  <2>3. rows' \in [Attempts -> Row]
    BY <2>1, <2>2, RowTypes DEF TransactionStates, TypeOK
  <2>4. sweeps' \in [Sweeps -> Sweep]
    BY <2>1, ResolvedTypes, SweepThrowsTypes
  <2> QED BY <1>6, <2>1, <2>3, <2>4 DEF ResolveNeverSent, TypeOK, Resolved, SweepThrows
<1>7. CASE ResolveUnresolved(s)
  BY <1>7, ResolvedTypes DEF ResolveUnresolved, TypeOK, Resolved
<1> QED BY <1>1, <1>2, <1>3, <1>4, <1>5, <1>6, <1>7 DEF SweepStep

\* A crash resets handlers and sweeps to typed values.
LEMMA CrashKeepsType ==
  ASSUME TypeOK, Crash
  PROVE  TypeOK'
<1>1. reqs' \in [Requests -> Handler]
  <2> SUFFICES ASSUME NEW r \in Requests
               PROVE  (IF reqs[r].pc \in Parked \cup Running
                         THEN [reqs[r] EXCEPT !.pc = "LOST"] ELSE reqs[r]) \in Handler
    BY DEF Crash
  <2>1. reqs[r] \in Handler
    BY DEF TypeOK
  <2>2. [reqs[r] EXCEPT !.pc = "LOST"] \in Handler
    BY <2>1 DEF Handler, HandlerPCs
  <2> QED BY <2>1, <2>2
<1>2. [pc |-> "IDLE", todo |-> {}, pendingNonce |-> NoNonce, blocked |-> FALSE] \in Sweep
  BY DEF Sweep, SweepPCs, MaybeNonce
<1> QED BY <1>1, <1>2 DEF Crash, TypeOK

\* A press names its operation before anything looks at it, and no step makes
\* a handler forget it.
LEMMA StepKeepsNamed ==
  ASSUME TypeOK, Named, [Next]_vars
  PROVE  Named'
<1>1. ASSUME NEW r \in Requests, NEW op \in Ops, Press(r, op)
      PROVE  Named'
  BY <1>1 DEF Press, Named, TypeOK, Handler
<1>2. ASSUME NEW r \in Requests, HandlerStep(r)
      PROVE  Named'
  <2>1. CASE PassGuard(r)
    BY <2>1, ConstantsAssumption DEF PassGuard, Goto, Named, TypeOK, Handler
  <2>2. CASE NonceAnswers(r)
    BY <2>2 DEF NonceAnswers, Named, TypeOK, Handler
  <2>3. CASE RecordHash(r)
    BY <2>3 DEF RecordHash, Goto, Named, TypeOK, Handler
  <2>4. CASE SubmitThrows(r)
    BY <2>4 DEF SubmitThrows, MayThrow, Partial, Goto, Named, TypeOK
  <2>5. CASE \/ DeriveFails(r) \/ RefuseInFlight(r) \/ EncodeAnswers(r) \/ EncodeFails(r)
             \/ Open(r) \/ MarkSigning(r) \/ Post(r) \/ HashAnswers(r) \/ HashRejected(r)
    BY <2>5 DEF DeriveFails, RefuseInFlight, EncodeAnswers, EncodeFails, Open, MarkSigning,
       Post, HashAnswers, HashRejected, Goto, Named, TypeOK, Handler
  <2> QED BY <1>2, <2>1, <2>2, <2>3, <2>4, <2>5 DEF HandlerStep
<1>3. ASSUME NEW s \in Sweeps, SweepStart(s) \/ SweepStep(s)
      PROVE  Named'
  BY <1>3 DEF SweepStart, SweepStep, SweepReadsNonce, AskReceipt, ReceiptUnanswered,
     ReceiptConfirms, ResolveNeverSent, ResolveUnresolved, SweepReturns, Named
<1>4. CASE ChainStep
  BY <1>4 DEF ChainStep, Accept, Refuse, Evict, Mine, Named
<1>5. CASE (\E organ \in Organs : ResolveElsewhere(organ)) \/ UNCHANGED vars
  BY <1>5 DEF ResolveElsewhere, vars, Named
<1>6. CASE Crash
  BY <1>6 DEF Crash, Named, Parked, Running, TypeOK
<1> QED BY <1>1, <1>2, <1>3, <1>4, <1>5, <1>6 DEF Next

LEMMA InitTypes == Init => TypeOK /\ Named
<1> SUFFICES ASSUME Init PROVE TypeOK /\ Named
  OBVIOUS
<1>1. [state |-> "ABSENT", nonce |-> NoNonce, hash |-> FALSE, outcome |-> NoOutcome] \in Row
  BY DEF Row, RowStates, MaybeNonce
<1>2. [pc |-> "IDLE", op |-> NoOp, call |-> 1, nonce |-> NoNonce] \in Handler
  BY ConstantsAssumption DEF Handler, HandlerPCs, MaybeNonce
<1>3. [pc |-> "IDLE", todo |-> {}, pendingNonce |-> NoNonce, blocked |-> FALSE] \in Sweep
  BY DEF Sweep, SweepPCs, MaybeNonce
<1>4. [status |-> "UNSENT", nonce |-> NoNonce] \in Tx
  BY DEF Tx, TxStatuses, MaybeNonce
<1> QED BY <1>1, <1>2, <1>3, <1>4 DEF Init, TypeOK, Named

LEMMA StepKeepsType == TypeOK /\ Named /\ [Next]_vars => TypeOK' /\ Named'
<1> SUFFICES ASSUME TypeOK, Named, [Next]_vars PROVE TypeOK'
  BY StepKeepsNamed
<1>1. CASE \E organ \in Organs : ResolveElsewhere(organ)
  BY <1>1 DEF ResolveElsewhere, TypeOK
<1>2. CASE UNCHANGED vars
  BY <1>2 DEF vars, TypeOK
<1> QED BY <1>1, <1>2, HandlerKeepsType, ChainKeepsType, SweepKeepsType, CrashKeepsType
           DEF Next

\* The type invariant, for every instance.
THEOREM TypeCorrect == Spec => []TypeOK
<1>1. Spec => [](TypeOK /\ Named)
  BY InitTypes, StepKeepsType, PTL DEF Spec
<1> QED BY <1>1, PTL
-----------------------------------------------------------------------------
(* The inductive invariant, action by action. *)

LEMMA InitInv == Init => IInv
<1> SUFFICES ASSUME Init PROVE IInv
  OBVIOUS
<1>1. TypeOK /\ Named
  BY InitTypes
<1>2. LoopHeld
  BY ConstantsAssumption DEF Init, LoopHeld, Running
<1>3. Fresh /\ Progress /\ CopiedRows
  BY DEF Init, Fresh, Progress, CopiedRows, Attempts
<1>4. PostedIsRecorded /\ HashedIsAccepted /\ ConfirmedIsMined
  BY DEF Init, PostedIsRecorded, HashedIsAccepted, ConfirmedIsMined
<1> QED BY <1>1, <1>2, <1>3, <1>4 DEF IInv

\* What rows and transactions say of each other stays when neither moves.
LEMMA RecordsFrame ==
  ASSUME IInv, UNCHANGED <<rows, txs>>
  PROVE  PostedIsRecorded' /\ HashedIsAccepted' /\ ConfirmedIsMined'
BY DEF IInv, PostedIsRecorded, HashedIsAccepted, ConfirmedIsMined

LEMMA CopiesFrame ==
  ASSUME IInv, UNCHANGED <<rows, sweeps>>
  PROVE  CopiedRows'
BY DEF IInv, CopiedRows

\* What handlers know stays when neither they nor what they know moves.
LEMMA HandlersFrame ==
  ASSUME IInv, UNCHANGED <<reqs, rows, txs>>
  PROVE  Fresh' /\ Progress'
BY DEF IInv, Fresh, Progress, Attempt, Accepted

\* A row is READY only while its own handler is about to mark it.
LEMMA OtherAttempt ==
  ASSUME TypeOK, NEW r \in Requests, NEW q \in Requests, q # r
  PROVE  Attempt(q) # Attempt(r)
BY DEF Attempt

LEMMA PressKeeps ==
  ASSUME IInv, TypeOK', Named', NEW r \in Requests, NEW op \in Ops, Press(r, op)
  PROVE  IInv'
<1> USE DEF IInv
<1>1. LoopHeld'
  BY ConstantsAssumption DEF Press, LoopHeld, Running, TypeOK, Handler
<1>2. Fresh'
  BY DEF Press, Fresh, BeforeOpen, TypeOK, Handler
<1>3. Progress'
  BY DEF Press, Progress, Attempt, Accepted, TypeOK
<1> QED BY <1>1, <1>2, <1>3, RecordsFrame, CopiesFrame DEF Press

LEMMA DeriveFailsKeeps ==
  ASSUME IInv, TypeOK', Named', NEW r \in Requests, DeriveFails(r)
  PROVE  IInv'
<1> USE DEF IInv
<1>1. LoopHeld'
  BY ConstantsAssumption DEF DeriveFails, Goto, LoopHeld, Running, TypeOK
<1>2. Fresh'
  BY DEF DeriveFails, Goto, Fresh, BeforeOpen, TypeOK
<1>3. Progress'
  BY DEF DeriveFails, Goto, Progress, Attempt, Accepted, TypeOK
<1> QED BY <1>1, <1>2, <1>3, RecordsFrame, CopiesFrame DEF DeriveFails

LEMMA RefuseInFlightKeeps ==
  ASSUME IInv, TypeOK', Named', NEW r \in Requests, RefuseInFlight(r)
  PROVE  IInv'
<1> USE DEF IInv
<1>1. LoopHeld'
  BY ConstantsAssumption DEF RefuseInFlight, Goto, LoopHeld, Running, TypeOK
<1>2. Fresh'
  BY DEF RefuseInFlight, Goto, Fresh, BeforeOpen, TypeOK
<1>3. Progress'
  BY DEF RefuseInFlight, Goto, Progress, Attempt, Accepted, TypeOK
<1> QED BY <1>1, <1>2, <1>3, RecordsFrame, CopiesFrame DEF RefuseInFlight

LEMMA PassGuardKeeps ==
  ASSUME IInv, TypeOK', Named', NEW r \in Requests, PassGuard(r)
  PROVE  IInv'
<1> USE DEF IInv
<1>1. LoopHeld'
  BY ConstantsAssumption DEF PassGuard, Goto, LoopHeld, Running, TypeOK, Handler
<1>2. Fresh'
  BY DEF PassGuard, Goto, Fresh, BeforeOpen, TypeOK, Handler
<1>3. Progress'
  BY DEF PassGuard, Goto, Progress, Attempt, Accepted, TypeOK, Handler
<1> QED BY <1>1, <1>2, <1>3, RecordsFrame, CopiesFrame DEF PassGuard

LEMMA EncodeAnswersKeeps ==
  ASSUME IInv, TypeOK', Named', NEW r \in Requests, EncodeAnswers(r)
  PROVE  IInv'
<1> USE DEF IInv
<1>1. LoopHeld'
  BY ConstantsAssumption DEF EncodeAnswers, Goto, LoopHeld, Running, TypeOK
<1>2. Fresh'
  BY DEF EncodeAnswers, Goto, Fresh, BeforeOpen, TypeOK
<1>3. Progress'
  BY DEF EncodeAnswers, Goto, Progress, Attempt, Accepted, TypeOK
<1> QED BY <1>1, <1>2, <1>3, RecordsFrame, CopiesFrame DEF EncodeAnswers

LEMMA EncodeFailsKeeps ==
  ASSUME IInv, TypeOK', Named', NEW r \in Requests, EncodeFails(r)
  PROVE  IInv'
<1> USE DEF IInv
<1>1. LoopHeld'
  BY ConstantsAssumption DEF EncodeFails, Goto, LoopHeld, Running, TypeOK
<1>2. Fresh'
  BY DEF EncodeFails, Goto, Fresh, BeforeOpen, TypeOK
<1>3. Progress'
  BY DEF EncodeFails, Goto, Progress, Attempt, Accepted, TypeOK
<1> QED BY <1>1, <1>2, <1>3, RecordsFrame, CopiesFrame DEF EncodeFails

LEMMA NonceAnswersKeeps ==
  ASSUME IInv, TypeOK', Named', NEW r \in Requests, NonceAnswers(r)
  PROVE  IInv'
<1> USE DEF IInv
<1>1. LoopHeld'
  BY ConstantsAssumption DEF NonceAnswers, LoopHeld, Running, TypeOK, Handler
<1>2. Fresh'
  BY DEF NonceAnswers, Fresh, BeforeOpen, TypeOK, Handler
<1>3. Progress'
  BY DEF NonceAnswers, Progress, Attempt, Accepted, TypeOK
<1> QED BY <1>1, <1>2, <1>3, RecordsFrame, CopiesFrame DEF NonceAnswers

LEMMA SubmitThrowsKeeps ==
  ASSUME IInv, TypeOK', Named', NEW r \in Requests, SubmitThrows(r)
  PROVE  IInv'
<1> USE DEF IInv
<1>1. LoopHeld'
  BY ConstantsAssumption DEF SubmitThrows, MayThrow, Partial, Goto, LoopHeld, Running,
     TypeOK
<1>2. Fresh'
  BY DEF SubmitThrows, MayThrow, Partial, Goto, Fresh, BeforeOpen, TypeOK
<1>3. Progress'
  BY DEF SubmitThrows, MayThrow, Partial, Goto, Progress, Attempt, Accepted, TypeOK
<1> QED BY <1>1, <1>2, <1>3, RecordsFrame, CopiesFrame DEF SubmitThrows

LEMMA HashRejectedKeeps ==
  ASSUME IInv, TypeOK', Named', NEW r \in Requests, HashRejected(r)
  PROVE  IInv'
<1> USE DEF IInv
<1>1. LoopHeld'
  BY ConstantsAssumption DEF HashRejected, Goto, LoopHeld, Running, TypeOK
<1>2. Fresh'
  BY DEF HashRejected, Goto, Fresh, BeforeOpen, TypeOK
<1>3. Progress'
  BY DEF HashRejected, Goto, Progress, Attempt, Accepted, TypeOK
<1> QED BY <1>1, <1>2, <1>3, RecordsFrame, CopiesFrame DEF HashRejected

LEMMA OpenKeeps ==
  ASSUME IInv, TypeOK', Named', NEW r \in Requests, Open(r)
  PROVE  IInv'
<1> USE DEF IInv
<1>1. LoopHeld'
  BY ConstantsAssumption DEF Open, Goto, LoopHeld, Running, TypeOK
<1>2. Fresh'
  BY ConstantsAssumption DEF Open, Fresh, BeforeOpen, Progress, Goto, Attempt, Attempts,
     TypeOK
<1>3. Progress'
  BY ConstantsAssumption DEF Open, Progress, Fresh, BeforeOpen, Accepted, LoopHeld, Running,
     Goto, Attempt, Attempts, TypeOK, Handler
<1>4. CopiedRows'
  BY ConstantsAssumption DEF Open, CopiedRows, Progress, Fresh, BeforeOpen, Goto, Attempt,
     Attempts, TypeOK, Handler, Row, Record
<1>5. PostedIsRecorded'
  BY ConstantsAssumption DEF Open, PostedIsRecorded, Progress, Fresh, BeforeOpen, Goto,
     Attempt, Attempts, TypeOK, Handler, Row
<1>6. HashedIsAccepted'
  BY ConstantsAssumption DEF Open, HashedIsAccepted, Progress, Fresh, BeforeOpen, Accepted,
     Outcomes, Goto, Attempt, Attempts, TypeOK, Handler, Row
<1>7. ConfirmedIsMined'
  BY ConstantsAssumption DEF Open, ConfirmedIsMined, HashedIsAccepted, Progress, Fresh,
     BeforeOpen, Outcomes, Goto, Attempt, Attempts, TypeOK, Handler, Row
<1> QED BY <1>1, <1>2, <1>3, <1>4, <1>5, <1>6, <1>7

LEMMA MarkSigningKeeps ==
  ASSUME IInv, TypeOK', Named', NEW r \in Requests, MarkSigning(r)
  PROVE  IInv'
<1> USE DEF IInv
<1>1. LoopHeld'
  BY ConstantsAssumption DEF MarkSigning, Goto, LoopHeld, Running, TypeOK
<1>2. Fresh'
  BY ConstantsAssumption DEF MarkSigning, CanTransition, Transitions, Fresh, BeforeOpen,
     Progress, Goto, Attempt, Attempts, TypeOK
<1>3. Progress'
  BY ConstantsAssumption DEF MarkSigning, CanTransition, Transitions, Progress, Fresh,
     BeforeOpen, Accepted, LoopHeld, Running, Goto, Attempt, Attempts, TypeOK, Handler
<1>4. CopiedRows'
  BY ConstantsAssumption DEF MarkSigning, CanTransition, Transitions, CopiedRows, Progress,
     Fresh, BeforeOpen, Goto, Attempt, Attempts, TypeOK, Handler, Row, Record
<1>5. PostedIsRecorded'
  BY ConstantsAssumption DEF MarkSigning, CanTransition, Transitions, PostedIsRecorded,
     Progress, Fresh, BeforeOpen, Goto, Attempt, Attempts, TypeOK, Handler, Row
<1>6. HashedIsAccepted'
  BY ConstantsAssumption DEF MarkSigning, CanTransition, Transitions, HashedIsAccepted,
     Progress, Fresh, BeforeOpen, Accepted, Outcomes, Goto, Attempt, Attempts, TypeOK,
     Handler, Row
<1>7. ConfirmedIsMined'
  BY ConstantsAssumption DEF MarkSigning, CanTransition, Transitions, ConfirmedIsMined,
     HashedIsAccepted, Progress, Fresh, BeforeOpen, Outcomes, Goto, Attempt, Attempts,
     TypeOK, Handler, Row
<1> QED BY <1>1, <1>2, <1>3, <1>4, <1>5, <1>6, <1>7

LEMMA PostKeeps ==
  ASSUME IInv, TypeOK', Named', NEW r \in Requests, Post(r)
  PROVE  IInv'
<1> USE DEF IInv
<1>1. LoopHeld'
  BY ConstantsAssumption DEF Post, Goto, LoopHeld, Running, TypeOK
<1>2. Fresh'
  BY ConstantsAssumption DEF Post, Fresh, BeforeOpen, Progress, Goto, Attempt, Attempts,
     TypeOK
<1>3. Progress'
  <2> SUFFICES ASSUME NEW q \in Requests PROVE Progress!(q)'
    BY DEF Progress
  <2>1. Attempt(q) \in Attempts /\ Attempt(q)' = Attempt(q)
    BY AttemptTypes DEF Post, Goto, Attempt, TypeOK, Handler
  <2>2. CASE q = r
    <3>1. txs'[Attempt(r)] = [status |-> "IN_TRANSIT", nonce |-> reqs[r].nonce]
      BY <2>1, <2>2 DEF Post, TypeOK
    <3>2. reqs'[r].pc = "AWAITING_HASH" /\ reqs'[r].nonce = reqs[r].nonce
      BY DEF Post, Goto, TypeOK, Handler
    <3> QED BY <2>1, <2>2, <3>1, <3>2 DEF Post, Progress
  <2>3. CASE q # r
    <3>1. reqs'[q] = reqs[q] /\ txs'[Attempt(q)] = txs[Attempt(q)]
      BY <2>1, <2>3, OtherAttempt DEF Post, Goto, TypeOK
    <3> QED BY <2>1, <3>1 DEF Post, Progress, Accepted
  <2> QED BY <2>2, <2>3
<1>4. CopiedRows'
  BY ConstantsAssumption DEF Post, CopiedRows, Progress, Fresh, BeforeOpen, Goto, Attempt,
     Attempts, TypeOK, Handler, Row, Record
<1>5. PostedIsRecorded'
  BY ConstantsAssumption DEF Post, PostedIsRecorded, Progress, Fresh, BeforeOpen, Goto,
     Attempt, Attempts, TypeOK, Handler, Row
<1>6. HashedIsAccepted'
  BY ConstantsAssumption DEF Post, HashedIsAccepted, Progress, Fresh, BeforeOpen, Accepted,
     Outcomes, Goto, Attempt, Attempts, TypeOK, Handler, Row
<1>7. ConfirmedIsMined'
  BY ConstantsAssumption DEF Post, ConfirmedIsMined, HashedIsAccepted, Progress, Fresh,
     BeforeOpen, Outcomes, Goto, Attempt, Attempts, TypeOK, Handler, Row
<1> QED BY <1>1, <1>2, <1>3, <1>4, <1>5, <1>6, <1>7

LEMMA HashAnswersKeeps ==
  ASSUME IInv, TypeOK', Named', NEW r \in Requests, HashAnswers(r)
  PROVE  IInv'
<1> USE DEF IInv
<1>1. LoopHeld'
  BY ConstantsAssumption DEF HashAnswers, Goto, LoopHeld, Running, TypeOK
<1>2. Fresh'
  BY ConstantsAssumption DEF HashAnswers, CanTransition, Transitions, Fresh, BeforeOpen,
     Progress, Goto, Attempt, Attempts, TypeOK
<1>3. Progress'
  <2> SUFFICES ASSUME NEW q \in Requests PROVE Progress!(q)'
    BY DEF Progress
  <2>1. Attempt(q) \in Attempts /\ Attempt(q)' = Attempt(q)
    BY AttemptTypes DEF HashAnswers, Goto, Attempt, TypeOK, Handler
  <2>2. CASE q = r
    <3>1. rows'[Attempt(r)].state = "BROADCAST" /\ rows'[Attempt(r)].nonce = reqs[r].nonce
      BY <2>1, <2>2 DEF HashAnswers, TypeOK, Row
    <3>2. reqs'[r].pc = "RECORDING_HASH" /\ reqs'[r].nonce = reqs[r].nonce
      BY DEF HashAnswers, Goto, TypeOK, Handler
    <3> QED BY <2>1, <2>2, <3>1, <3>2 DEF HashAnswers, Progress, Accepted
  <2>3. CASE q # r
    <3>1. reqs'[q] = reqs[q] /\ rows'[Attempt(q)] = rows[Attempt(q)]
      BY <2>1, <2>3, OtherAttempt DEF HashAnswers, Goto, TypeOK
    <3> QED BY <2>1, <3>1 DEF HashAnswers, Progress, Accepted
  <2> QED BY <2>2, <2>3
<1>4. CopiedRows'
  BY ConstantsAssumption DEF HashAnswers, CanTransition, Transitions, CopiedRows, Progress,
     Fresh, BeforeOpen, Goto, Attempt, Attempts, TypeOK, Handler, Row, Record
<1>5. PostedIsRecorded'
  BY ConstantsAssumption DEF HashAnswers, CanTransition, Transitions, PostedIsRecorded,
     Progress, Fresh, BeforeOpen, Goto, Attempt, Attempts, TypeOK, Handler, Row
<1>6. HashedIsAccepted'
  BY ConstantsAssumption DEF HashAnswers, CanTransition, Transitions, HashedIsAccepted,
     Progress, Fresh, BeforeOpen, Accepted, Outcomes, Goto, Attempt, Attempts, TypeOK,
     Handler, Row
<1>7. ConfirmedIsMined'
  BY ConstantsAssumption DEF HashAnswers, CanTransition, Transitions, ConfirmedIsMined,
     HashedIsAccepted, Progress, Fresh, BeforeOpen, Outcomes, Goto, Attempt, Attempts,
     TypeOK, Handler, Row
<1> QED BY <1>1, <1>2, <1>3, <1>4, <1>5, <1>6, <1>7

LEMMA RecordHashKeeps ==
  ASSUME IInv, TypeOK', Named', NEW r \in Requests, RecordHash(r)
  PROVE  IInv'
<1> USE DEF IInv
<1>1. LoopHeld'
  BY ConstantsAssumption DEF RecordHash, HasNextCall, Goto, LoopHeld, Running, TypeOK,
     Handler
<1>2. Fresh'
  BY ConstantsAssumption DEF RecordHash, CanTransition, Transitions, HasNextCall, Fresh,
     BeforeOpen, Progress, Goto, Attempt, Attempts, TypeOK, Handler
<1>3. Progress'
  BY ConstantsAssumption DEF RecordHash, CanTransition, Transitions, HasNextCall, Progress,
     Fresh, BeforeOpen, Accepted, LoopHeld, Running, Goto, Attempt, Attempts, TypeOK,
     Handler
<1>4. CopiedRows'
  BY ConstantsAssumption DEF RecordHash, CanTransition, Transitions, HasNextCall,
     CopiedRows, Progress, Fresh, BeforeOpen, Goto, Attempt, Attempts, TypeOK, Handler, Row,
     Record
<1>5. PostedIsRecorded'
  BY ConstantsAssumption DEF RecordHash, CanTransition, Transitions, HasNextCall,
     PostedIsRecorded, Progress, Fresh, BeforeOpen, Goto, Attempt, Attempts, TypeOK,
     Handler, Row
<1>6. HashedIsAccepted'
  <2> SUFFICES ASSUME NEW a \in Attempts PROVE HashedIsAccepted!(a)'
    BY DEF HashedIsAccepted
  <2>1. CASE a = Attempt(r)
    BY <2>1 DEF RecordHash, HashedIsAccepted, Progress, Accepted, Outcomes, TypeOK
  <2>2. CASE a # Attempt(r)
    BY <2>2 DEF RecordHash, HashedIsAccepted, TypeOK
  <2> QED BY <2>1, <2>2
<1>7. ConfirmedIsMined'
  BY ConstantsAssumption DEF RecordHash, CanTransition, Transitions, HasNextCall,
     ConfirmedIsMined, HashedIsAccepted, Progress, Fresh, BeforeOpen, Outcomes, Goto,
     Attempt, Attempts, TypeOK, Handler, Row
<1> QED BY <1>1, <1>2, <1>3, <1>4, <1>5, <1>6, <1>7

LEMMA AcceptKeeps ==
  ASSUME IInv, TypeOK', Named', NEW a \in Attempts, Accept(a)
  PROVE  IInv'
<1> USE DEF IInv
<1>1. LoopHeld'
  BY DEF Accept, LoopHeld
<1>2. Fresh'
  BY ConstantsAssumption DEF Accept, Fresh, Attempts, TypeOK, Tx
<1>3. Progress'
  <2> SUFFICES ASSUME NEW q \in Requests PROVE Progress!(q)'
    BY DEF Progress
  <2>1. Attempt(q) \in Attempts /\ Attempt(q)' = Attempt(q)
    BY AttemptTypes DEF Accept, Attempt
  <2> QED BY <2>1 DEF Accept, Progress, Accepted, Outcomes, TypeOK
<1>4. CopiedRows'
  BY CopiesFrame DEF Accept
<1>5. PostedIsRecorded'
  BY DEF Accept, PostedIsRecorded, TypeOK, Tx
<1>6. HashedIsAccepted'
  BY DEF Accept, HashedIsAccepted, Outcomes, TypeOK, Tx
<1>7. ConfirmedIsMined'
  BY DEF Accept, ConfirmedIsMined, HashedIsAccepted, Outcomes, TypeOK
<1> QED BY <1>1, <1>2, <1>3, <1>4, <1>5, <1>6, <1>7

LEMMA RefuseKeeps ==
  ASSUME IInv, TypeOK', Named', NEW a \in Attempts, Refuse(a)
  PROVE  IInv'
<1> USE DEF IInv
<1>1. LoopHeld'
  BY DEF Refuse, LoopHeld
<1>2. Fresh'
  BY ConstantsAssumption DEF Refuse, Fresh, Attempts, TypeOK, Tx
<1>3. Progress'
  <2> SUFFICES ASSUME NEW q \in Requests PROVE Progress!(q)'
    BY DEF Progress
  <2>1. Attempt(q) \in Attempts /\ Attempt(q)' = Attempt(q)
    BY AttemptTypes DEF Refuse, Attempt
  <2> QED BY <2>1 DEF Refuse, Progress, Accepted, Outcomes, TypeOK
<1>4. CopiedRows'
  BY CopiesFrame DEF Refuse
<1>5. PostedIsRecorded'
  BY DEF Refuse, PostedIsRecorded, TypeOK, Tx
<1>6. HashedIsAccepted'
  BY DEF Refuse, HashedIsAccepted, Outcomes, TypeOK, Tx
<1>7. ConfirmedIsMined'
  BY DEF Refuse, ConfirmedIsMined, HashedIsAccepted, Outcomes, TypeOK
<1> QED BY <1>1, <1>2, <1>3, <1>4, <1>5, <1>6, <1>7

LEMMA EvictKeeps ==
  ASSUME IInv, TypeOK', Named', NEW a \in Attempts, Evict(a)
  PROVE  IInv'
<1> USE DEF IInv
<1>1. LoopHeld'
  BY DEF Evict, LoopHeld
<1>2. Fresh'
  BY ConstantsAssumption DEF Evict, Fresh, Attempts, TypeOK, Tx
<1>3. Progress'
  <2> SUFFICES ASSUME NEW q \in Requests PROVE Progress!(q)'
    BY DEF Progress
  <2>1. Attempt(q) \in Attempts /\ Attempt(q)' = Attempt(q)
    BY AttemptTypes DEF Evict, Attempt
  <2> QED BY <2>1 DEF Evict, Progress, Accepted, Outcomes, TypeOK
<1>4. CopiedRows'
  BY CopiesFrame DEF Evict
<1>5. PostedIsRecorded'
  BY DEF Evict, PostedIsRecorded, TypeOK, Tx
<1>6. HashedIsAccepted'
  BY DEF Evict, HashedIsAccepted, Outcomes, TypeOK, Tx
<1>7. ConfirmedIsMined'
  BY DEF Evict, ConfirmedIsMined, HashedIsAccepted, Outcomes, TypeOK
<1> QED BY <1>1, <1>2, <1>3, <1>4, <1>5, <1>6, <1>7

LEMMA MineKeeps ==
  ASSUME IInv, TypeOK', Named', NEW a \in Attempts, NEW outcome \in Outcomes, Mine(a, outcome)
  PROVE  IInv'
<1> USE DEF IInv
<1>1. LoopHeld'
  BY DEF Mine, LoopHeld
<1>2. Fresh'
  BY ConstantsAssumption DEF Mine, Fresh, Attempts, TypeOK, Tx
<1>3. Progress'
  <2> SUFFICES ASSUME NEW q \in Requests PROVE Progress!(q)'
    BY DEF Progress
  <2>1. Attempt(q) \in Attempts /\ Attempt(q)' = Attempt(q)
    BY AttemptTypes DEF Mine, Attempt
  <2> QED BY <2>1 DEF Mine, Progress, Accepted, Outcomes, TypeOK
<1>4. CopiedRows'
  BY CopiesFrame DEF Mine
<1>5. PostedIsRecorded'
  BY DEF Mine, PostedIsRecorded, TypeOK, Tx
<1>6. HashedIsAccepted'
  BY DEF Mine, HashedIsAccepted, Outcomes, TypeOK, Tx
<1>7. ConfirmedIsMined'
  BY DEF Mine, ConfirmedIsMined, HashedIsAccepted, Outcomes, TypeOK
<1> QED BY <1>1, <1>2, <1>3, <1>4, <1>5, <1>6, <1>7

LEMMA SweepStartKeeps ==
  ASSUME IInv, TypeOK', Named', NEW s \in Sweeps, SweepStart(s)
  PROVE  IInv'
<1> USE DEF IInv
<1>1. LoopHeld'
  BY ConstantsAssumption DEF SweepStart, SweepAt, LoopHeld, TypeOK, Sweep
<1>2. CopiedRows'
  BY DEF SweepStart, SweepAt, CopiedRows, Snapshot, InFlight, IsInFlight, TypeOK
<1> QED BY <1>1, <1>2, RecordsFrame, HandlersFrame DEF SweepStart

LEMMA SweepReadsNonceKeeps ==
  ASSUME IInv, TypeOK', Named', NEW s \in Sweeps, SweepReadsNonce(s)
  PROVE  IInv'
<1> USE DEF IInv
<1>1. LoopHeld'
  BY ConstantsAssumption DEF SweepReadsNonce, SweepAt, LoopHeld, TypeOK, Sweep
<1>2. CopiedRows'
  BY DEF SweepReadsNonce, SweepAt, CopiedRows, TypeOK, Sweep
<1> QED BY <1>1, <1>2, RecordsFrame, HandlersFrame DEF SweepReadsNonce

LEMMA AskReceiptKeeps ==
  ASSUME IInv, TypeOK', Named', NEW s \in Sweeps, AskReceipt(s)
  PROVE  IInv'
<1> USE DEF IInv
<1>1. LoopHeld'
  BY ConstantsAssumption DEF AskReceipt, SweepAt, LoopHeld, TypeOK, Sweep
<1>2. CopiedRows'
  BY DEF AskReceipt, SweepAt, CopiedRows, TypeOK, Sweep
<1> QED BY <1>1, <1>2, RecordsFrame, HandlersFrame DEF AskReceipt

LEMMA ReceiptUnansweredKeeps ==
  ASSUME IInv, TypeOK', Named', NEW s \in Sweeps, ReceiptUnanswered(s)
  PROVE  IInv'
<1> USE DEF IInv
<1>1. LoopHeld'
  BY ConstantsAssumption DEF ReceiptUnanswered, SweepAt, Resolved, LoopHeld, TypeOK
<1>2. CopiedRows'
  BY DEF ReceiptUnanswered, SweepAt, Resolved, CopiedRows, TypeOK
<1> QED BY <1>1, <1>2, RecordsFrame, HandlersFrame DEF ReceiptUnanswered

LEMMA ResolveUnresolvedKeeps ==
  ASSUME IInv, TypeOK', Named', NEW s \in Sweeps, ResolveUnresolved(s)
  PROVE  IInv'
<1> USE DEF IInv
<1>1. LoopHeld'
  BY ConstantsAssumption DEF ResolveUnresolved, SweepAt, Resolved, LoopHeld, TypeOK
<1>2. CopiedRows'
  BY DEF ResolveUnresolved, SweepAt, Resolved, CopiedRows, TypeOK
<1> QED BY <1>1, <1>2, RecordsFrame, HandlersFrame DEF ResolveUnresolved

LEMMA SweepReturnsKeeps ==
  ASSUME IInv, TypeOK', Named', NEW s \in Sweeps, SweepReturns(s)
  PROVE  IInv'
<1> USE DEF IInv
<1>1. LoopHeld'
  BY ConstantsAssumption DEF SweepReturns, SweepAt, LoopHeld, TypeOK, Sweep
<1>2. CopiedRows'
  BY DEF SweepReturns, SweepAt, CopiedRows, TypeOK, Sweep
<1> QED BY <1>1, <1>2, RecordsFrame, HandlersFrame DEF SweepReturns

LEMMA ReceiptConfirmsKeeps ==
  ASSUME IInv, TypeOK', Named', NEW s \in Sweeps, NEW a \in Attempts, ReceiptConfirms(s, a)
  PROVE  IInv'
<1> USE DEF IInv
<1>1. PICK record \in sweeps[s].todo :
        /\ record.id = a
        /\ \/ /\ CanTransition(rows[a].state, "CONFIRMED")
              /\ rows' = [rows EXCEPT ![a] =
                            [@ EXCEPT !.state = "CONFIRMED", !.outcome = txs[a].status]]
              /\ Resolved(s, record, FALSE)
           \/ SweepThrows(s) /\ UNCHANGED rows
  BY DEF ReceiptConfirms
<1>2. rows[a].state \in TransactionStates
  BY <1>1 DEF CopiedRows, TypeOK, Row, RowStates
<1>3. CASE SweepThrows(s) /\ UNCHANGED rows
  <2>1. LoopHeld'
    BY <1>3, ConstantsAssumption DEF ReceiptConfirms, SweepThrows, LoopHeld, TypeOK, Sweep
  <2>2. CopiedRows'
    BY <1>3 DEF SweepThrows, CopiedRows, TypeOK
  <2> QED BY <1>3, <2>1, <2>2, RecordsFrame, HandlersFrame DEF ReceiptConfirms
<1>4. CASE /\ CanTransition(rows[a].state, "CONFIRMED")
           /\ rows' = [rows EXCEPT ![a] =
                         [@ EXCEPT !.state = "CONFIRMED", !.outcome = txs[a].status]]
           /\ Resolved(s, record, FALSE)
  <2>1. rows[a].state = "PENDING"
    BY <1>2, <1>4 DEF CanTransition, Transitions, TransactionStates
  <2>2. UNCHANGED <<reqs, txs>> /\ txs[a].status \in Outcomes
    BY DEF ReceiptConfirms, Mined
  <2>3. /\ rows'[a].state = "CONFIRMED" /\ rows'[a].outcome = txs[a].status
        /\ rows'[a].nonce = rows[a].nonce /\ rows'[a].hash = rows[a].hash
        /\ \A b \in Attempts \ {a} : rows'[b] = rows[b]
    BY <1>4 DEF TypeOK, Row
  <2>4. LoopHeld'
    BY <1>4, ConstantsAssumption DEF ReceiptConfirms, Resolved, LoopHeld, TypeOK, Sweep
  <2>5. Fresh'
    BY <2>1, <2>2, <2>3, ConstantsAssumption DEF Fresh, Attempts, TypeOK
  <2>6. Progress'
    <3> SUFFICES ASSUME NEW q \in Requests PROVE Progress!(q)'
      BY DEF Progress
    <3>1. Attempt(q) \in Attempts /\ Attempt(q)' = Attempt(q)
      BY <2>2, AttemptTypes DEF Attempt
    <3> QED BY <2>1, <2>2, <2>3, <3>1 DEF Progress, Accepted
  <2>7. CopiedRows'
    BY <1>4, <2>3, RecordFields, SweepFields DEF CopiedRows, Resolved, TypeOK
  <2>8. PostedIsRecorded' /\ HashedIsAccepted' /\ ConfirmedIsMined'
    BY <2>1, <2>2, <2>3 DEF PostedIsRecorded, HashedIsAccepted, ConfirmedIsMined
  <2> QED BY <2>4, <2>5, <2>6, <2>7, <2>8
<1> QED BY <1>1, <1>3, <1>4

LEMMA ResolveNeverSentKeeps ==
  ASSUME IInv, TypeOK', Named', NEW s \in Sweeps, ResolveNeverSent(s)
  PROVE  IInv'
<1> USE DEF IInv
<1>1. PICK record \in sweeps[s].todo :
        \/ /\ CanTransition(rows[record.id].state, "FAILED_RETRYABLE")
           /\ rows' = [rows EXCEPT ![record.id].state = "FAILED_RETRYABLE"]
           /\ Resolved(s, record, TRUE)
        \/ SweepThrows(s) /\ UNCHANGED rows
  BY DEF ResolveNeverSent
<1> DEFINE a == record.id
<1>2. a \in Attempts
  BY SweepFields, RecordFields
<1>3. rows[a].state \in TransactionStates \ {"READY"}
  BY <1>1, <1>2 DEF CopiedRows, TypeOK, Row, RowStates
<1> HIDE DEF a
<1>4. CASE SweepThrows(s) /\ UNCHANGED rows
  <2>1. LoopHeld'
    BY <1>4, ConstantsAssumption DEF ResolveNeverSent, SweepThrows, LoopHeld, TypeOK, Sweep
  <2>2. CopiedRows'
    BY <1>4 DEF SweepThrows, CopiedRows, TypeOK
  <2> QED BY <1>4, <2>1, <2>2, RecordsFrame, HandlersFrame DEF ResolveNeverSent
<1>5. CASE /\ CanTransition(rows[a].state, "FAILED_RETRYABLE")
           /\ rows' = [rows EXCEPT ![a].state = "FAILED_RETRYABLE"]
           /\ Resolved(s, record, TRUE)
  <2>1. rows[a].state \in {"SIGNING", "BROADCAST"}
    BY <1>3, <1>5 DEF CanTransition, Transitions, TransactionStates
  <2>2. UNCHANGED <<reqs, txs>> /\ thread = s
    BY DEF ResolveNeverSent
  <2>3. /\ rows'[a].state = "FAILED_RETRYABLE"
        /\ \A b \in Attempts \ {a} : rows'[b] = rows[b]
    BY <1>2, <1>5 DEF TypeOK, Row
  <2>4. LoopHeld'
    BY <1>5, ConstantsAssumption DEF ResolveNeverSent, Resolved, LoopHeld, TypeOK, Sweep
  <2>5. Fresh'
    BY <1>2, <2>1, <2>2, <2>3, ConstantsAssumption DEF Fresh, Attempts, TypeOK
  <2>6. Progress'
    <3> SUFFICES ASSUME NEW q \in Requests PROVE Progress!(q)'
      BY DEF Progress
    <3>1. Attempt(q) \in Attempts /\ Attempt(q)' = Attempt(q)
      BY <2>2, AttemptTypes DEF Attempt
    <3>2. reqs[q].pc \notin Running
      BY <2>2, ConstantsAssumption DEF LoopHeld
    <3> QED BY <2>1, <2>2, <2>3, <3>1, <3>2 DEF Progress, Accepted, Running
  <2>7. CopiedRows'
    BY <1>5, <2>3, RecordFields, SweepFields DEF CopiedRows, Resolved, TypeOK
  <2>8. PostedIsRecorded' /\ HashedIsAccepted' /\ ConfirmedIsMined'
    BY <2>1, <2>2, <2>3 DEF PostedIsRecorded, HashedIsAccepted, ConfirmedIsMined
  <2> QED BY <2>4, <2>5, <2>6, <2>7, <2>8
<1> QED BY <1>1, <1>4, <1>5 DEF a

LEMMA ResolveElsewhereKeeps ==
  ASSUME IInv, TypeOK', Named', NEW organ \in Organs, ResolveElsewhere(organ)
  PROVE  IInv'
<1>1. LoopHeld'
  BY DEF ResolveElsewhere, LoopHeld, IInv
<1> QED BY <1>1, RecordsFrame, CopiesFrame, HandlersFrame DEF ResolveElsewhere, IInv

LEMMA CrashKeeps ==
  ASSUME IInv, TypeOK', Named', Crash
  PROVE  IInv'
<1> USE DEF IInv
<1>1. LoopHeld'
  BY ConstantsAssumption DEF Crash, LoopHeld, Parked, Running, TypeOK
<1>2. Fresh'
  BY DEF Crash, Fresh, BeforeOpen, TypeOK, Handler
<1>3. Progress'
  BY DEF Crash, Progress, Attempt, Accepted, Parked, Running, TypeOK
<1>4. CopiedRows'
  BY DEF Crash, CopiedRows
<1> QED BY <1>1, <1>2, <1>3, <1>4, RecordsFrame DEF Crash

LEMMA StepKeepsInv == IInv /\ [Next]_vars => IInv'
<1> SUFFICES ASSUME IInv, [Next]_vars PROVE IInv'
  OBVIOUS
<1>1. TypeOK' /\ Named'
  BY StepKeepsType DEF IInv
<1>2. ASSUME NEW r \in Requests, HandlerStep(r) \/ \E op \in Ops : Press(r, op)
      PROVE  IInv'
  BY <1>1, <1>2, PressKeeps, DeriveFailsKeeps, RefuseInFlightKeeps, PassGuardKeeps,
     EncodeAnswersKeeps, EncodeFailsKeeps, OpenKeeps, MarkSigningKeeps, NonceAnswersKeeps,
     PostKeeps, SubmitThrowsKeeps, HashAnswersKeeps, HashRejectedKeeps, RecordHashKeeps
     DEF HandlerStep
<1>3. CASE ChainStep
  BY <1>1, <1>3, AcceptKeeps, RefuseKeeps, EvictKeeps, MineKeeps DEF ChainStep
<1>4. ASSUME NEW s \in Sweeps, SweepStart(s) \/ SweepStep(s)
      PROVE  IInv'
  BY <1>1, <1>4, SweepStartKeeps, SweepReadsNonceKeeps, AskReceiptKeeps,
     ReceiptUnansweredKeeps, ReceiptConfirmsKeeps, ResolveNeverSentKeeps,
     ResolveUnresolvedKeeps, SweepReturnsKeeps DEF SweepStep
<1>5. CASE UNCHANGED vars
  BY <1>1, <1>5, RecordsFrame, CopiesFrame, HandlersFrame DEF IInv, vars, LoopHeld
<1> QED BY <1>1, <1>2, <1>3, <1>4, <1>5, ResolveElsewhereKeeps, CrashKeeps DEF Next

LEMMA InvHolds == Spec => []IInv
BY InitInv, StepKeepsInv, PTL DEF Spec

-----------------------------------------------------------------------------
(* The properties. *)

\* Whatever crashes, a posted transaction has a row that says it was signed.
THEOREM PostedRecorded == Spec => []PostedIsRecorded
BY InvHolds, PTL DEF IInv

\* A row with a hash names a transaction the provider took, under its nonce.
THEOREM HashedAccepted == Spec => []HashedIsAccepted
BY InvHolds, PTL DEF IInv

\* A CONFIRMED row records the outcome its own transaction was mined with.
THEOREM ConfirmedMined == Spec => []ConfirmedIsMined
BY InvHolds, PTL DEF IInv

\* A refusal before the signer left neither row nor transaction.
THEOREM RefusedSentNothing == Spec => []RefusalSentNothing
<1>1. IInv => RefusalSentNothing
  BY ConstantsAssumption DEF IInv, Fresh, BeforeOpen, RefusalSentNothing, TypeOK
<1> QED BY <1>1, InvHolds, PTL

\* A sweep changes the state of a row only to CONFIRMED, or to
\* FAILED_RETRYABLE where the table lets it.
LEMMA SweepsMoveRows ==
  ASSUME TypeOK, NEW s \in Sweeps, SweepStart(s) \/ SweepStep(s), NEW a \in Attempts
  PROVE  \/ rows'[a].state \in {rows[a].state, "CONFIRMED"}
         \/ /\ rows'[a].state = "FAILED_RETRYABLE"
            /\ CanTransition(rows[a].state, "FAILED_RETRYABLE")
<1>1. CASE \E b \in Attempts : ReceiptConfirms(s, b)
  <2>1. PICK b \in Attempts : ReceiptConfirms(s, b)
    BY <1>1
  <2>2. CASE UNCHANGED rows
    BY <2>2
  <2>3. CASE rows' = [rows EXCEPT ![b] =
                        [@ EXCEPT !.state = "CONFIRMED", !.outcome = txs[b].status]]
    BY <2>3 DEF TypeOK, Row
  <2> QED BY <2>1, <2>2, <2>3 DEF ReceiptConfirms
<1>2. CASE ResolveNeverSent(s)
  <2>1. CASE UNCHANGED rows
    BY <2>1
  <2>2. ASSUME NEW record \in sweeps[s].todo,
               CanTransition(rows[record.id].state, "FAILED_RETRYABLE"),
               rows' = [rows EXCEPT ![record.id].state = "FAILED_RETRYABLE"]
        PROVE  \/ rows'[a].state = rows[a].state
               \/ /\ rows'[a].state = "FAILED_RETRYABLE"
                  /\ CanTransition(rows[a].state, "FAILED_RETRYABLE")
    BY <2>2 DEF TypeOK, Row
  <2> QED BY <1>2, <2>1, <2>2 DEF ResolveNeverSent
<1>3. CASE UNCHANGED rows
  BY <1>3
<1> QED BY <1>1, <1>2, <1>3 DEF SweepStart, SweepStep, SweepReadsNonce, AskReceipt,
           ReceiptUnanswered, ResolveUnresolved, SweepReturns

\* PENDING is never FAILED: the only step that moves a PENDING row confirms it,
\* and nothing moves a CONFIRMED one.
LEMMA StepOnlyConfirms ==
  ASSUME IInv, [Next]_vars, NEW a \in Attempts, rows[a].state \in {"PENDING", "CONFIRMED"}
  PROVE  rows'[a].state \in {"PENDING", "CONFIRMED"}
<1> USE DEF IInv
<1>1. ASSUME NEW r \in Requests, HandlerStep(r) \/ \E op \in Ops : Press(r, op)
      PROVE  rows'[a].state \in {"PENDING", "CONFIRMED"}
  <2>1. Attempt(r) \in Attempts
    BY AttemptTypes
  <2>2. CASE Open(r)
    <3>1. rows[Attempt(r)].state = "ABSENT"
      BY <2>2, ConstantsAssumption DEF Open, Fresh, BeforeOpen, Attempt, TypeOK, Handler
    <3> QED BY <2>1, <2>2, <3>1 DEF Open, TypeOK
  <2>3. CASE MarkSigning(r) \/ HashAnswers(r) \/ RecordHash(r)
    <3>1. rows[Attempt(r)].state \notin {"PENDING", "CONFIRMED"}
      BY <2>3 DEF MarkSigning, HashAnswers, RecordHash, Progress
    <3> QED BY <2>1, <2>3, <3>1 DEF MarkSigning, HashAnswers, RecordHash, TypeOK
  <2>4. CASE UNCHANGED rows
    BY <2>4
  <2> QED BY <1>1, <2>2, <2>3, <2>4 DEF HandlerStep, Press, DeriveFails, RefuseInFlight,
             PassGuard, EncodeAnswers, EncodeFails, NonceAnswers, Post, SubmitThrows,
             HashRejected
<1>2. ASSUME NEW s \in Sweeps, SweepStart(s) \/ SweepStep(s)
      PROVE  rows'[a].state \in {"PENDING", "CONFIRMED"}
  BY <1>2, SweepsMoveRows DEF CanTransition, Transitions
<1>3. CASE UNCHANGED rows
  BY <1>3
<1> QED BY <1>1, <1>2, <1>3 DEF Next, ChainStep, Accept, Refuse, Evict, Mine,
           ResolveElsewhere, Crash, vars

THEOREM PendingConfirms == Spec => PendingOnlyConfirms
<1>1. IInv /\ [Next]_vars =>
        [\A a \in Attempts :
           rows[a].state = "PENDING" => rows'[a].state \in {"PENDING", "CONFIRMED"}]_vars
  BY StepOnlyConfirms
<1> QED BY <1>1, InvHolds, PTL DEF Spec, PendingOnlyConfirms

\* A step that is no sweep's moves a row of its own handler at most, and that
\* on to the next state in flight.
LEMMA StepReleasesNothing ==
  ASSUME IInv, [Next]_vars, \A s \in Sweeps : ~SweepStep(s)
  PROVE  InFlight \subseteq InFlight'
<1> USE DEF IInv
<1>1. ASSUME NEW a \in Attempts, IsInFlight(rows[a].state),
             NEW r \in Requests, HandlerStep(r) \/ \E op \in Ops : Press(r, op)
      PROVE  IsInFlight(rows'[a].state)
  <2>1. Attempt(r) \in Attempts
    BY AttemptTypes
  <2>2. CASE Open(r)
    <3>1. rows[Attempt(r)].state = "ABSENT"
      BY <2>2, ConstantsAssumption DEF Open, Fresh, BeforeOpen, Attempt, TypeOK, Handler
    <3> QED BY <1>1, <2>1, <2>2, <3>1 DEF Open, TypeOK, IsInFlight
  <2>3. CASE MarkSigning(r)
    BY <1>1, <2>1, <2>3 DEF MarkSigning, TypeOK, Row, IsInFlight
  <2>4. CASE HashAnswers(r)
    BY <1>1, <2>1, <2>4 DEF HashAnswers, TypeOK, Row, IsInFlight
  <2>5. CASE RecordHash(r)
    BY <1>1, <2>1, <2>5 DEF RecordHash, TypeOK, Row, IsInFlight
  <2>6. CASE UNCHANGED rows
    BY <1>1, <2>6
  <2> QED BY <1>1, <2>2, <2>3, <2>4, <2>5, <2>6 DEF HandlerStep, Press, DeriveFails, RefuseInFlight,
             PassGuard, EncodeAnswers, EncodeFails, NonceAnswers, Post, SubmitThrows,
             HashRejected
<1>2. CASE UNCHANGED rows
  BY <1>2 DEF InFlight
<1>3. CASE \E s \in Sweeps : SweepStart(s)
  BY <1>2, <1>3 DEF SweepStart
<1>4. CASE \E r \in Requests : HandlerStep(r) \/ \E op \in Ops : Press(r, op)
  BY <1>1, <1>4 DEF InFlight
<1> QED BY <1>2, <1>3, <1>4 DEF Next, ChainStep, Accept, Refuse, Evict, Mine,
           ResolveElsewhere, Crash, vars

\* Until a sweep ends it, a write keeps its wallet from writing: no lost answer,
\* crash, mined transaction or other press takes its row out of flight, for
\* every number of presses and calls (submitOperation.ts:165-170).
THEOREM SweepsRelease == Spec => OnlySweepsRelease
<1>1. IInv /\ [Next]_vars =>
        [(\A s \in Sweeps : ~SweepStep(s)) => InFlight \subseteq InFlight']_vars
  BY StepReleasesNothing
<1> QED BY <1>1, InvHolds, PTL DEF Spec, OnlySweepsRelease

-----------------------------------------------------------------------------
(* One writer at a time, among presses that wait for no organ. *)

\* A press whose calls carry no organ, so that encoding them never waits.
Plain(r) == OrganOf[reqs[r].op] = NoOrgan

PlainInFlight == {a \in InFlight : Plain(a[1])}

OnePlainWriter == \A a, b \in PlainInFlight : a[1] = b[1]

\* A plain handler between the guard and its row being SIGNING.
Opening(r) == Plain(r) /\ reqs[r].pc \in {"OPENING", "MARKING"}

\* No other plain press has a row in flight beside such a handler.
Sole == \A r \in Requests : Opening(r) => \A a \in PlainInFlight : a[1] = r

\* A press, which gives a handler its operation, has no row yet.
LEMMA OperationsStay ==
  ASSUME IInv, [Next]_vars, NEW r \in Requests, reqs[r].pc # "IDLE"
  PROVE  Plain(r)' <=> Plain(r)
<1> USE DEF IInv
<1>1. ASSUME NEW q \in Requests, HandlerStep(q) \/ \E op \in Ops : Press(q, op)
      PROVE  reqs'[r].op = reqs[r].op
  BY <1>1 DEF HandlerStep, Press, DeriveFails, RefuseInFlight, PassGuard, EncodeAnswers,
     EncodeFails, Open, MarkSigning, NonceAnswers, Post, SubmitThrows, HashAnswers, HashRejected,
     RecordHash, Goto, TypeOK, Handler
<1>2. CASE Crash
  BY <1>2 DEF Crash, Plain
<1>3. CASE \E s \in Sweeps : SweepStart(s) \/ SweepStep(s)
  BY <1>3 DEF SweepStart, SweepStep, SweepReadsNonce, AskReceipt, ReceiptUnanswered,
     ReceiptConfirms, ResolveNeverSent, ResolveUnresolved, SweepReturns, Plain
<1>4. CASE ChainStep
  BY <1>4 DEF ChainStep, Accept, Refuse, Evict, Mine, Plain
<1>5. CASE (\E organ \in Organs : ResolveElsewhere(organ)) \/ UNCHANGED vars
  BY <1>5 DEF ResolveElsewhere, vars, Plain
<1> QED BY <1>1, <1>2, <1>3, <1>4, <1>5 DEF Next, Plain

\* An attempt in flight belongs to a press that was made.
LEMMA InFlightPressed ==
  ASSUME IInv, NEW a \in InFlight
  PROVE  a \in Attempts /\ a[1] \in Requests /\ reqs[a[1]].pc # "IDLE"
BY DEF IInv, InFlight, IsInFlight, Attempts, Fresh, BeforeOpen, TypeOK, Handler

\* No step but PassGuard, MarkSigning and RecordHash brings a row in flight or
\* a handler to the opening of one.
LEMMA HandlersOpen ==
  ASSUME IInv, [Next]_vars, NEW r \in Requests,
         HandlerStep(r) \/ \E op \in Ops : Press(r, op),
         ~MarkSigning(r), ~PassGuard(r), ~RecordHash(r)
  PROVE  InFlight' \subseteq InFlight /\ \A q \in Requests : Opening(q)' => Opening(q)
<1> USE DEF IInv
<1>1. Attempt(r) \in Attempts
  BY AttemptTypes
<1>2. ASSUME NEW q \in Requests, Opening(q)'
      PROVE  Opening(q)
  <2>1. reqs'[q].pc \in {"OPENING", "MARKING"}
    BY <1>2 DEF Opening
  <2>2. CASE EncodeAnswers(r) \/ Open(r)
    <3>1. reqs[q].pc \in {"OPENING", "MARKING", "ENCODING"}
      BY <2>1, <2>2 DEF EncodeAnswers, Open, Goto, TypeOK, Handler
    <3>2. Plain(q)
      BY <1>2, <3>1, OperationsStay DEF Opening
    <3>3. reqs[q].pc # "ENCODING"
      BY <3>2, ConstantsAssumption DEF Named, Plain
    <3> QED BY <3>1, <3>2, <3>3 DEF Opening
  <2>3. CASE (\E op \in Ops : Press(r, op)) \/ NonceAnswers(r)
    <3>1. reqs[q].pc \in {"OPENING", "MARKING"}
      BY <2>1, <2>3 DEF Press, NonceAnswers, TypeOK, Handler
    <3> QED BY <1>2, <3>1, OperationsStay DEF Opening
  <2>4. CASE \/ DeriveFails(r) \/ RefuseInFlight(r) \/ EncodeFails(r)
             \/ Post(r) \/ SubmitThrows(r) \/ HashAnswers(r) \/ HashRejected(r)
    <3>1. reqs[q].pc \in {"OPENING", "MARKING"}
      BY <2>1, <2>4 DEF DeriveFails, RefuseInFlight, EncodeFails, Post, SubmitThrows, Partial,
         HashAnswers, HashRejected, Goto, TypeOK, Handler
    <3> QED BY <1>2, <3>1, OperationsStay DEF Opening
  <2> QED BY <2>2, <2>3, <2>4 DEF HandlerStep
<1>3. CASE Open(r)
  BY <1>1, <1>2, <1>3 DEF Open, InFlight, IsInFlight, TypeOK
<1>4. CASE HashAnswers(r)
  <2>1. rows[Attempt(r)].state = "SIGNING"
    <3>1. rows[Attempt(r)].state \in TransactionStates
      BY <1>1, <1>4 DEF HashAnswers, Progress, TypeOK, Row, RowStates
    <3> QED BY <1>4, <3>1 DEF HashAnswers, CanTransition, Transitions, TransactionStates
  <2>2. InFlight' \subseteq InFlight
    BY <1>1, <1>4, <2>1 DEF HashAnswers, InFlight, IsInFlight, TypeOK
  <2> QED BY <1>2, <2>2
<1>5. CASE ~Open(r) /\ ~HashAnswers(r)
  <2>1. UNCHANGED rows
    BY <1>5 DEF HandlerStep, Press, DeriveFails, RefuseInFlight, EncodeAnswers, EncodeFails,
       NonceAnswers, Post, SubmitThrows, HashRejected
  <2> QED BY <1>2, <2>1 DEF InFlight
<1> QED BY <1>3, <1>4, <1>5

\* Neither does any step of a sweep, of the chain or of the rest.
LEMMA OthersOpen ==
  ASSUME IInv, [Next]_vars,
         \/ \E s \in Sweeps : SweepStart(s) \/ SweepStep(s)
         \/ ChainStep
         \/ \E organ \in Organs : ResolveElsewhere(organ)
         \/ Crash
         \/ UNCHANGED vars
  PROVE  InFlight' \subseteq InFlight /\ \A q \in Requests : Opening(q)' => Opening(q)
<1> USE DEF IInv
<1>1. ASSUME NEW s \in Sweeps, SweepStart(s) \/ SweepStep(s)
      PROVE  InFlight' \subseteq InFlight
  BY <1>1, SweepsMoveRows DEF InFlight, IsInFlight
<1>2. CASE \E s \in Sweeps : SweepStart(s) \/ SweepStep(s)
  <2>1. UNCHANGED reqs
    BY <1>2 DEF SweepStart, SweepStep, SweepReadsNonce, AskReceipt, ReceiptUnanswered,
       ReceiptConfirms, ResolveNeverSent, ResolveUnresolved, SweepReturns
  <2> QED BY <1>1, <1>2, <2>1 DEF Opening, Plain
<1>3. CASE ChainStep
  BY <1>3 DEF ChainStep, Accept, Refuse, Evict, Mine, InFlight, Opening, Plain
<1>4. CASE \/ \E organ \in Organs : ResolveElsewhere(organ)
           \/ UNCHANGED vars
  BY <1>4 DEF ResolveElsewhere, vars, InFlight, Opening, Plain
<1>5. CASE Crash
  <2>1. \A q \in Requests : reqs'[q].pc \in {"LOST", reqs[q].pc} /\ reqs'[q].op = reqs[q].op
    BY <1>5 DEF Crash, TypeOK, Handler
  <2> QED BY <1>5, <2>1 DEF Crash, InFlight, Opening, Plain
<1> QED BY <1>2, <1>3, <1>4, <1>5

LEMMA OneHolder ==
  ASSUME IInv, NEW q \in Requests, Opening(q)
  PROVE  thread = q
BY DEF IInv, LoopHeld, Running, Opening

\* One plain writer at a time is kept by every step.
LEMMA StepKeepsOneWriter ==
  ASSUME IInv, OnePlainWriter, Sole, [Next]_vars
  PROVE  OnePlainWriter' /\ Sole'
<1>0. ASSUME NEW a \in InFlight, Plain(a[1])'
      PROVE  a \in PlainInFlight
  BY <1>0, InFlightPressed, OperationsStay DEF PlainInFlight
<1>1. ASSUME InFlight' \subseteq InFlight, \A q \in Requests : Opening(q)' => Opening(q)
      PROVE  OnePlainWriter' /\ Sole'
  <2>1. PlainInFlight' \subseteq PlainInFlight
    BY <1>0, <1>1 DEF PlainInFlight
  <2> QED BY <1>1, <2>1 DEF OnePlainWriter, Sole
<1>2. ASSUME NEW r \in Requests, MarkSigning(r)
      PROVE  OnePlainWriter' /\ Sole'
  <2>1. Attempt(r) \in Attempts /\ Attempt(r)[1] = r
    BY <1>2, AttemptTypes DEF Attempt, IInv
  <2>2. InFlight' \subseteq InFlight \cup {Attempt(r)}
    BY <1>2, <2>1 DEF MarkSigning, InFlight, IsInFlight, IInv, TypeOK
  <2>3. PlainInFlight' \subseteq PlainInFlight \cup {Attempt(r)}
    BY <1>0, <2>2 DEF PlainInFlight
  <2>4. \A q \in Requests : ~Opening(q)'
    <3>1. thread = r
      BY <1>2 DEF MarkSigning
    <3>2. \A q \in Requests : reqs'[q].pc \in {"OPENING", "MARKING"} => thread = q /\ q # r
      BY <1>2 DEF MarkSigning, Goto, IInv, LoopHeld, Running, TypeOK, Handler
    <3> QED BY <3>1, <3>2 DEF Opening
  <2>5. CASE Plain(r)
    <3>1. \A a \in PlainInFlight : a[1] = r
      BY <1>2, <2>5 DEF MarkSigning, Sole, Opening
    <3> QED BY <2>1, <2>3, <2>4, <3>1 DEF OnePlainWriter, Sole
  <2>6. CASE ~Plain(r)
    <3>1. ~Plain(r)'
      BY <1>2, <2>6, OperationsStay DEF MarkSigning
    <3>2. PlainInFlight' \subseteq PlainInFlight
      BY <2>1, <2>3, <3>1 DEF PlainInFlight
    <3> QED BY <2>4, <3>2 DEF OnePlainWriter, Sole
  <2> QED BY <2>5, <2>6
<1>3. ASSUME NEW r \in Requests, PassGuard(r)
      PROVE  OnePlainWriter' /\ Sole'
  <2>1. InFlight' = {}
    BY <1>3 DEF PassGuard, InFlight
  <2> QED BY <2>1 DEF OnePlainWriter, Sole, PlainInFlight
<1>4. ASSUME NEW r \in Requests, RecordHash(r)
      PROVE  OnePlainWriter' /\ Sole'
  <2>1. /\ Attempt(r) \in Attempts /\ Attempt(r)[1] = r
        /\ rows[Attempt(r)].state = "BROADCAST"
    BY <1>4, AttemptTypes DEF RecordHash, Progress, Attempt, IInv
  <2>2. InFlight' \subseteq InFlight
    BY <1>4, <2>1 DEF RecordHash, InFlight, IsInFlight, IInv, TypeOK
  <2>3. PlainInFlight' \subseteq PlainInFlight
    BY <1>0, <2>2 DEF PlainInFlight
  <2>4. ASSUME NEW q \in Requests, Opening(q)'
        PROVE  q = r /\ Plain(r)
    <3>1. q = r
      BY <1>4, <2>4 DEF RecordHash, Goto, Opening, IInv, LoopHeld, Running, TypeOK, Handler
    <3>2. Plain(r)
      BY <1>4, <2>4, <3>1, OperationsStay DEF Opening, RecordHash
    <3> QED BY <3>1, <3>2
  <2>5. ASSUME Plain(r)
        PROVE  \A a \in PlainInFlight : a[1] = r
    BY <2>1, <2>5 DEF OnePlainWriter, PlainInFlight, InFlight, IsInFlight
  <2> QED BY <2>3, <2>4, <2>5 DEF OnePlainWriter, Sole
<1> QED BY <1>1, <1>2, <1>3, <1>4, HandlersOpen, OthersOpen DEF Next

\* Of two presses with rows in flight one had an organ to wait for, for any
\* number of presses, calls, sweeps and crashes.  That one of them must is shown
\* by the run OrganRace, where two presses write at once.
THEOREM OneWriterHolds == Spec => []OneWriterWithoutOrgans
<1>1. Init => OnePlainWriter /\ Sole
  BY DEF Init, OnePlainWriter, Sole, PlainInFlight, InFlight, IsInFlight, Opening
<1>2. IInv /\ OnePlainWriter /\ Sole /\ [Next]_vars => OnePlainWriter' /\ Sole'
  BY StepKeepsOneWriter
<1>3. OnePlainWriter => OneWriterWithoutOrgans
  BY DEF OnePlainWriter, OneWriterWithoutOrgans, PlainInFlight, Plain
<1> QED BY <1>1, <1>2, <1>3, InvHolds, PTL DEF Spec

-----------------------------------------------------------------------------
(* What a reply tells of an operation of several calls. *)

Recorded(r, i) == rows[<<r, i>>].state \in {"PENDING", "CONFIRMED"}

\* The calls before the current one have a recorded hash, all of them once the
\* reply says so; a reply of a part was given past the first call.
Told ==
  \A r \in Requests :
    /\ \A i \in 1..(reqs[r].call - 1) : Recorded(r, i)
    /\ reqs[r].pc = "SUBMITTED" =>
         reqs[r].call >= NumCalls[reqs[r].op] /\ Recorded(r, reqs[r].call)
    /\ reqs[r].pc = "PARTIALLY_SUBMITTED" => reqs[r].call > 1

LEMMA RecordedStays ==
  ASSUME IInv, [Next]_vars, NEW r \in Requests, NEW i \in 1..MaxCalls, Recorded(r, i)
  PROVE  Recorded(r, i)'
<1>1. <<r, i>> \in Attempts
  BY DEF Attempts
<1> QED BY <1>1, StepOnlyConfirms DEF Recorded

\* A handler whose step leaves the current call and no reply of the two.
LEMMA OthersTell ==
  ASSUME IInv, Told, [Next]_vars, NEW q \in Requests,
         reqs'[q].call = reqs[q].call,
         reqs'[q].pc \in {"SUBMITTED", "PARTIALLY_SUBMITTED"} => reqs'[q] = reqs[q]
  PROVE  Told!(q)'
<1>1. reqs[q].call \in 1..MaxCalls
  BY DEF IInv, TypeOK, Handler
<1>2. \A i \in 1..(reqs[q].call - 1) : i \in 1..MaxCalls /\ Recorded(q, i)'
  BY <1>1, RecordedStays, ConstantsAssumption DEF Told
<1>3. reqs'[q].pc = "SUBMITTED" => Recorded(q, reqs[q].call)'
  BY <1>1, RecordedStays DEF Told
<1> QED BY <1>1, <1>2, <1>3 DEF Told, Recorded

LEMMA StepKeepsTold ==
  ASSUME IInv, Told, [Next]_vars
  PROVE  Told'
<1> SUFFICES ASSUME NEW q \in Requests PROVE Told!(q)'
  BY DEF Told
<1> USE DEF IInv
<1>1. ASSUME NEW r \in Requests, HandlerStep(r) \/ \E op \in Ops : Press(r, op)
      PROVE  Told!(q)'
  <2>1. CASE q # r
    <3>1. reqs'[q] = reqs[q]
      BY <1>1, <2>1 DEF HandlerStep, Press, DeriveFails, RefuseInFlight, PassGuard,
         EncodeAnswers, EncodeFails, Open, MarkSigning, NonceAnswers, Post, SubmitThrows,
         HashAnswers, HashRejected, RecordHash, Goto, TypeOK
    <3> QED BY <3>1, OthersTell
  <2>2. CASE q = r /\ RecordHash(r)
    <3>1. PICK c \in 1..MaxCalls : reqs[q].call = c
      BY DEF TypeOK, Handler
    <3>2. Recorded(q, c)'
      <4>1. Attempt(q) = <<q, c>> /\ Attempt(q) \in Attempts
        BY <3>1, AttemptTypes DEF Attempt
      <4>2. rows'[Attempt(q)].state = "PENDING"
        BY <2>2, <4>1 DEF RecordHash, TypeOK, Row
      <4> QED BY <4>1, <4>2 DEF Recorded
    <3>3. \A i \in 1..(c - 1) : Recorded(q, i)'
      BY <3>1, RecordedStays, ConstantsAssumption DEF Told
    <3>4. CASE HasNextCall(q)
      <4>1. reqs'[q].pc = "OPENING" /\ reqs'[q].call = c + 1
        BY <2>2, <3>1, <3>4 DEF RecordHash, TypeOK, Handler
      <4> QED BY <3>1, <3>2, <3>3, <4>1 DEF Recorded
    <3>5. CASE ~HasNextCall(q)
      <4>1. /\ reqs'[q].pc = "SUBMITTED" /\ reqs'[q].call = c
            /\ reqs'[q].op = reqs[q].op
        BY <2>2, <3>1, <3>5 DEF RecordHash, Goto, TypeOK, Handler
      <4>2. c >= NumCalls[reqs[q].op]
        <5>1. NumCalls[reqs[q].op] \in 1..MaxCalls
          BY <2>2, ConstantsAssumption DEF RecordHash, Named
        <5> QED BY <3>1, <3>5, <5>1 DEF HasNextCall
      <4> QED BY <3>2, <3>3, <4>1, <4>2 DEF Recorded
    <3> QED BY <3>4, <3>5
  <2>3. CASE q = r /\ SubmitThrows(r)
    <3>1. /\ reqs'[q].call = reqs[q].call
          /\ reqs'[q].pc = Partial(q)
      BY <2>3 DEF SubmitThrows, Goto, TypeOK, Handler
    <3>2. CASE reqs[q].call = 1
      BY <3>1, <3>2, OthersTell DEF Partial
    <3>3. CASE reqs[q].call # 1
      <4>1. PICK c \in 1..MaxCalls : reqs[q].call = c
        BY DEF TypeOK, Handler
      <4>2. \A i \in 1..(c - 1) : Recorded(q, i)'
        BY <4>1, RecordedStays, ConstantsAssumption DEF Told
      <4> QED BY <3>1, <3>3, <4>1, <4>2 DEF Partial, Recorded
    <3> QED BY <3>2, <3>3
  <2>4. CASE q = r /\ ~RecordHash(r) /\ ~SubmitThrows(r)
    <3>1. /\ reqs'[q].call = reqs[q].call
          /\ reqs'[q].pc \notin {"SUBMITTED", "PARTIALLY_SUBMITTED"}
      BY <1>1, <2>4 DEF HandlerStep, Press, DeriveFails, RefuseInFlight, PassGuard,
         EncodeAnswers, EncodeFails, Open, MarkSigning, NonceAnswers, Post,
         HashAnswers, HashRejected, Goto, TypeOK, Handler
    <3> QED BY <3>1, OthersTell
  <2> QED BY <2>1, <2>2, <2>3, <2>4
<1>2. CASE Crash
  <2>1. /\ reqs'[q].call = reqs[q].call
        /\ reqs'[q].pc \in {"SUBMITTED", "PARTIALLY_SUBMITTED"} => reqs'[q] = reqs[q]
    BY <1>2 DEF Crash, TypeOK, Handler
  <2> QED BY <2>1, OthersTell
<1>3. CASE UNCHANGED reqs
  BY <1>3, OthersTell
<1> QED BY <1>1, <1>2, <1>3 DEF Next, ChainStep, Accept, Refuse, Evict, Mine, SweepStart, SweepStep,
     SweepReadsNonce, AskReceipt, ReceiptUnanswered, ReceiptConfirms, ResolveNeverSent,
     ResolveUnresolved, SweepReturns, ResolveElsewhere, vars

\* What a reply tells of an operation is what its rows say.
THEOREM RepliesTell == Spec => []RepliesTellHowFar
<1>1. Init => Told
  BY DEF Init, Told
<1>2. IInv /\ Told /\ [Next]_vars => Told'
  BY StepKeepsTold
<1>3. IInv /\ Told => RepliesTellHowFar
  <2> SUFFICES ASSUME IInv, Told, NEW r \in Requests
               PROVE  RepliesTellHowFar!(r)
    BY DEF RepliesTellHowFar
  <2>1. reqs[r].call \in 1..MaxCalls /\ (reqs[r].pc = "SUBMITTED" => reqs[r].op \in Ops)
    BY DEF IInv, TypeOK, Handler, Named
  <2>2. ASSUME reqs[r].pc = "SUBMITTED", NEW i \in 1..NumCalls[reqs[r].op]
        PROVE  Recorded(r, i)
    <3>1. NumCalls[reqs[r].op] \in 1..MaxCalls
      BY <2>1, <2>2, ConstantsAssumption
    <3>2. i \in 1..(reqs[r].call - 1) \/ i = reqs[r].call
      BY <2>1, <2>2, <3>1, ConstantsAssumption DEF Told
    <3> QED BY <2>2, <3>2 DEF Told
  <2>3. ASSUME NEW i \in (reqs[r].call + 1)..MaxCalls
        PROVE  rows[<<r, i>>].state = "ABSENT"
    BY <2>1, ConstantsAssumption DEF IInv, Fresh
  <2> QED BY <2>2, <2>3 DEF Told, Recorded
<1> QED BY <1>1, <1>2, <1>3, InvHolds, PTL DEF Spec

-----------------------------------------------------------------------------
(* The order in which the calls of an operation are mined. *)

\* Handlers post under the nonce they read.
Nonced ==
  /\ \A r \in Requests : reqs[r].pc = "PREPARING" => reqs[r].nonce \in Nonces
  /\ \A a \in Attempts : txs[a].status # "UNSENT" => txs[a].nonce \in Nonces

\* The mempool holds one transaction under a nonce, and none that is spent.
OnePerNonce ==
  \A a \in Attempts : txs[a].status = "MEMPOOL" =>
    /\ txs[a].nonce >= accountNonce
    /\ \A b \in Attempts : txs[b].status = "MEMPOOL" /\ txs[b].nonce = txs[a].nonce => a = b

NothingDropped == \A a \in Attempts : txs[a].status # "GONE"

\* Every nonce below n is spent or waits to be.
Reached(n) == \A m \in accountNonce..(n - 1) : InMempool(m)

\* Unless something was dropped, every nonce that was read is reached: a gap
\* below it would be filled later, by a transaction mined before its turn.
NoGap ==
  NothingDropped =>
    /\ \A a \in Attempts :
         txs[a].status \in {"IN_TRANSIT", "MEMPOOL"} => Reached(txs[a].nonce)
    /\ \A r \in Requests : reqs[r].pc = "PREPARING" => Reached(reqs[r].nonce)

\* The transaction of attempt a is mined, or waits under a nonce before n.
Precedes(a, n) == Mined(a) \/ (txs[a].status = "MEMPOOL" /\ txs[a].nonce < n)

\* A call is posted under a nonce after those of the calls before it.
InOrder ==
  NothingDropped =>
    \A r \in Requests : \A j \in 1..MaxCalls : \A i \in 1..(j - 1) :
      /\ txs[<<r, j>>].status \in {"IN_TRANSIT", "MEMPOOL"} =>
           Precedes(<<r, i>>, txs[<<r, j>>].nonce)
      /\ reqs[r].pc = "PREPARING" /\ reqs[r].call = j => Precedes(<<r, i>>, reqs[r].nonce)
      /\ Mined(<<r, j>>) => Mined(<<r, i>>)

OrderInv == Nonced /\ OnePerNonce /\ NoGap /\ InOrder

\* Steps that post and mine nothing, and let no other handler prepare.
LEMMA OrderFrame ==
  ASSUME OrderInv, TypeOK, UNCHANGED <<txs, accountNonce>>,
         \A r \in Requests : reqs'[r].pc = "PREPARING" => reqs'[r] = reqs[r]
  PROVE  OrderInv'
<1> USE DEF OrderInv
<1>1. Nonced' /\ OnePerNonce'
  BY DEF Nonced, OnePerNonce
<1>2. NothingDropped' => NothingDropped
  BY DEF NothingDropped
<1>3. NoGap'
  BY <1>2 DEF NoGap, Reached, InMempool
<1>4. InOrder'
  <2> SUFFICES ASSUME NothingDropped, NEW r \in Requests, NEW j \in 1..MaxCalls,
                      NEW i \in 1..(j - 1)
               PROVE  InOrder!2!(r)!(j)!(i)'
    BY <1>2 DEF InOrder
  <2> QED BY DEF InOrder, Precedes, Mined
<1> QED BY <1>1, <1>3, <1>4

\* The pending nonce comes after every transaction the calls before put into
\* the mempool, because none below it is free.
LEMMA NonceAnswersInOrder ==
  ASSUME IInv, Told, OrderInv, NEW r \in Requests, NonceAnswers(r)
  PROVE  OrderInv'
<1> USE DEF IInv, OrderInv
<1>1. PICK n \in Nonces :
        /\ IsPendingNonce(n)
        /\ reqs' = [reqs EXCEPT ![r].pc = "PREPARING", ![r].nonce = n]
  BY DEF NonceAnswers
<1>2. /\ UNCHANGED <<txs, accountNonce>>
      /\ reqs'[r].pc = "PREPARING" /\ reqs'[r].nonce = n /\ reqs'[r].call = reqs[r].call
      /\ \A q \in Requests \ {r} : reqs'[q] = reqs[q]
  BY <1>1 DEF NonceAnswers, TypeOK, Handler
<1>3. Nonced' /\ OnePerNonce'
  BY <1>1, <1>2 DEF Nonced, OnePerNonce
<1>4. NoGap'
  <2>1. Reached(n)
    BY <1>1 DEF IsPendingNonce, Reached
  <2> QED BY <1>2, <2>1 DEF NoGap, NothingDropped, Reached, InMempool
<1>5. InOrder'
  <2> SUFFICES ASSUME NothingDropped, NEW i \in 1..(reqs[r].call - 1)
               PROVE  Precedes(<<r, i>>, n)
    <3> SUFFICES ASSUME NothingDropped', NEW q \in Requests, NEW j \in 1..MaxCalls,
                        NEW k \in 1..(j - 1)
                 PROVE  InOrder!2!(q)!(j)!(k)'
      BY DEF InOrder
    <3>1. NothingDropped
      BY <1>2 DEF NothingDropped
    <3>2. reqs'[q].pc = "PREPARING" /\ reqs'[q].call = j => Precedes(<<q, k>>, reqs'[q].nonce)
      BY <1>2, <3>1 DEF InOrder
    <3> QED BY <1>2, <3>1, <3>2 DEF InOrder, Precedes, Mined
  <2>1. i \in 1..MaxCalls
    BY ConstantsAssumption DEF TypeOK, Handler
  <2>2. <<r, i>> \in Attempts
    BY <2>1 DEF Attempts
  <2>3. txs[<<r, i>>].status \in {"MEMPOOL"} \cup Outcomes
    <3>1. txs[<<r, i>>].status \notin {"UNSENT", "IN_TRANSIT", "REFUSED", "GONE"}
      BY <2>2 DEF Told, Recorded, HashedIsAccepted, NothingDropped
    <3>2. txs[<<r, i>>].status \in TxStatuses
      BY <2>2 DEF TypeOK, Tx
    <3> QED BY <3>1, <3>2 DEF TxStatuses
  <2>4. ASSUME txs[<<r, i>>].status = "MEMPOOL"
        PROVE  txs[<<r, i>>].nonce < n
    <3>1. PICK k \in Nonces : txs[<<r, i>>].nonce = k
      BY <2>2, <2>4 DEF Nonced
    <3>2. Reached(k)
      BY <2>2, <2>4, <3>1 DEF NoGap
    <3>3. k # n
      BY <1>1, <2>2, <2>4, <3>1 DEF IsPendingNonce, InMempool
    <3>4. ~(n < k)
      BY <1>1, <3>1, <3>2 DEF IsPendingNonce, Reached, Nonces, TypeOK
    <3> QED BY <1>1, <3>1, <3>3, <3>4, ConstantsAssumption DEF Nonces
  <2> QED BY <2>3, <2>4 DEF Precedes, Mined
<1> QED BY <1>3, <1>4, <1>5

LEMMA PostInOrder ==
  ASSUME IInv, OrderInv, NEW r \in Requests, Post(r)
  PROVE  OrderInv'
<1> USE DEF IInv, OrderInv
<1> DEFINE a == Attempt(r)
<1>1. a \in Attempts /\ txs[a].status = "UNSENT" /\ reqs[r].nonce \in Nonces
  BY AttemptTypes DEF Post, Progress, Nonced
<1>2. PICK c \in 1..MaxCalls : reqs[r].call = c /\ a = <<r, c>>
  BY DEF TypeOK, Handler, Attempt
<1>3. /\ txs'[a] = [status |-> "IN_TRANSIT", nonce |-> reqs[r].nonce]
      /\ \A b \in Attempts \ {a} : txs'[b] = txs[b]
      /\ UNCHANGED accountNonce
  BY <1>1 DEF Post, TypeOK
<1>4. \A q \in Requests : reqs'[q].pc = "PREPARING" => reqs'[q] = reqs[q]
  BY DEF Post, Goto, TypeOK, Handler
<1> HIDE DEF a
<1>5. Nonced'
  BY <1>1, <1>3, <1>4 DEF Nonced
<1>6. OnePerNonce'
  BY <1>1, <1>3 DEF OnePerNonce
<1>7. /\ NothingDropped' => NothingDropped
      /\ \A m : InMempool(m)' <=> InMempool(m)
  BY <1>1, <1>3 DEF NothingDropped, InMempool
<1>8. NoGap'
  BY <1>1, <1>3, <1>4, <1>7 DEF NoGap, Reached, Post
<1>9. InOrder'
  <2> SUFFICES ASSUME NothingDropped, NEW q \in Requests, NEW j \in 1..MaxCalls,
                      NEW i \in 1..(j - 1)
               PROVE  InOrder!2!(q)!(j)!(i)'
    BY <1>7 DEF InOrder
  <2>1. i \in 1..MaxCalls /\ <<q, i>> \in Attempts /\ <<q, j>> \in Attempts
    BY ConstantsAssumption DEF Attempts
  <2>2. ~Mined(<<r, c>>)'
    BY <1>2, <1>3 DEF Mined, Outcomes
  <2> QED BY <1>1, <1>2, <1>3, <1>4, <2>1, <2>2 DEF InOrder, Precedes, Mined, Post, Outcomes
<1> QED BY <1>5, <1>6, <1>8, <1>9

\* The provider takes a transaction: one replaced under its nonce is dropped.
LEMMA AcceptInOrder ==
  ASSUME TypeOK, OrderInv, NEW a \in Attempts, Accept(a)
  PROVE  OrderInv'
<1> USE DEF OrderInv
<1> DEFINE n == txs[a].nonce
           Out(b) == b # a /\ txs[b].status = "MEMPOOL" /\ txs[b].nonce = n
<1>1. /\ txs[a].status = "IN_TRANSIT" /\ n \in Nonces /\ n >= accountNonce
      /\ accountNonce \in Nat
  BY DEF Accept, Nonced, TypeOK
<1>2. /\ txs'[a].status = "MEMPOOL" /\ txs'[a].nonce = n
      /\ \A b \in Attempts : txs'[b].nonce = txs[b].nonce
      /\ \A b \in Attempts \ {a} :
           txs'[b].status = IF Out(b) THEN "GONE" ELSE txs[b].status
      /\ UNCHANGED <<reqs, accountNonce>>
  BY DEF Accept, TypeOK, Tx
<1>3. Nonced'
  BY <1>1, <1>2 DEF Nonced
<1>4. OnePerNonce'
  BY <1>1, <1>2 DEF OnePerNonce
<1>5. ASSUME NothingDropped'
      PROVE  /\ NothingDropped
             /\ \A b \in Attempts \ {a} : txs'[b] = txs[b]
  <2>1. \A b \in Attempts \ {a} : ~Out(b)
    BY <1>2, <1>5 DEF NothingDropped
  <2>2. \A b \in Attempts \ {a} : txs'[b] = txs[b]
    BY <2>1 DEF Accept, TypeOK
  <2>3. NothingDropped
    BY <1>1, <1>5, <2>2 DEF NothingDropped
  <2> QED BY <2>2, <2>3
<1>6. NoGap'
  <2> SUFFICES ASSUME NothingDropped' PROVE NoGap!2'
    BY DEF NoGap
  <2>1. \A m : InMempool(m) => InMempool(m)'
    BY <1>1, <1>2, <1>5 DEF InMempool
  <2>2. \A m : Reached(m) => Reached(m)'
    BY <1>2, <2>1 DEF Reached
  <2> QED BY <1>1, <1>2, <1>5, <2>2 DEF NoGap
<1>7. InOrder'
  <2> SUFFICES ASSUME NothingDropped', NEW q \in Requests, NEW j \in 1..MaxCalls,
                      NEW i \in 1..(j - 1)
               PROVE  InOrder!2!(q)!(j)!(i)'
    BY DEF InOrder
  <2>1. i \in 1..MaxCalls /\ <<q, i>> \in Attempts /\ <<q, j>> \in Attempts
    BY ConstantsAssumption DEF Attempts
  <2>2. \A b \in Attempts : \A m : Precedes(b, m) => Precedes(b, m)'
    BY <1>1, <1>2, <1>5 DEF Precedes, Mined, Outcomes
  <2>3. \A b \in Attempts : Mined(b)' <=> Mined(b)
    BY <1>1, <1>2, <1>5 DEF Mined, Outcomes
  <2>4. /\ txs'[<<q, j>>].nonce = txs[<<q, j>>].nonce
        /\ txs'[<<q, j>>].status \in {"IN_TRANSIT", "MEMPOOL"} =>
             txs[<<q, j>>].status \in {"IN_TRANSIT", "MEMPOOL"}
    BY <1>1, <1>2, <1>5, <2>1
  <2> QED BY <1>2, <1>5, <2>1, <2>2, <2>3, <2>4 DEF InOrder
<1> QED BY <1>3, <1>4, <1>6, <1>7

\* A refused transaction asks for no order any more.
LEMMA RefuseInOrder ==
  ASSUME TypeOK, OrderInv, NEW a \in Attempts, Refuse(a)
  PROVE  OrderInv'
<1> USE DEF OrderInv
<1>1. /\ txs[a].status = "IN_TRANSIT" /\ txs'[a].status = "REFUSED"
      /\ txs'[a].nonce = txs[a].nonce
      /\ \A b \in Attempts \ {a} : txs'[b] = txs[b]
      /\ UNCHANGED <<reqs, accountNonce>>
  BY DEF Refuse, TypeOK, Tx
<1>2. Nonced' /\ OnePerNonce'
  BY <1>1 DEF Nonced, OnePerNonce
<1>3. NothingDropped' => NothingDropped
  BY <1>1 DEF NothingDropped
<1>4. \A m : InMempool(m)' <=> InMempool(m)
  BY <1>1 DEF InMempool
<1>5. NoGap'
  BY <1>1, <1>3, <1>4 DEF NoGap, Reached
<1>6. InOrder'
  <2> SUFFICES ASSUME NothingDropped, NEW q \in Requests, NEW j \in 1..MaxCalls,
                      NEW i \in 1..(j - 1)
               PROVE  InOrder!2!(q)!(j)!(i)'
    BY <1>3 DEF InOrder
  <2>1. i \in 1..MaxCalls /\ <<q, i>> \in Attempts /\ <<q, j>> \in Attempts
    BY ConstantsAssumption DEF Attempts
  <2>2. \A b \in Attempts : Mined(b)' <=> Mined(b)
    BY <1>1 DEF Mined, Outcomes
  <2>3. \A b \in Attempts : \A m : Precedes(b, m) => Precedes(b, m)'
    BY <1>1, <2>2 DEF Precedes
  <2> QED BY <1>1, <2>1, <2>2, <2>3 DEF InOrder
<1> QED BY <1>2, <1>5, <1>6

\* An evicted one frees its nonce for good, which NoGap and InOrder allow for.
LEMMA EvictInOrder ==
  ASSUME TypeOK, OrderInv, NEW a \in Attempts, Evict(a)
  PROVE  OrderInv'
<1>1. /\ txs[a].status = "MEMPOOL" /\ txs'[a].status = "GONE"
      /\ txs'[a].nonce = txs[a].nonce
      /\ \A b \in Attempts \ {a} : txs'[b] = txs[b]
      /\ UNCHANGED <<reqs, accountNonce>>
  BY DEF Evict, TypeOK, Tx
<1>2. ~NothingDropped'
  BY <1>1 DEF NothingDropped
<1>3. Nonced' /\ OnePerNonce'
  BY <1>1 DEF OrderInv, Nonced, OnePerNonce
<1> QED BY <1>2, <1>3 DEF OrderInv, NoGap, InOrder

\* What is mined held the lowest nonce of all, so nothing preceding it waits.
LEMMA MineInOrder ==
  ASSUME TypeOK, OrderInv, NEW a \in Attempts, NEW outcome \in Outcomes, Mine(a, outcome)
  PROVE  OrderInv'
<1> USE DEF OrderInv
<1>1. /\ txs[a].status = "MEMPOOL" /\ txs[a].nonce = accountNonce
      /\ txs'[a].status = outcome /\ txs'[a].nonce = txs[a].nonce
      /\ \A b \in Attempts \ {a} : txs'[b] = txs[b]
      /\ accountNonce' = accountNonce + 1 /\ UNCHANGED reqs
      /\ accountNonce \in Nat
  BY DEF Mine, TypeOK, Tx
<1>2. outcome \notin {"UNSENT", "IN_TRANSIT", "REFUSED", "MEMPOOL", "GONE"}
  BY DEF Outcomes
<1>3. Nonced'
  BY <1>1 DEF Nonced
<1>4. OnePerNonce'
  <2> SUFFICES ASSUME NEW b \in Attempts, txs'[b].status = "MEMPOOL"
               PROVE  OnePerNonce!(b)!2'
    BY DEF OnePerNonce
  <2>1. b # a /\ txs'[b] = txs[b]
    BY <1>1, <1>2
  <2>2. txs[b].nonce # accountNonce
    BY <1>1, <2>1 DEF OnePerNonce
  <2>3. txs[b].nonce \in Nat
    BY <2>1, ConstantsAssumption DEF Nonced, Nonces
  <2>4. txs[b].nonce >= accountNonce + 1
    BY <1>1, <2>1, <2>2, <2>3 DEF OnePerNonce
  <2> QED BY <1>1, <1>2, <2>1, <2>4 DEF OnePerNonce
<1>5. NothingDropped' => NothingDropped
  BY <1>1 DEF NothingDropped
<1>6. NoGap'
  <2>1. \A m \in Nat \ {accountNonce} : InMempool(m) => InMempool(m)'
    BY <1>1 DEF InMempool
  <2>2. \A n \in Nonces : Reached(n) => Reached(n)'
    BY <1>1, <2>1, ConstantsAssumption DEF Reached, Nonces
  <2>3. \A b \in Attempts : txs'[b].status \in {"IN_TRANSIT", "MEMPOOL"} =>
          /\ txs[b].status \in {"IN_TRANSIT", "MEMPOOL"}
          /\ txs'[b].nonce = txs[b].nonce /\ txs[b].nonce \in Nonces
    BY <1>1, <1>2 DEF Nonced
  <2> QED BY <1>1, <1>5, <2>2, <2>3 DEF NoGap, Nonced
<1>7. InOrder'
  <2> SUFFICES ASSUME NothingDropped, NEW q \in Requests, NEW j \in 1..MaxCalls,
                      NEW i \in 1..(j - 1)
               PROVE  InOrder!2!(q)!(j)!(i)'
    BY <1>5 DEF InOrder
  <2>1. i \in 1..MaxCalls /\ <<q, i>> \in Attempts /\ <<q, j>> \in Attempts
    BY ConstantsAssumption DEF Attempts
  <2>2. Mined(a)' /\ \A b \in Attempts \ {a} : Mined(b)' <=> Mined(b)
    BY <1>1 DEF Mined
  <2>3. \A b \in Attempts : \A m : Precedes(b, m) => Precedes(b, m)'
    BY <1>1, <2>2 DEF Precedes
  <2>4. Mined(<<q, j>>)' => Mined(<<q, i>>)'
    <3>1. CASE a = <<q, j>>
      <4>1. Precedes(<<q, i>>, accountNonce)
        BY <1>1, <3>1 DEF InOrder
      <4>2. CASE txs[<<q, i>>].status = "MEMPOOL" /\ txs[<<q, i>>].nonce < accountNonce
        <5>1. txs[<<q, i>>].nonce \in Nat
          BY <2>1, <4>2, ConstantsAssumption DEF Nonced, Nonces
        <5> QED BY <1>1, <2>1, <4>2, <5>1 DEF OnePerNonce
      <4> QED BY <2>1, <2>2, <4>1, <4>2 DEF Precedes
    <3>2. CASE a # <<q, j>>
      BY <2>1, <2>2, <3>2 DEF InOrder
    <3> QED BY <3>1, <3>2
  <2>5. /\ txs'[<<q, j>>].nonce = txs[<<q, j>>].nonce
        /\ txs'[<<q, j>>].status \in {"IN_TRANSIT", "MEMPOOL"} =>
             txs[<<q, j>>].status \in {"IN_TRANSIT", "MEMPOOL"}
    BY <1>1, <1>2, <2>1
  <2> QED BY <1>1, <2>1, <2>3, <2>4, <2>5 DEF InOrder
<1> QED BY <1>3, <1>4, <1>6, <1>7

LEMMA StepKeepsOrder ==
  ASSUME IInv, Told, OrderInv, [Next]_vars
  PROVE  OrderInv'
<1> USE DEF IInv
<1>1. ASSUME NEW r \in Requests, HandlerStep(r) \/ \E op \in Ops : Press(r, op),
             ~NonceAnswers(r), ~Post(r)
      PROVE  OrderInv'
  <2>1. UNCHANGED <<txs, accountNonce>>
    BY <1>1 DEF HandlerStep, Press, DeriveFails, RefuseInFlight, PassGuard, EncodeAnswers,
       EncodeFails, Open, MarkSigning, SubmitThrows, HashAnswers, HashRejected, RecordHash
  <2>2. \A q \in Requests : reqs'[q].pc = "PREPARING" => reqs'[q] = reqs[q]
    BY <1>1 DEF HandlerStep, Press, DeriveFails, RefuseInFlight, PassGuard, EncodeAnswers,
       EncodeFails, Open, MarkSigning, SubmitThrows, Partial, HashAnswers, HashRejected,
       RecordHash, Goto, TypeOK, Handler
  <2> QED BY <2>1, <2>2, OrderFrame
<1>2. CASE Crash
  <2>1. \A q \in Requests : reqs'[q].pc = "PREPARING" => reqs'[q] = reqs[q]
    BY <1>2 DEF Crash, TypeOK, Handler
  <2> QED BY <1>2, <2>1, OrderFrame DEF Crash
<1>3. CASE \/ \E s \in Sweeps : SweepStart(s) \/ SweepStep(s)
           \/ \E organ \in Organs : ResolveElsewhere(organ)
           \/ UNCHANGED vars
  <2>1. UNCHANGED <<reqs, txs, accountNonce>>
    BY <1>3 DEF SweepStart, SweepStep, SweepReadsNonce, AskReceipt, ReceiptUnanswered,
       ReceiptConfirms, ResolveNeverSent, ResolveUnresolved, SweepReturns, ResolveElsewhere,
       vars
  <2> QED BY <2>1, OrderFrame
<1>4. CASE ChainStep
  BY <1>4, AcceptInOrder, RefuseInOrder, EvictInOrder, MineInOrder DEF ChainStep
<1> QED BY <1>1, <1>2, <1>3, <1>4, NonceAnswersInOrder, PostInOrder DEF Next

\* Unless something was dropped, a call is mined after every earlier one, for
\* any number of calls and whatever other presses put between them.
THEOREM CallsOrdered == Spec => []CallsMinedInOrder
<1>1. Init => Told /\ OrderInv
  BY DEF Init, Told, OrderInv, Nonced, OnePerNonce, NoGap, InOrder, Mined, Outcomes, Attempts
<1>2. IInv /\ Told /\ OrderInv /\ [Next]_vars => Told' /\ OrderInv'
  BY StepKeepsTold, StepKeepsOrder
<1>3. OrderInv => CallsMinedInOrder
  BY ConstantsAssumption DEF OrderInv, InOrder, NothingDropped, CallsMinedInOrder
<1> QED BY <1>1, <1>2, <1>3, InvHolds, PTL DEF Spec

-----------------------------------------------------------------------------
(* The ledger. *)

\* A press names an operation as soon as it happens, its handler never counts
\* past the operation's calls, and until the hash is there only a sweep moves
\* the row of its call.
Knows ==
  \A r \in Requests :
    /\ reqs[r].pc = "IDLE" => reqs[r].op = NoOp
    /\ reqs[r].op \in Ops => reqs[r].call <= NumCalls[reqs[r].op]
    /\ reqs[r].pc \in {"READING_NONCE", "PREPARING", "AWAITING_HASH"} =>
         rows[Attempt(r)].state \in {"SIGNING", "FAILED_RETRYABLE"}

LEMMA SubmitReplies ==
  ASSUME NEW r
  PROVE  Partial(r) \in {"SUBMISSION_FAILED", "PARTIALLY_SUBMITTED"}
BY DEF Partial

\* All a sweep writes: the outcome of a mined PENDING row, or that a row handed
\* to the signer is given up.
LEMMA SweepWrites ==
  ASSUME IInv, NEW s \in Sweeps, SweepStart(s) \/ SweepStep(s)
  PROVE  \/ rows' = rows
         \/ \E a \in Attempts, row \in Row :
              /\ rows[a].state = "PENDING" /\ Mined(a)
              /\ rows' = [rows EXCEPT ![a] = row] /\ row.state = "CONFIRMED" /\ row.outcome = txs[a].status
         \/ \E a \in Attempts, row \in Row :
              /\ rows[a].state \in {"SIGNING", "BROADCAST"}
              /\ rows' = [rows EXCEPT ![a] = row] /\ row.state = "FAILED_RETRYABLE"
<1> USE DEF IInv
<1>1. ASSUME NEW a \in Attempts, ReceiptConfirms(s, a), rows' # rows
      PROVE  \E row \in Row :
               /\ rows[a].state = "PENDING" /\ Mined(a)
               /\ rows' = [rows EXCEPT ![a] = row] /\ row.state = "CONFIRMED" /\ row.outcome = txs[a].status
  <2> DEFINE row == [rows[a] EXCEPT !.state = "CONFIRMED", !.outcome = txs[a].status]
  <2>1. Mined(a) /\ CanTransition(rows[a].state, "CONFIRMED") /\ rows' = [rows EXCEPT ![a] = row]
    BY <1>1 DEF ReceiptConfirms
  <2>2. rows[a] \in Row
    BY DEF TypeOK
  <2>3. row \in Row /\ row.state = "CONFIRMED" /\ row.outcome = txs[a].status
    BY <2>1, <2>2 DEF Mined, Row, RowStates, TransactionStates
  <2>4. rows[a].state = "PENDING"
    <3>1. rows[a].state \in RowStates
      BY <2>2 DEF Row
    <3>2. rows[a].state # "ABSENT"
      BY <1>1, RecordFields, SweepFields DEF ReceiptConfirms, CopiedRows
    <3> QED BY <2>1, <3>1, <3>2 DEF CanTransition, Transitions, RowStates, TransactionStates
  <2> QED BY <2>1, <2>3, <2>4
<1>2. ASSUME ResolveNeverSent(s), rows' # rows
      PROVE  \E a \in Attempts, row \in Row :
               /\ rows[a].state \in {"SIGNING", "BROADCAST"}
               /\ rows' = [rows EXCEPT ![a] = row] /\ row.state = "FAILED_RETRYABLE"
  <2>1. PICK record \in sweeps[s].todo :
          /\ CanTransition(rows[record.id].state, "FAILED_RETRYABLE")
          /\ rows' = [rows EXCEPT ![record.id] = [@ EXCEPT !.state = "FAILED_RETRYABLE"]]
    BY <1>2 DEF ResolveNeverSent
  <2> DEFINE a == record.id
             row == [rows[a] EXCEPT !.state = "FAILED_RETRYABLE"]
  <2>2. a \in Attempts /\ rows[a].state \notin {"ABSENT", "READY"}
    BY SweepFields, RecordFields DEF CopiedRows
  <2>3. rows[a] \in Row
    BY <2>2 DEF TypeOK
  <2>4. row \in Row /\ row.state = "FAILED_RETRYABLE"
    BY <2>3 DEF Row, RowStates, TransactionStates
  <2>5. rows[a].state \in {"SIGNING", "BROADCAST"}
    <3>1. rows[a].state \in RowStates
      BY <2>3 DEF Row
    <3> QED BY <2>1, <2>2, <3>1 DEF CanTransition, Transitions, RowStates, TransactionStates
  <2> QED BY <2>1, <2>2, <2>4, <2>5
<1>3. (\E a \in Attempts : ReceiptConfirms(s, a)) \/ ResolveNeverSent(s) \/ rows' = rows
  BY DEF SweepStart, SweepStep, SweepReadsNonce, AskReceipt, ReceiptUnanswered,
     ResolveUnresolved, SweepReturns
<1> QED BY <1>1, <1>2, <1>3

\* A handler writes no row but that of its own call.
LEMMA HandlerWrites ==
  ASSUME IInv, NEW r \in Requests, HandlerStep(r) \/ (\E op \in Ops : Press(r, op)),
         NEW q \in Requests, q # r
  PROVE  reqs'[q] = reqs[q] /\ rows'[Attempt(q)] = rows[Attempt(q)]
<1> USE DEF IInv
<1>1. /\ Attempt(r) # Attempt(q) /\ Attempt(r) \in Attempts /\ Attempt(q) \in Attempts
  BY AttemptTypes, OtherAttempt
<1>2. reqs'[q] = reqs[q]
  BY DEF HandlerStep, Press, DeriveFails, RefuseInFlight, PassGuard, EncodeAnswers, EncodeFails,
     Open, MarkSigning, NonceAnswers, Post, SubmitThrows, HashAnswers, HashRejected, RecordHash,
     Goto, TypeOK
<1>3. rows' = rows \/ \E row : rows' = [rows EXCEPT ![Attempt(r)] = row]
  BY DEF HandlerStep, Press, DeriveFails, RefuseInFlight, PassGuard, EncodeAnswers, EncodeFails,
     Open, MarkSigning, NonceAnswers, Post, SubmitThrows, HashAnswers, HashRejected, RecordHash
<1> QED BY <1>1, <1>2, <1>3 DEF TypeOK

LEMMA StepKeepsKnows ==
  ASSUME IInv, Knows, [Next]_vars
  PROVE  Knows'
<1> USE DEF IInv
<1> DEFINE Waits(q) == reqs[q].pc \in {"READING_NONCE", "PREPARING", "AWAITING_HASH"}
           Known(q) == /\ reqs[q].pc = "IDLE" => reqs[q].op = NoOp
                       /\ reqs[q].op \in Ops => reqs[q].call <= NumCalls[reqs[q].op]
                       /\ Waits(q) => rows[Attempt(q)].state \in {"SIGNING", "FAILED_RETRYABLE"}
<1> SUFFICES ASSUME NEW q \in Requests PROVE Known(q)'
  BY DEF Knows
<1>0. Known(q) /\ Attempt(q) \in Attempts
  BY AttemptTypes DEF Knows
<1>1. ASSUME reqs'[q] = reqs[q],
             Waits(q) => rows'[Attempt(q)].state \in {rows[Attempt(q)].state, "FAILED_RETRYABLE"}
      PROVE  Known(q)'
  BY <1>0, <1>1 DEF Attempt
<1>2. ASSUME NEW r \in Requests, HandlerStep(r) \/ \E op \in Ops : Press(r, op)
      PROVE  Known(q)'
  <2>1. CASE q # r
    BY <1>1, <1>2, <2>1, HandlerWrites
  <2>2. CASE q = r /\ \E op \in Ops : Press(r, op)
    <3>1. PICK op \in Ops : Press(q, op)
      BY <2>2
    <3>2. reqs[q].call = 1
      BY <3>1 DEF Press, Fresh, BeforeOpen
    <3>3. reqs'[q].pc = "DERIVING" /\ reqs'[q].op = op /\ reqs'[q].call = 1
      BY <3>1, <3>2 DEF Press, TypeOK, Handler
    <3>4. NumCalls[op] \in 1..MaxCalls
      BY ConstantsAssumption
    <3> QED BY <3>3, <3>4
  <2>3. CASE q = r /\ HandlerStep(r)
    <3>1. reqs[q].op \in Ops /\ reqs'[q].op = reqs[q].op /\ reqs'[q].pc # "IDLE"
      <4>1. reqs[q].op \in Ops
        BY <2>3 DEF HandlerStep, DeriveFails, RefuseInFlight, PassGuard, EncodeAnswers,
           EncodeFails, Open, MarkSigning, NonceAnswers, Post, SubmitThrows, HashAnswers,
           HashRejected, RecordHash, Named, MayThrow
      <4>2. reqs'[q].op = reqs[q].op
        BY <2>3 DEF HandlerStep, DeriveFails, RefuseInFlight, PassGuard, EncodeAnswers,
           EncodeFails, Open, MarkSigning, NonceAnswers, Post, SubmitThrows, HashAnswers,
           HashRejected, RecordHash, Goto, TypeOK, Handler
      <4>3. reqs'[q].pc # "IDLE"
        BY <2>3, SubmitReplies DEF HandlerStep, DeriveFails, RefuseInFlight, PassGuard, EncodeAnswers,
           EncodeFails, Open, MarkSigning, NonceAnswers, Post, SubmitThrows, HashAnswers,
           HashRejected, RecordHash, Goto, TypeOK, Handler
      <4> QED BY <4>1, <4>2, <4>3
    <3>2. reqs'[q].call <= NumCalls[reqs[q].op]
      <4>1. CASE RecordHash(q) /\ HasNextCall(q)
        <5>1. reqs'[q].call = reqs[q].call + 1
          BY <4>1 DEF RecordHash, TypeOK, Handler
        <5>2. reqs[q].call \in 1..MaxCalls /\ NumCalls[reqs[q].op] \in 1..MaxCalls
          BY <3>1, ConstantsAssumption DEF TypeOK, Handler
        <5> QED BY <4>1, <5>1, <5>2, ConstantsAssumption DEF HasNextCall
      <4>2. CASE ~(RecordHash(q) /\ HasNextCall(q))
        <5>1. reqs'[q].call = reqs[q].call
          BY <2>3, <4>2 DEF HandlerStep, DeriveFails, RefuseInFlight, PassGuard, EncodeAnswers,
             EncodeFails, Open, MarkSigning, NonceAnswers, Post, SubmitThrows, HashAnswers,
             HashRejected, RecordHash, Goto, TypeOK, Handler
        <5> QED BY <1>0, <3>1, <5>1
      <4> QED BY <4>1, <4>2
    <3>3. Waits(q)' => rows'[Attempt(q)'].state \in {"SIGNING", "FAILED_RETRYABLE"}
      <4>1. CASE MarkSigning(q)
        <5>1. reqs'[q].call = reqs[q].call
          BY <4>1 DEF MarkSigning, Goto, TypeOK, Handler
        <5>2. rows'[Attempt(q)].state = "SIGNING"
          BY <1>0, <4>1 DEF MarkSigning, TypeOK, Row
        <5> QED BY <5>1, <5>2 DEF Attempt
      <4>2. CASE NonceAnswers(q) \/ Post(q)
        <5>1. Waits(q) /\ reqs'[q].call = reqs[q].call /\ rows' = rows
          BY <4>2 DEF NonceAnswers, Post, Goto, TypeOK, Handler
        <5> QED BY <1>0, <5>1 DEF Attempt
      <4>3. CASE ~(MarkSigning(q) \/ NonceAnswers(q) \/ Post(q))
        <5>1. ~Waits(q)'
          BY <2>3, <4>3, SubmitReplies DEF HandlerStep, DeriveFails, RefuseInFlight, PassGuard, EncodeAnswers,
             EncodeFails, Open, SubmitThrows, HashAnswers, HashRejected, RecordHash, Goto, TypeOK,
             Handler
        <5> QED BY <5>1
      <4> QED BY <4>1, <4>2, <4>3
    <3> QED BY <3>1, <3>2, <3>3
  <2> QED BY <1>2, <2>1, <2>2, <2>3
<1>3. ASSUME NEW s \in Sweeps, SweepStart(s) \/ SweepStep(s)
      PROVE  Known(q)'
  <2>1. reqs' = reqs
    BY <1>3 DEF SweepStart, SweepStep, SweepReadsNonce, AskReceipt, ReceiptUnanswered, ReceiptConfirms,
       ResolveNeverSent, ResolveUnresolved, SweepReturns
  <2>2. Waits(q) => rows'[Attempt(q)].state \in {rows[Attempt(q)].state, "FAILED_RETRYABLE"}
    BY <1>0, <1>3, SweepWrites DEF TypeOK
  <2> QED BY <1>1, <2>1, <2>2
<1>4. CASE Crash
  <2>1. reqs'[q] = reqs[q] \/ reqs'[q] = [reqs[q] EXCEPT !.pc = "LOST"]
    BY <1>4 DEF Crash
  <2>2. reqs[q] \in Handler
    BY DEF TypeOK
  <2>3. reqs'[q].pc \in {reqs[q].pc, "LOST"} /\ reqs'[q].op = reqs[q].op /\ reqs'[q].call = reqs[q].call
    BY <2>1, <2>2 DEF Handler
  <2>4. rows' = rows
    BY <1>4 DEF Crash
  <2> QED BY <1>0, <2>3, <2>4 DEF Attempt
<1>5. CASE UNCHANGED <<reqs, rows>>
  BY <1>1, <1>5
<1> QED BY <1>2, <1>3, <1>4, <1>5 DEF Next, ChainStep, Accept, Refuse, Evict, Mine,
           ResolveElsewhere, vars

\* What one step of the code is on the ledger.
LEMMA SameAttempts == Ledger!Attempts = Attempts
BY DEF Attempts, Ledger!Attempts

LEMMA LedgerFields ==
  ASSUME NEW r \in Requests
  PROVE  /\ Asked[r] = reqs[r].op
         /\ Answered[r] = IF reqs[r].pc \in Replies \cup {"LOST"} THEN reqs[r].pc ELSE "NONE"
         /\ \A i \in 1..MaxCalls : /\ Book[<<r, i>>] = Booked(rows[<<r, i>>])
                                   /\ Wire[<<r, i>>] = txs[<<r, i>>].status
BY DEF Asked, Answered, Book, Wire, Attempts

LEMMA OneBooked ==
  ASSUME TypeOK, NEW a \in Attempts, NEW row, rows' = [rows EXCEPT ![a] = row]
  PROVE  Book' = [Book EXCEPT ![a] = Booked(row)]
<1>1. \A b \in Attempts : rows'[b] = IF b = a THEN row ELSE rows[b]
  BY DEF TypeOK
<1>2. Book' = [b \in Attempts |-> Booked(rows'[b])]
  BY DEF Book, Booked
<1>3. \A b \in Attempts : Booked(rows'[b]) = IF b = a THEN Booked(row) ELSE Booked(rows[b])
  <2>1. ASSUME NEW b \in Attempts PROVE Booked(rows'[b]) = IF b = a THEN Booked(row) ELSE Booked(rows[b])
    <3>1. CASE b = a
      BY <1>1, <3>1
    <3>2. CASE b # a
      BY <1>1, <3>2
    <3> QED BY <3>1, <3>2
  <2> QED BY <2>1
<1> HIDE DEF Booked
<1> QED BY <1>2, <1>3 DEF Book

\* A call known to have been taken is trusted by the book.
LEMMA RecordedTrusted ==
  ASSUME IInv, NEW r \in Requests, NEW i \in 1..MaxCalls, Recorded(r, i)
  PROVE  Ledger!Trusted(r, i)
<1>1. <<r, i>> \in Attempts
  BY DEF Attempts
<1>2. Booked(rows[<<r, i>>]) \in {"SENT", "SUCCESS", "REVERTED"}
  BY <1>1 DEF Recorded, Booked, IInv, ConfirmedIsMined, Outcomes
<1> QED BY <1>2, LedgerFields DEF Ledger!Trusted, Ledger!Outcomes

LEMMA BookedAs ==
  ASSUME NEW row
  PROVE  /\ row.state \in {"ABSENT", "READY"} => Booked(row) = "NONE"
         /\ row.state \in {"SIGNING", "BROADCAST"} => Booked(row) = "NOTED"
         /\ row.state = "PENDING" => Booked(row) = "SENT"
         /\ row.state = "CONFIRMED" => Booked(row) = row.outcome
         /\ row.state = "FAILED_RETRYABLE" => Booked(row) = "GIVEN_UP"
BY DEF Booked

\* A handler under way works for the operation it was asked to send; the calls
\* before its own are trusted, those after it have nothing.
LEMMA AtWork ==
  ASSUME IInv, Told, Knows, NEW r \in Requests, reqs[r].pc \in Parked \cup Running
  PROVE  /\ Ledger!Working(r) /\ reqs[r].op \in Ops /\ Asked[r] = reqs[r].op
         /\ reqs[r].call \in 1..MaxCalls /\ Attempt(r) = <<r, reqs[r].call>> /\ Attempt(r) \in Attempts
         /\ Book[Attempt(r)] = Booked(rows[Attempt(r)]) /\ Wire[Attempt(r)] = txs[Attempt(r)].status
         /\ reqs[r].call <= NumCalls[reqs[r].op]
         /\ \A j \in 1..(reqs[r].call - 1) : Ledger!Trusted(r, j)
         /\ \A j \in (reqs[r].call + 1)..MaxCalls : Book[<<r, j>>] = "NONE"
<1>1. reqs[r].op \in Ops /\ reqs[r].op # NoOp
  BY ConstantsAssumption DEF IInv, Named, Parked, Running
<1>2. reqs[r].pc \notin Replies \cup {"LOST"}
  BY DEF Parked, Running, Replies
<1>3. Ledger!Working(r) /\ Asked[r] = reqs[r].op
  BY <1>1, <1>2, LedgerFields DEF Ledger!Working
<1>4. reqs[r].call \in 1..MaxCalls /\ Attempt(r) = <<r, reqs[r].call>> /\ Attempt(r) \in Attempts
  BY AttemptTypes DEF IInv, TypeOK, Handler, Attempt
<1>5. reqs[r].call <= NumCalls[reqs[r].op]
  BY <1>1 DEF Knows
<1>6. ASSUME NEW j \in 1..(reqs[r].call - 1) PROVE Ledger!Trusted(r, j)
  <2>1. j \in 1..MaxCalls
    BY <1>4, ConstantsAssumption
  <2> QED BY <2>1, RecordedTrusted DEF Told
<1>7. ASSUME NEW j \in (reqs[r].call + 1)..MaxCalls PROVE Book[<<r, j>>] = "NONE"
  <2>1. j \in 1..MaxCalls /\ j > reqs[r].call
    BY <1>4, ConstantsAssumption
  <2>2. rows[<<r, j>>].state = "ABSENT"
    BY <2>1 DEF IInv, Fresh
  <2> QED BY <2>1, <2>2, LedgerFields, BookedAs
<1>8. Book[Attempt(r)] = Booked(rows[Attempt(r)]) /\ Wire[Attempt(r)] = txs[Attempt(r)].status
  BY <1>4, LedgerFields
<1> QED BY <1>1, <1>3, <1>4, <1>5, <1>6, <1>7, <1>8

\* A handler goes on without an answer, or answers.
LEMMA GoesOn ==
  ASSUME TypeOK, NEW r \in Requests, NEW h, reqs' = [reqs EXCEPT ![r] = h], h.op = reqs[r].op
  PROVE  /\ Asked' = Asked
         /\ reqs[r].pc \notin Replies \cup {"LOST"} /\ h.pc \notin Replies \cup {"LOST"} => Answered' = Answered
         /\ h.pc \in Replies => Answered' = [Answered EXCEPT ![r] = h.pc]
<1>1. \A q \in Requests : reqs'[q] = IF q = r THEN h ELSE reqs[q]
  BY DEF TypeOK
<1>2. Asked' = Asked
  BY <1>1 DEF Asked
<1>3. ASSUME reqs[r].pc \notin Replies \cup {"LOST"}, h.pc \notin Replies \cup {"LOST"}
      PROVE  Answered' = Answered
  BY <1>1, <1>3 DEF Answered
<1>4. ASSUME h.pc \in Replies
      PROVE  Answered' = [Answered EXCEPT ![r] = h.pc]
  <2>1. \A q \in Requests : (IF reqs'[q].pc \in Replies \cup {"LOST"} THEN reqs'[q].pc ELSE "NONE")
                            = IF q = r THEN h.pc ELSE Answered[q]
    BY <1>1, <1>4 DEF Answered
  <2>2. Answered = [q \in Requests |-> Answered[q]]
    BY DEF Answered
  <2>3. Answered' = [q \in Requests |-> IF q = r THEN h.pc ELSE Answered[q]]
    BY <2>1 DEF Answered
  <2> QED BY <2>2, <2>3
<1> QED BY <1>2, <1>3, <1>4

LEMMA GotoGoesOn ==
  ASSUME TypeOK, NEW r \in Requests, NEW pc, NEW held, Goto(r, pc, held)
  PROVE  /\ Asked' = Asked
         /\ reqs[r].pc \notin Replies \cup {"LOST"} /\ pc \notin Replies \cup {"LOST"} => Answered' = Answered
         /\ pc \in Replies => Answered' = [Answered EXCEPT ![r] = pc]
<1> DEFINE h == [reqs[r] EXCEPT !.pc = pc]
<1>1. reqs[r] \in Handler /\ reqs' = [reqs EXCEPT ![r] = h]
  BY DEF Goto, TypeOK
<1>2. h.pc = pc /\ h.op = reqs[r].op
  BY <1>1 DEF Handler
<1> HIDE DEF h
<1> QED BY <1>1, <1>2, GoesOn

\* One lemma for each kind of step: which step of the ledger it is.
LEMMA PressAsks ==
  ASSUME IInv, Knows, NEW r \in Requests, NEW op \in Ops, Press(r, op)
  PROVE  Ledger!Ask(r, op)
<1>1. \A q \in Requests : /\ reqs'[q].op = IF q = r THEN op ELSE reqs[q].op
                          /\ reqs'[q].pc = IF q = r THEN "DERIVING" ELSE reqs[q].pc
  BY DEF Press, IInv, TypeOK, Handler
<1>2. reqs[r].pc = "IDLE" /\ reqs[r].op = NoOp /\ rows' = rows /\ txs' = txs
  BY DEF Press, Knows
<1>3. Asked' = [Asked EXCEPT ![r] = op] /\ Asked[r] = NoOp
  BY <1>1, <1>2 DEF Asked
<1>4. Answered' = Answered
  BY <1>1, <1>2 DEF Answered, Replies
<1>5. Book' = Book /\ Wire' = Wire
  BY <1>2 DEF Book, Wire
<1> QED BY <1>3, <1>4, <1>5 DEF Ledger!Ask

LEMMA RefusalRefuses ==
  ASSUME IInv, Told, Knows, NEW r \in Requests, reqs[r].pc \in {"DERIVING", "ENCODING"},
         NEW reply \in {"NOT_SENT", "WRITES_IN_FLIGHT", "NOT_ENCODABLE"}, Goto(r, reply, Free),
         rows' = rows, txs' = txs
  PROVE  Ledger!Refuse(r)
<1>1. Ledger!Working(r)
  BY AtWork DEF Parked
<1>2. Asked' = Asked /\ Answered' = [Answered EXCEPT ![r] = reply]
  BY GotoGoesOn DEF IInv, Replies
<1>3. Book' = Book /\ Wire' = Wire
  BY DEF Book, Wire
<1>4. ASSUME NEW i \in 1..MaxCalls PROVE Book[<<r, i>>] = "NONE" /\ Wire[<<r, i>>] = "UNSENT"
  <2>1. reqs[r].call = 1
    BY DEF IInv, Fresh, BeforeOpen
  <2>2. rows[<<r, i>>].state = "ABSENT" /\ txs[<<r, i>>].status = "UNSENT"
    BY <2>1, ConstantsAssumption DEF IInv, Fresh, BeforeOpen
  <2> QED BY <2>2, LedgerFields, BookedAs
<1> QED BY <1>1, <1>2, <1>3, <1>4 DEF Ledger!Refuse, Ledger!Refusals, Ledger!Answer

LEMMA SigningNotes ==
  ASSUME IInv, Told, Knows, NEW r \in Requests, MarkSigning(r)
  PROVE  Ledger!Note(r, reqs[r].call)
<1> DEFINE a == Attempt(r)
           row == [rows[a] EXCEPT !.state = "SIGNING"]
<1>1. /\ Ledger!Working(r) /\ Asked[r] = reqs[r].op /\ a \in Attempts /\ a = <<r, reqs[r].call>>
      /\ reqs[r].call <= NumCalls[reqs[r].op] /\ Book[a] = Booked(rows[a])
      /\ \A j \in 1..(reqs[r].call - 1) : Ledger!Trusted(r, j)
  BY AtWork DEF MarkSigning, Running
<1>2. Book[a] = "NONE"
  <2>1. rows[a].state = "READY"
    BY DEF MarkSigning, IInv, Progress
  <2> QED BY <1>1, <2>1, BookedAs
<1>3. rows' = [rows EXCEPT ![a] = row] /\ Booked(row) = "NOTED"
  <2>1. rows[a] \in Row
    BY <1>1 DEF IInv, TypeOK
  <2>2. row.state = "SIGNING"
    BY <2>1 DEF Row
  <2> HIDE DEF row
  <2>3. Booked(row) = "NOTED"
    BY <2>2, BookedAs
  <2> QED BY <2>3 DEF MarkSigning, row
<1>4. Book' = [Book EXCEPT ![a] = "NOTED"]
  <2> HIDE DEF row
  <2> QED BY <1>1, <1>3, OneBooked DEF IInv
<1>5. Asked' = Asked /\ Answered' = Answered /\ Wire' = Wire
  BY GotoGoesOn DEF MarkSigning, IInv, Replies, Wire
<1> HIDE DEF a, row
<1> QED BY <1>1, <1>2, <1>4, <1>5 DEF Ledger!Note

LEMMA PostPosts ==
  ASSUME IInv, Told, Knows, NEW r \in Requests, Post(r)
  PROVE  Ledger!Post(r, reqs[r].call)
<1> DEFINE a == Attempt(r)
<1>1. /\ Ledger!Working(r) /\ a \in Attempts /\ a = <<r, reqs[r].call>>
      /\ Book[a] = Booked(rows[a]) /\ Wire[a] = txs[a].status
  BY AtWork DEF Post, Parked
<1>2. Book[a] \in {"NOTED", "GIVEN_UP"} /\ Wire[a] = "UNSENT"
  <2>1. rows[a].state \in {"SIGNING", "FAILED_RETRYABLE"} /\ txs[a].status = "UNSENT"
    BY DEF Post, Knows, IInv, Progress
  <2> QED BY <1>1, <2>1, BookedAs
<1>3. Wire' = [Wire EXCEPT ![a] = "IN_TRANSIT"]
  BY <1>1 DEF Post, Wire, IInv, TypeOK
<1>4. Asked' = Asked /\ Answered' = Answered /\ Book' = Book
  BY GotoGoesOn DEF Post, IInv, Replies, Book
<1> HIDE DEF a
<1> QED BY <1>1, <1>2, <1>3, <1>4 DEF Ledger!Post

LEMMA ThrowFails ==
  ASSUME IInv, Told, Knows, NEW r \in Requests, SubmitThrows(r) \/ HashRejected(r)
  PROVE  Ledger!Fail(r, reqs[r].call)
<1> DEFINE a == Attempt(r)
<1>0. reqs[r].pc \in {"READING_NONCE", "PREPARING", "AWAITING_HASH"}
  BY DEF SubmitThrows, MayThrow, HashRejected
<1>1. /\ Ledger!Working(r) /\ a \in Attempts /\ a = <<r, reqs[r].call>>
      /\ Book[a] = Booked(rows[a]) /\ Wire[a] = txs[a].status
      /\ \A j \in 1..(reqs[r].call - 1) : Ledger!Trusted(r, j)
      /\ \A j \in (reqs[r].call + 1)..MaxCalls : Book[<<r, j>>] = "NONE"
  BY <1>0, AtWork DEF Parked
<1>2. rows[a].state \in {"SIGNING", "FAILED_RETRYABLE"}
  BY <1>0 DEF Knows
<1>3. Book[a] \in {"NOTED", "GIVEN_UP"}
  BY <1>1, <1>2, BookedAs
<1>4. Book' = Book /\ Wire' = Wire
  BY DEF SubmitThrows, HashRejected, Book, Wire
<1>5. CASE SubmitThrows(r)
  <2>1. Asked' = Asked /\ Answered' = [Answered EXCEPT ![r] = Partial(r)]
    BY <1>5, GotoGoesOn, SubmitReplies DEF SubmitThrows, IInv, Replies
  <2> HIDE DEF a
  <2> QED BY <1>1, <1>3, <1>4, <2>1 DEF Ledger!Fail, Ledger!Answer, Partial
<1>6. CASE HashRejected(r)
  <2>1. Asked' = Asked /\ Answered' = [Answered EXCEPT ![r] = "FAILURE"]
    BY <1>6, GotoGoesOn DEF HashRejected, IInv, Replies
  <2>2. Accepted(a) /\ rows[a].state = "FAILED_RETRYABLE"
    BY <1>2, <1>6 DEF HashRejected, CanTransition, Transitions
  <2>3. Book[a] = "GIVEN_UP" /\ Wire[a] \in Ledger!Taken
    BY <1>1, <2>2, BookedAs DEF Accepted, Outcomes, Ledger!Taken, Ledger!Outcomes
  <2> HIDE DEF a
  <2> QED BY <1>1, <1>4, <2>1, <2>3 DEF Ledger!Fail, Ledger!Answer
<1> QED BY <1>5, <1>6

LEMMA RecordTrusts ==
  ASSUME IInv, Told, Knows, NEW r \in Requests, RecordHash(r)
  PROVE  Ledger!Trust(r, reqs[r].call)
<1> DEFINE a == Attempt(r)
           row == [rows[a] EXCEPT !.state = "PENDING", !.hash = TRUE]
           c == reqs[r].call
<1>1. /\ Ledger!Working(r) /\ Asked[r] = reqs[r].op /\ a \in Attempts /\ a = <<r, c>>
      /\ c \in 1..MaxCalls /\ c <= NumCalls[reqs[r].op] /\ reqs[r].op \in Ops
      /\ Book[a] = Booked(rows[a]) /\ Wire[a] = txs[a].status
  BY AtWork DEF RecordHash, Running
<1>2. Book[a] = "NOTED" /\ Wire[a] \in Ledger!Taken
  <2>1. rows[a].state = "BROADCAST" /\ Accepted(a)
    BY DEF RecordHash, IInv, Progress
  <2> QED BY <1>1, <2>1, BookedAs DEF Accepted, Outcomes, Ledger!Taken, Ledger!Outcomes
<1>3. Book' = [Book EXCEPT ![a] = "SENT"]
  <2>1. rows[a] \in Row
    BY <1>1 DEF IInv, TypeOK
  <2>2. row.state = "PENDING"
    BY <2>1 DEF Row
  <2>3. rows' = [rows EXCEPT ![a] = row]
    BY DEF RecordHash
  <2> HIDE DEF row
  <2>4. Booked(row) = "SENT"
    BY <2>2, BookedAs
  <2>5. Book' = [Book EXCEPT ![a] = Booked(row)]
    BY <1>1, <2>3, OneBooked DEF IInv
  <2> QED BY <2>4, <2>5
<1>4. Wire' = Wire
  BY DEF RecordHash, Wire
<1>5. CASE HasNextCall(r)
  <2>1. c # NumCalls[Asked[r]]
    BY <1>1, <1>5, ConstantsAssumption DEF HasNextCall
  <2> DEFINE h == [reqs[r] EXCEPT !.pc = "OPENING", !.call = @ + 1, !.nonce = NoNonce]
  <2>2. reqs' = [reqs EXCEPT ![r] = h] /\ reqs[r].pc = "RECORDING_HASH"
    BY <1>5 DEF RecordHash
  <2>3. h.pc = "OPENING" /\ h.op = reqs[r].op
    BY DEF IInv, TypeOK, Handler
  <2> HIDE DEF h
  <2>4. Asked' = Asked /\ Answered' = Answered
    BY <2>2, <2>3, GoesOn DEF IInv, Replies
  <2> HIDE DEF a
  <2> QED BY <1>1, <1>2, <1>3, <1>4, <2>1, <2>4 DEF Ledger!Trust
<1>6. CASE ~HasNextCall(r)
  <2>1. c = NumCalls[Asked[r]]
    <3>1. NumCalls[reqs[r].op] \in 1..MaxCalls
      BY <1>1, ConstantsAssumption
    <3> QED BY <1>1, <1>6, <3>1, ConstantsAssumption DEF HasNextCall
  <2>2. Asked' = Asked /\ Answered' = [Answered EXCEPT ![r] = "SUBMITTED"]
    BY <1>6, GotoGoesOn DEF RecordHash, IInv, Replies
  <2> HIDE DEF a
  <2> QED BY <1>1, <1>2, <1>3, <1>4, <2>1, <2>2 DEF Ledger!Trust, Ledger!Answer
<1> QED BY <1>5, <1>6

\* The rest of a handler is its own affair.
LEMMA RestIsHidden ==
  ASSUME IInv, Told, Knows, NEW r \in Requests,
         \/ PassGuard(r) \/ EncodeAnswers(r) \/ Open(r) \/ NonceAnswers(r) \/ HashAnswers(r)
  PROVE  UNCHANGED Ledger!ledgerVars
<1> DEFINE a == Attempt(r)
<1>1. Wire' = Wire
  BY DEF PassGuard, EncodeAnswers, Open, NonceAnswers, HashAnswers, Wire
<1>2. a \in Attempts /\ Book[a] = Booked(rows[a]) /\ reqs[r].pc \in Parked \cup Running
  <2>1. reqs[r].pc \in Parked \cup Running
    BY DEF PassGuard, EncodeAnswers, Open, NonceAnswers, HashAnswers, Parked, Running
  <2> QED BY <2>1, AtWork
<1>3. Book' = Book
  <2>1. CASE PassGuard(r) \/ EncodeAnswers(r) \/ NonceAnswers(r)
    BY <2>1 DEF PassGuard, EncodeAnswers, NonceAnswers, Book
  <2>2. ASSUME NEW row, rows' = [rows EXCEPT ![a] = row], Booked(row) = Book[a]
        PROVE  Book' = Book
    BY <1>2, <2>2, OneBooked DEF IInv, Book
  <2>3. CASE Open(r)
    <3> DEFINE row == [rows[a] EXCEPT !.state = "READY"]
    <3>1. rows[a] \in Row
      BY <1>2 DEF IInv, TypeOK
    <3>2. rows' = [rows EXCEPT ![a] = row] /\ row.state = "READY"
      BY <2>3, <3>1 DEF Open, Row
    <3>3. rows[a].state = "ABSENT"
      BY <2>3, ConstantsAssumption DEF Open, IInv, Fresh, BeforeOpen, Attempt, TypeOK, Handler
    <3> HIDE DEF row, a
    <3> QED BY <1>2, <2>2, <3>2, <3>3, BookedAs
  <2>4. CASE HashAnswers(r)
    <3> DEFINE row == [rows[a] EXCEPT !.state = "BROADCAST", !.nonce = reqs[r].nonce]
    <3>1. rows[a] \in Row
      BY <1>2 DEF IInv, TypeOK
    <3>2. rows' = [rows EXCEPT ![a] = row] /\ row.state = "BROADCAST"
      BY <2>4, <3>1 DEF HashAnswers, Row
    <3>3. rows[a].state = "SIGNING"
      BY <2>4 DEF HashAnswers, Knows, CanTransition, Transitions
    <3> HIDE DEF row, a
    <3> QED BY <1>2, <2>2, <3>2, <3>3, BookedAs
  <2> QED BY <2>1, <2>3, <2>4
<1>4. Asked' = Asked /\ Answered' = Answered
  <2>1. PICK h : /\ reqs' = [reqs EXCEPT ![r] = h] /\ h.op = reqs[r].op
                 /\ h.pc \notin Replies \cup {"LOST"}
    <3>1. CASE NonceAnswers(r)
      <4>1. PICK n \in Nonces : reqs' = [reqs EXCEPT ![r] = [@ EXCEPT !.pc = "PREPARING", !.nonce = n]]
        BY <3>1 DEF NonceAnswers
      <4> DEFINE h == [reqs[r] EXCEPT !.pc = "PREPARING", !.nonce = n]
      <4>2. reqs' = [reqs EXCEPT ![r] = h]
        BY <4>1
      <4>3. h.op = reqs[r].op /\ h.pc = "PREPARING"
        BY DEF IInv, TypeOK, Handler
      <4> HIDE DEF h
      <4> QED BY <4>2, <4>3 DEF Replies
    <3>2. ASSUME NEW pc \in {"OPENING", "ENCODING", "MARKING", "RECORDING_HASH"},
                 NEW held, Goto(r, pc, held)
          PROVE  \E h : /\ reqs' = [reqs EXCEPT ![r] = h] /\ h.op = reqs[r].op
                        /\ h.pc \notin Replies \cup {"LOST"}
      <4> DEFINE h == [reqs[r] EXCEPT !.pc = pc]
      <4>1. reqs' = [reqs EXCEPT ![r] = h]
        BY <3>2 DEF Goto
      <4>2. h.op = reqs[r].op /\ h.pc = pc
        BY DEF IInv, TypeOK, Handler
      <4> HIDE DEF h
      <4> QED BY <4>1, <4>2 DEF Replies
    <3> QED BY <3>1, <3>2 DEF PassGuard, EncodeAnswers, Open, HashAnswers
  <2>2. reqs[r].pc \notin Replies \cup {"LOST"}
    BY <1>2 DEF Parked, Running, Replies
  <2> QED BY <2>1, <2>2, GoesOn DEF IInv
<1> QED BY <1>1, <1>3, <1>4 DEF Ledger!ledgerVars

LEMMA NetworkMoves ==
  ASSUME IInv, ChainStep
  PROVE  \E a \in Attempts : Ledger!Take(a) \/ Ledger!End(a)
<1>1. PICK a \in Attempts : Accept(a) \/ Refuse(a) \/ Evict(a) \/ \E outcome \in Outcomes : Mine(a, outcome)
  BY DEF ChainStep
<1>2. Asked' = Asked /\ Answered' = Answered /\ Book' = Book
  BY <1>1 DEF Accept, Refuse, Evict, Mine, Asked, Answered, Book
<1>3. Wire[a] = txs[a].status
  BY DEF Wire
<1>4. ASSUME NEW fate, txs' = [txs EXCEPT ![a] = [@ EXCEPT !.status = fate]]
      PROVE  Wire' = [Wire EXCEPT ![a] = fate]
  BY <1>4 DEF Wire, IInv, TypeOK, Tx
<1>5. CASE Accept(a)
  <2> DEFINE displaced == {b \in Attempts : txs[b].status = "MEMPOOL" /\ txs[b].nonce = txs[a].nonce}
  <2>1. displaced \in SUBSET {b \in Attempts : Wire[b] = "MEMPOOL"}
    BY DEF Wire
  <2>2. \A b \in Attempts : txs'[b].status = IF b = a THEN "MEMPOOL"
                                            ELSE IF b \in displaced THEN "GONE" ELSE txs[b].status
    BY <1>5 DEF Accept, IInv, TypeOK, Tx
  <2>3. Wire' = [b \in Attempts |-> IF b = a THEN "MEMPOOL" ELSE IF b \in displaced THEN "GONE" ELSE Wire[b]]
    <3> HIDE DEF displaced
    <3> QED BY <2>2 DEF Wire
  <2>4. Wire[a] = "IN_TRANSIT"
    BY <1>3, <1>5 DEF Accept
  <2> HIDE DEF displaced
  <2> QED BY <1>2, <2>1, <2>3, <2>4, SameAttempts DEF Ledger!Take
<1>6. CASE Refuse(a)
  BY <1>2, <1>3, <1>4, <1>6 DEF Refuse, Ledger!End
<1>7. CASE Evict(a)
  BY <1>2, <1>3, <1>4, <1>7 DEF Evict, Ledger!End
<1>8. CASE \E outcome \in Outcomes : Mine(a, outcome)
  BY <1>2, <1>3, <1>4, <1>8 DEF Mine, Outcomes, Ledger!End, Ledger!Outcomes
<1> QED BY <1>1, <1>5, <1>6, <1>7, <1>8

LEMMA SweepSettles ==
  ASSUME IInv, NEW s \in Sweeps, SweepStart(s) \/ SweepStep(s)
  PROVE  \/ UNCHANGED Ledger!ledgerVars
         \/ \E a \in Attempts : Ledger!Confirm(a) \/ Ledger!GiveUp(a)
<1>1. reqs' = reqs /\ txs' = txs
  BY DEF SweepStart, SweepStep, SweepReadsNonce, AskReceipt, ReceiptUnanswered, ReceiptConfirms,
     ResolveNeverSent, ResolveUnresolved, SweepReturns
<1>2. Asked' = Asked /\ Answered' = Answered /\ Wire' = Wire
  BY <1>1 DEF Asked, Answered, Wire
<1>3. CASE rows' = rows
  BY <1>2, <1>3 DEF Book, Ledger!ledgerVars
<1>4. ASSUME NEW a \in Attempts, NEW row \in Row, rows[a].state = "PENDING", Mined(a),
             rows' = [rows EXCEPT ![a] = row], row.state = "CONFIRMED", row.outcome = txs[a].status
      PROVE  Ledger!Confirm(a)
  <2>1. Book[a] = "SENT" /\ Wire[a] = txs[a].status
    BY <1>4, BookedAs DEF Book, Wire
  <2>2. Book' = [Book EXCEPT ![a] = Wire[a]]
    <3>1. Booked(row) = Wire[a]
      BY <1>4, <2>1, BookedAs
    <3>2. Book' = [Book EXCEPT ![a] = Booked(row)]
      BY <1>4, OneBooked DEF IInv
    <3> QED BY <3>1, <3>2
  <2>3. Wire[a] \in Ledger!Outcomes
    BY <1>4, <2>1 DEF Mined, Outcomes, Ledger!Outcomes
  <2> QED BY <1>2, <2>1, <2>2, <2>3 DEF Ledger!Confirm
<1>5. ASSUME NEW a \in Attempts, NEW row \in Row, rows[a].state \in {"SIGNING", "BROADCAST"},
             rows' = [rows EXCEPT ![a] = row], row.state = "FAILED_RETRYABLE"
      PROVE  Ledger!GiveUp(a)
  <2>1. Book[a] = "NOTED"
    BY <1>5, BookedAs DEF Book
  <2>2. Book' = [Book EXCEPT ![a] = "GIVEN_UP"]
    <3>1. Booked(row) = "GIVEN_UP"
      BY <1>5, BookedAs
    <3>2. Book' = [Book EXCEPT ![a] = Booked(row)]
      BY <1>5, OneBooked DEF IInv
    <3> QED BY <3>1, <3>2
  <2> QED BY <1>2, <2>1, <2>2 DEF Ledger!GiveUp
<1> QED BY <1>3, <1>4, <1>5, SweepWrites

LEMMA CrashKills ==
  ASSUME IInv, Knows, Crash
  PROVE  Ledger!Die
<1>1. ASSUME NEW r \in Requests
      PROVE  reqs[r].pc \in Parked \cup Running <=> Ledger!Working(r)
  <2>1. reqs[r].pc \in HandlerPCs
    BY DEF IInv, TypeOK, Handler
  <2>2. reqs[r].pc \in Parked \cup Running => reqs[r].op \in Ops /\ reqs[r].op # NoOp
    BY ConstantsAssumption DEF IInv, Named, Parked, Running
  <2>3. reqs[r].pc = "IDLE" => reqs[r].op = NoOp
    BY DEF Knows
  <2>4. reqs[r].pc \in Parked \cup Running <=> reqs[r].pc \notin Replies \cup {"LOST", "IDLE"}
    BY <2>1 DEF HandlerPCs, Parked, Running, Replies
  <2>5. "NONE" \notin Replies
    BY DEF Replies
  <2> QED BY <2>2, <2>3, <2>4, <2>5, LedgerFields DEF Ledger!Working
<1>2. \A r \in Requests : /\ reqs'[r].op = reqs[r].op
                          /\ reqs'[r].pc = IF reqs[r].pc \in Parked \cup Running THEN "LOST" ELSE reqs[r].pc
  BY DEF Crash, IInv, TypeOK, Handler
<1>3. Asked' = Asked
  BY <1>2 DEF Asked
<1>4. Answered' = [r \in Requests |-> IF Ledger!Working(r) THEN "LOST" ELSE Answered[r]]
  <2>1. ASSUME NEW r \in Requests
        PROVE  (IF reqs'[r].pc \in Replies \cup {"LOST"} THEN reqs'[r].pc ELSE "NONE")
                 = IF Ledger!Working(r) THEN "LOST" ELSE Answered[r]
    BY <1>1, <1>2, LedgerFields
  <2> QED BY <2>1 DEF Answered
<1>5. Book' = Book /\ Wire' = Wire
  BY DEF Crash, Book, Wire
<1> QED BY <1>3, <1>4, <1>5 DEF Ledger!Die

LEMMA StepIsLedgerStep ==
  ASSUME IInv, Told, Knows, [Next]_vars
  PROVE  [Ledger!Next]_(Ledger!ledgerVars)
<1>1. ASSUME NEW r \in Requests, HandlerStep(r) \/ \E op \in Ops : Press(r, op)
      PROVE  [Ledger!Next]_(Ledger!ledgerVars)
  <2>1. ASSUME NEW op \in Ops, Press(r, op) PROVE Ledger!Next
    BY <2>1, PressAsks DEF Ledger!Next
  <2>2. CASE DeriveFails(r) \/ RefuseInFlight(r) \/ EncodeFails(r)
    <3>1. Ledger!Refuse(r)
      BY <2>2, RefusalRefuses DEF DeriveFails, RefuseInFlight, EncodeFails
    <3> QED BY <3>1 DEF Ledger!Next
  <2>3. reqs[r].call \in 1..MaxCalls
    BY DEF IInv, TypeOK, Handler
  <2>4. CASE MarkSigning(r) \/ Post(r) \/ SubmitThrows(r) \/ HashRejected(r) \/ RecordHash(r)
    <3>1. \E i \in 1..MaxCalls : \/ Ledger!Note(r, i) \/ Ledger!Post(r, i)
                                 \/ Ledger!Trust(r, i) \/ Ledger!Fail(r, i)
      BY <2>3, <2>4, SigningNotes, PostPosts, ThrowFails, RecordTrusts
    <3> QED BY <3>1 DEF Ledger!Next
  <2>5. CASE PassGuard(r) \/ EncodeAnswers(r) \/ Open(r) \/ NonceAnswers(r) \/ HashAnswers(r)
    BY <2>5, RestIsHidden
  <2> QED BY <1>1, <2>1, <2>2, <2>4, <2>5 DEF HandlerStep
<1>2. CASE ChainStep
  BY <1>2, NetworkMoves, SameAttempts DEF Ledger!Next
<1>3. ASSUME NEW s \in Sweeps, SweepStart(s) \/ SweepStep(s)
      PROVE  [Ledger!Next]_(Ledger!ledgerVars)
  BY <1>3, SweepSettles, SameAttempts DEF Ledger!Next
<1>4. CASE Crash
  BY <1>4, CrashKills DEF Ledger!Next
<1>5. CASE UNCHANGED <<rows, reqs, txs>>
  BY <1>5 DEF Ledger!ledgerVars, Asked, Answered, Book, Wire
<1> QED BY <1>1, <1>2, <1>3, <1>4, <1>5 DEF Next, ResolveElsewhere, vars

\* Submitting, sweeping and crashing, for every number of presses, calls and
\* sweeps, are steps of the ledger: each call is noted before it is posted and
\* after those before it are trusted, each answer says what the book says, and
\* nothing trusted or confirmed is taken back.
THEOREM Implements == Spec => ImplementsWriteLedger
<1>1. Init => Ledger!Init
  <2> SUFFICES ASSUME Init PROVE Ledger!Init
    OBVIOUS
  <2>1. \A row : row.state = "ABSENT" => Booked(row) = "NONE"
    BY BookedAs
  <2>2. \A a \in Attempts : rows[a].state = "ABSENT" /\ txs[a].status = "UNSENT"
    BY DEF Init
  <2>3. \A r \in Requests : reqs[r].op = NoOp /\ reqs[r].pc = "IDLE"
    BY DEF Init
  <2>4. Book = [a \in Attempts |-> "NONE"] /\ Wire = [a \in Attempts |-> "UNSENT"]
    BY <2>1, <2>2 DEF Book, Wire
  <2>5. Asked = [r \in Requests |-> NoOp] /\ Answered = [r \in Requests |-> "NONE"]
    BY <2>3 DEF Asked, Answered, Replies
  <2> QED BY <2>4, <2>5, SameAttempts DEF Ledger!Init
<1>2. Init => Told /\ Knows
  <2> SUFFICES ASSUME Init PROVE Told /\ Knows
    OBVIOUS
  <2> QED BY ConstantsAssumption DEF Init, Told, Knows
<1>3. IInv /\ Told /\ Knows /\ [Next]_vars => Told' /\ Knows'
  BY StepKeepsTold, StepKeepsKnows
<1>4. IInv /\ Told /\ Knows /\ [Next]_vars => [Ledger!Next]_(Ledger!ledgerVars)
  BY StepIsLedgerStep
<1> QED BY <1>1, <1>2, <1>3, <1>4, InvHolds, PTL DEF Spec, ImplementsWriteLedger, Ledger!Spec

=============================================================================
