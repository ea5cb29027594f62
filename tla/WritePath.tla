----------------------------- MODULE WritePath -----------------------------
(***************************************************************************)
(* One wallet's writes: the worker's submit handlers, the transactions     *)
(* table they record into, the provider's mempool and the chain, and the   *)
(* reconciliation sweep that resolves what a crash left in flight.         *)
(*                                                                         *)
(*   submit handler   src/src/app/submitImportedOperation.ts               *)
(*                    src/src/app/submitOperation.ts                       *)
(*   signer           src/src/adapters/chain/zaryaSigner.ts                *)
(*   attempt rows     src/src/adapters/store/sqliteTransactionStore.ts     *)
(*   sweep            src/src/app/reconcileTransactions.ts                 *)
(*   chain answers    src/src/adapters/chain/zaryaReceipts.ts              *)
(*                                                                         *)
(* The worker is one JavaScript event loop.  A handler keeps the loop from *)
(* one answer of the network (or of the PDF reader) to its next wait for   *)
(* one; the SQLite calls in between are synchronous.  `thread' names the   *)
(* handler that holds the loop, so handlers interleave only where the code *)
(* really waits, while a crash may fall between any two commits.           *)
(***************************************************************************)
EXTENDS TransactionLifecycle, Integers, FiniteSets

CONSTANTS
  Requests,   \* presses of Send: one submitOperation message each
  Ops,        \* imported operations a press may name
  NumCalls,   \* NumCalls[op]: how many calls callsForIntent expands op into
  MaxCalls,   \* the longest expansion: three for a threshold configuration
  Organs,     \* party organs a call may address
  OrganOf,    \* OrganOf[op]: the organ of op's calls, NoOrgan when none
  NoOrgan,
  Sweeps,     \* concurrent runs of reconcileTransactions
  SweepsBesideHandlers,  \* may the caller start one beside a live handler?
  Free,       \* nobody holds the event loop
  NoOp,       \* a press that has not happened names no operation
  NoNonce,    \* SQL NULL, and `undefined' where the provider did not answer
  NoOutcome,
  MaxNonce    \* a bound on the nonces the chain can reach; never met

Attempts == Requests \X (1..MaxCalls)

ASSUME ConstantsAssumption ==
  /\ MaxCalls \in Nat \ {0}
  /\ NumCalls \in [Ops -> 1..MaxCalls]
  /\ OrganOf \in [Ops -> Organs \cup {NoOrgan}]
  /\ NoOrgan \notin Organs
  /\ Requests \cap Sweeps = {}
  /\ SweepsBesideHandlers \in BOOLEAN
  /\ Free \notin Requests \cup Sweeps
  /\ NoOp \notin Ops
  /\ MaxNonce \in Nat
  /\ NoNonce \notin Nat
  /\ NoOutcome \notin {"SUCCESS", "REVERTED"}

VARIABLES
  rows,         \* the transactions table: one row per attempt
  reqs,         \* the submit handlers, with their local variables
  sweeps,       \* the reconciliation handlers, with their local variables
  thread,       \* who holds the event loop
  organCache,   \* organs this process has already resolved
  txs,          \* what became of each attempt's transaction
  accountNonce  \* the wallet's nonce on chain: its mined transactions

vars == <<rows, reqs, sweeps, thread, organCache, txs, accountNonce>>

Nonces == 0..MaxNonce
RowStates == TransactionStates \cup {"ABSENT"}
Outcomes == {"SUCCESS", "REVERTED"}

\* Where a handler may be: parked at a wait, holding the loop, or done.
Parked  == {"DERIVING", "ENCODING", "READING_NONCE", "PREPARING", "AWAITING_HASH"}
Running == {"OPENING", "MARKING", "RECORDING_HASH"}
Replies == {"NOT_SENT", "WRITES_IN_FLIGHT", "NOT_ENCODABLE", "SUBMISSION_FAILED",
            "PARTIALLY_SUBMITTED", "SUBMITTED", "FAILURE"}

HandlerPCs == {"IDLE", "LOST"} \cup Parked \cup Running \cup Replies
SweepPCs   == {"IDLE", "NONCE", "RESOLVING", "RECEIPT", "DONE"}
TxStatuses == {"UNSENT", "IN_TRANSIT", "REFUSED", "MEMPOOL", "GONE"} \cup Outcomes

MaybeNonce == Nonces \cup {NoNonce}

Row     == [state : RowStates, nonce : MaybeNonce, hash : BOOLEAN,
            outcome : Outcomes \cup {NoOutcome}]
Handler == [pc : HandlerPCs, op : Ops \cup {NoOp}, call : 1..MaxCalls, nonce : MaybeNonce]
\* What listInFlight copies out of a row and the sweep later decides on.
Record  == [id : Attempts, nonce : MaybeNonce, hash : BOOLEAN]
Sweep   == [pc : SweepPCs, todo : SUBSET Record, pendingNonce : MaybeNonce,
            blocked : BOOLEAN]
Tx      == [status : TxStatuses, nonce : MaybeNonce]

\* Every variable keeps to its type; a handler past its last call, or a nonce
\* that is neither NULL nor one the chain can assign, would break it.
TypeOK ==
  /\ rows \in [Attempts -> Row]
  /\ reqs \in [Requests -> Handler]
  /\ sweeps \in [Sweeps -> Sweep]
  /\ thread \in Requests \cup Sweeps \cup {Free}
  /\ organCache \subseteq Organs
  /\ txs \in [Attempts -> Tx]
  /\ accountNonce \in Nat

Init ==
  /\ rows = [a \in Attempts |->
               [state |-> "ABSENT", nonce |-> NoNonce, hash |-> FALSE, outcome |-> NoOutcome]]
  /\ reqs = [r \in Requests |-> [pc |-> "IDLE", op |-> NoOp, call |-> 1, nonce |-> NoNonce]]
  /\ sweeps = [s \in Sweeps |->
                 [pc |-> "IDLE", todo |-> {}, pendingNonce |-> NoNonce, blocked |-> FALSE]]
  /\ thread = Free
  /\ organCache = {}
  /\ txs = [a \in Attempts |-> [status |-> "UNSENT", nonce |-> NoNonce]]
  /\ accountNonce = 0

-----------------------------------------------------------------------------
(* The store and the chain, as the handlers ask them. *)

\* listInFlight, as the set of attempts it selects.
InFlight == {a \in Attempts : IsInFlight(rows[a].state)}

\* listInFlight's answer: rows copied out at one instant.
Snapshot == {[id |-> a, nonce |-> rows[a].nonce, hash |-> rows[a].hash] : a \in InFlight}

\* Mistaken forms: a known transaction read as one with a receipt; a hash
\* taken for an answer before the provider gave one.
KnownIsMined(a) == txs[a].status \in {"MEMPOOL"} \cup Outcomes
PostedIsAccepted(a) == txs[a].status # "UNSENT"

\* getTransactionReceipt finds a receipt.
Mined(a) == txs[a].status \in Outcomes

\* The provider took this transaction, so it can answer with its hash.
Accepted(a) == txs[a].status \in {"MEMPOOL", "GONE"} \cup Outcomes

InMempool(n) == \E a \in Attempts : txs[a].status = "MEMPOOL" /\ txs[a].nonce = n

\* getTransactionCount(pending): the first nonce after the mined ones that no
\* executable mempool transaction of this wallet holds.
IsPendingNonce(n) ==
  /\ n >= accountNonce
  /\ ~InMempool(n)
  /\ \A m \in accountNonce..(n - 1) : InMempool(m)

-----------------------------------------------------------------------------
(* The submit handler. *)

Attempt(r) == <<r, reqs[r].call>>

\* The handler's next await or its reply; `held' is who has the loop after it.
Goto(r, pc, held) ==
  /\ reqs' = [reqs EXCEPT ![r].pc = pc]
  /\ thread' = held

\* A submitOperation message: the record and its form bytes are read at once
\* and the document is handed to the PDF reader.
Press(r, op) ==
  /\ thread = Free
  /\ reqs[r].pc = "IDLE"
  /\ reqs' = [reqs EXCEPT ![r].pc = "DERIVING", ![r].op = op]
  /\ UNCHANGED <<rows, sweeps, thread, organCache, txs, accountNonce>>

\* No key, no imported form, an unreadable or unbindable one, a cell the chain
\* would not answer for, or an invalid intent: refused before submitOperation.
DeriveFails(r) ==
  /\ thread = Free
  /\ reqs[r].pc = "DERIVING"
  /\ Goto(r, "NOT_SENT", Free)
  /\ UNCHANGED <<rows, sweeps, organCache, txs, accountNonce>>

\* The guard, asked of the store: something of this wallet is unresolved.
RefuseInFlight(r) ==
  /\ thread = Free
  /\ reqs[r].pc = "DERIVING"
  /\ InFlight # {}
  /\ Goto(r, "WRITES_IN_FLIGHT", Free)
  /\ UNCHANGED <<rows, sweeps, organCache, txs, accountNonce>>

\* The guard passes.  Encoding the first call waits for the network only when
\* it carries an organ this process has not resolved yet.
PassGuard(r) ==
  /\ thread = Free
  /\ reqs[r].pc = "DERIVING"
  /\ InFlight = {}
  /\ IF OrganOf[reqs[r].op] \in organCache \cup {NoOrgan}
       THEN Goto(r, "OPENING", r)
       ELSE Goto(r, "ENCODING", Free)
  /\ UNCHANGED <<rows, sweeps, organCache, txs, accountNonce>>

EncodeAnswers(r) ==
  /\ thread = Free
  /\ reqs[r].pc = "ENCODING"
  /\ organCache' = organCache \cup {OrganOf[reqs[r].op]}
  /\ Goto(r, "OPENING", r)
  /\ UNCHANGED <<rows, sweeps, txs, accountNonce>>

\* The organ could not be resolved, or the contract disagrees about it.  Only
\* the first call can meet this: the later ones find the organ resolved.
EncodeFails(r) ==
  /\ thread = Free
  /\ reqs[r].pc = "ENCODING"
  /\ Goto(r, "NOT_ENCODABLE", Free)
  /\ UNCHANGED <<rows, sweeps, organCache, txs, accountNonce>>

\* transactions.open: the row is durable before anything is signed.
Open(r) ==
  /\ thread = r
  /\ reqs[r].pc = "OPENING"
  /\ rows' = [rows EXCEPT ![Attempt(r)].state = "READY"]
  /\ Goto(r, "MARKING", r)
  /\ UNCHANGED <<sweeps, organCache, txs, accountNonce>>

\* A mistaken form: the signer is called before the row says so.
MarkSigningLater(r) ==
  /\ thread = r
  /\ reqs[r].pc = "MARKING"
  /\ Goto(r, "READING_NONCE", Free)
  /\ UNCHANGED <<rows, sweeps, organCache, txs, accountNonce>>

\* advance(SIGNING), then signer.submit, which waits for the pending nonce.
MarkSigning(r) ==
  /\ thread = r
  /\ reqs[r].pc = "MARKING"
  /\ CanTransition(rows[Attempt(r)].state, "SIGNING")
  /\ rows' = [rows EXCEPT ![Attempt(r)].state = "SIGNING"]
  /\ Goto(r, "READING_NONCE", Free)
  /\ UNCHANGED <<sweeps, organCache, txs, accountNonce>>

NonceAnswers(r) ==
  /\ thread = Free
  /\ reqs[r].pc = "READING_NONCE"
  /\ \E n \in Nonces :
       /\ IsPendingNonce(n)
       /\ reqs' = [reqs EXCEPT ![r].pc = "PREPARING", ![r].nonce = n]
  /\ UNCHANGED <<rows, sweeps, thread, organCache, txs, accountNonce>>

\* sendTransaction has its gas and fees, signs, and posts the raw bytes.
Post(r) ==
  /\ thread = Free
  /\ reqs[r].pc = "PREPARING"
  /\ txs' = [txs EXCEPT ![Attempt(r)] = [status |-> "IN_TRANSIT", nonce |-> reqs[r].nonce]]
  /\ Goto(r, "AWAITING_HASH", Free)
  /\ UNCHANGED <<rows, sweeps, organCache, accountNonce>>

\* Mistaken forms of the next two: no timeout on the answer to a posted
\* transaction; a wrong refusal code; a refusal never collapsed.
MayThrowBeforePosting(r) == reqs[r].pc \in {"READING_NONCE", "PREPARING"}
PartialWrongCode(r) ==
  IF reqs[r].call = 1 THEN "NOT_ENCODABLE" ELSE "PARTIALLY_SUBMITTED"
PartialAlways(r) == "PARTIALLY_SUBMITTED"

\* Each wait of signer.submit may reject.
MayThrow(r) == reqs[r].pc \in {"READING_NONCE", "PREPARING", "AWAITING_HASH"}

\* `partial': a plain refusal when no call was sent before this one.
Partial(r) == IF reqs[r].call = 1 THEN "SUBMISSION_FAILED" ELSE "PARTIALLY_SUBMITTED"

\* A mistaken form of the next: an attempt that threw may be tried again.
SubmitThrowsRetryable(r) ==
  /\ thread = Free
  /\ MayThrow(r)
  /\ Goto(r, Partial(r), Free)
  /\ rows' = [rows EXCEPT ![Attempt(r)].state = "FAILED_RETRYABLE"]
  /\ UNCHANGED <<sweeps, organCache, txs, accountNonce>>

\* signer.submit throws: a read failed, the provider refused, or its answer
\* was lost.  The row stays SIGNING.
SubmitThrows(r) ==
  /\ thread = Free
  /\ MayThrow(r)
  /\ Goto(r, Partial(r), Free)
  /\ UNCHANGED <<rows, sweeps, organCache, txs, accountNonce>>

\* The provider answers with the hash: advance(BROADCAST, nonce).
HashAnswers(r) ==
  /\ thread = Free
  /\ reqs[r].pc = "AWAITING_HASH"
  /\ Accepted(Attempt(r))
  /\ CanTransition(rows[Attempt(r)].state, "BROADCAST")
  /\ rows' = [rows EXCEPT ![Attempt(r)] =
                [@ EXCEPT !.state = "BROADCAST", !.nonce = reqs[r].nonce]]
  /\ Goto(r, "RECORDING_HASH", r)
  /\ UNCHANGED <<sweeps, organCache, txs, accountNonce>>

\* The same answer when a sweep has moved the row meanwhile: advance throws,
\* the hash is dropped and the worker replies with a failure.
HashRejected(r) ==
  /\ thread = Free
  /\ reqs[r].pc = "AWAITING_HASH"
  /\ Accepted(Attempt(r))
  /\ ~CanTransition(rows[Attempt(r)].state, "BROADCAST")
  /\ Goto(r, "FAILURE", Free)
  /\ UNCHANGED <<rows, sweeps, organCache, txs, accountNonce>>

\* callsForIntent gave a call after this one.
HasNextCall(r) == reqs[r].call < NumCalls[reqs[r].op]

\* advance(PENDING, hash), and on to the next call with no wait in between,
\* because the organ is resolved by now.
RecordHash(r) ==
  /\ thread = r
  /\ reqs[r].pc = "RECORDING_HASH"
  /\ CanTransition(rows[Attempt(r)].state, "PENDING")
  /\ rows' = [rows EXCEPT ![Attempt(r)] = [@ EXCEPT !.state = "PENDING", !.hash = TRUE]]
  /\ IF HasNextCall(r)
       THEN /\ reqs' = [reqs EXCEPT ![r].pc = "OPENING", ![r].call = @ + 1,
                                    ![r].nonce = NoNonce]
            /\ thread' = r
       ELSE Goto(r, "SUBMITTED", Free)
  /\ UNCHANGED <<sweeps, organCache, txs, accountNonce>>

HandlerStep(r) ==
  \/ DeriveFails(r) \/ RefuseInFlight(r) \/ PassGuard(r)
  \/ EncodeAnswers(r) \/ EncodeFails(r)
  \/ Open(r) \/ MarkSigning(r)
  \/ NonceAnswers(r) \/ Post(r) \/ SubmitThrows(r)
  \/ HashAnswers(r) \/ HashRejected(r) \/ RecordHash(r)

-----------------------------------------------------------------------------
(* The provider and the chain. *)

\* The provider takes a posted transaction whose nonce is not spent.  One of
\* this wallet already waiting under that nonce is replaced by it.
Accept(a) ==
  /\ txs[a].status = "IN_TRANSIT"
  /\ txs[a].nonce >= accountNonce
  /\ txs' = [b \in Attempts |->
               IF b = a THEN [txs[a] EXCEPT !.status = "MEMPOOL"]
               ELSE IF txs[b].status = "MEMPOOL" /\ txs[b].nonce = txs[a].nonce
                 THEN [txs[b] EXCEPT !.status = "GONE"]
                 ELSE txs[b]]
  /\ UNCHANGED <<rows, reqs, sweeps, thread, organCache, accountNonce>>

\* Nonce too low, underpriced replacement, or the request never arrived.
Refuse(a) ==
  /\ txs[a].status = "IN_TRANSIT"
  /\ txs' = [txs EXCEPT ![a].status = "REFUSED"]
  /\ UNCHANGED <<rows, reqs, sweeps, thread, organCache, accountNonce>>

Mine(a, outcome) ==
  /\ txs[a].status = "MEMPOOL"
  /\ txs[a].nonce = accountNonce
  /\ txs' = [txs EXCEPT ![a].status = outcome]
  /\ accountNonce' = accountNonce + 1
  /\ UNCHANGED <<rows, reqs, sweeps, thread, organCache>>

\* A mempool may drop a transaction it answered for.
Evict(a) ==
  /\ txs[a].status = "MEMPOOL"
  /\ txs' = [txs EXCEPT ![a].status = "GONE"]
  /\ UNCHANGED <<rows, reqs, sweeps, thread, organCache, accountNonce>>

ChainStep ==
  \E a \in Attempts :
    Accept(a) \/ Refuse(a) \/ Evict(a) \/ \E outcome \in Outcomes : Mine(a, outcome)

-----------------------------------------------------------------------------
(* The sweep.  Nothing in the worker calls it yet; its documentation lets  *)
(* a caller run it on startup, on reconnect and on demand, hence beside    *)
(* live handlers unless SweepsBesideHandlers says the caller waits.        *)

\* No submit handler is under way, as at startup.
Quiet == \A r \in Requests : reqs[r].pc \notin Parked \cup Running

SweepAt(s, pc) == sweeps[s].pc = pc

\* listInFlight.  Nothing in flight ends the sweep at once.
SweepStart(s) ==
  /\ thread = Free
  /\ sweeps[s].pc \in {"IDLE", "DONE"}
  /\ SweepsBesideHandlers \/ Quiet
  /\ sweeps' = [sweeps EXCEPT ![s] =
                  [pc |-> IF InFlight = {} THEN "DONE" ELSE "NONCE",
                   todo |-> Snapshot, pendingNonce |-> NoNonce, blocked |-> FALSE]]
  /\ UNCHANGED <<rows, reqs, thread, organCache, txs, accountNonce>>

\* The one pendingNonce read of the sweep; `undefined' is an answer too.
SweepReadsNonce(s) ==
  /\ thread = Free
  /\ SweepAt(s, "NONCE")
  /\ \E n \in Nonces \cup {NoNonce} :
       /\ n # NoNonce => IsPendingNonce(n)
       /\ sweeps' = [sweeps EXCEPT ![s].pc = "RESOLVING", ![s].pendingNonce = n]
  /\ thread' = s
  /\ UNCHANGED <<rows, reqs, organCache, txs, accountNonce>>

\* One record is dealt with; the sweep goes on to the next holding the loop.
Resolved(s, record, blocks) ==
  /\ sweeps' = [sweeps EXCEPT ![s].pc = "RESOLVING", ![s].todo = @ \ {record},
                              ![s].blocked = @ \/ blocks]
  /\ thread' = s

\* advance throws: the row moved after it was copied out, and the whole sweep
\* ends there with its caller holding the error.
SweepThrows(s) ==
  /\ sweeps' = [sweeps EXCEPT ![s] = [pc |-> "IDLE", todo |-> {}, pendingNonce |-> NoNonce,
                                      blocked |-> FALSE]]
  /\ thread' = Free

\* A record with a hash: wait for its receipt.
AskReceipt(s) ==
  /\ thread = s
  /\ SweepAt(s, "RESOLVING")
  /\ \E record \in sweeps[s].todo : record.hash
  /\ sweeps' = [sweeps EXCEPT ![s].pc = "RECEIPT"]
  /\ thread' = Free
  /\ UNCHANGED <<rows, reqs, organCache, txs, accountNonce>>

\* No receipt yet, or no answer: STILL_PENDING.
ReceiptUnanswered(s) ==
  /\ thread = Free
  /\ SweepAt(s, "RECEIPT")
  /\ \E record \in sweeps[s].todo : record.hash /\ Resolved(s, record, TRUE)
  /\ UNCHANGED <<rows, reqs, organCache, txs, accountNonce>>

\* A receipt was read: advance(CONFIRMED, outcome), success or revert alike.
ReceiptConfirms(s, a) ==
  /\ thread = Free
  /\ SweepAt(s, "RECEIPT")
  /\ Mined(a)
  /\ \E record \in sweeps[s].todo :
       /\ record.id = a
       /\ record.hash
       /\ IF CanTransition(rows[a].state, "CONFIRMED")
            THEN /\ rows' = [rows EXCEPT ![a] =
                               [@ EXCEPT !.state = "CONFIRMED", !.outcome = txs[a].status]]
                 /\ Resolved(s, record, FALSE)
            ELSE SweepThrows(s) /\ UNCHANGED rows
  /\ UNCHANGED <<reqs, organCache, txs, accountNonce>>

\* NEVER_SENT, judged on the copied record: no nonce was recorded, or the one
\* recorded is still unused at the provider.
NeverSent(s, record) ==
  \/ record.nonce = NoNonce
  \/ /\ NoNonce \notin {record.nonce, sweeps[s].pendingNonce}
     /\ record.nonce >= sweeps[s].pendingNonce

ResolveNeverSent(s) ==
  /\ thread = s
  /\ SweepAt(s, "RESOLVING")
  /\ \E record \in sweeps[s].todo :
       /\ ~record.hash
       /\ NeverSent(s, record)
       /\ IF CanTransition(rows[record.id].state, "FAILED_RETRYABLE")
            THEN /\ rows' = [rows EXCEPT ![record.id].state = "FAILED_RETRYABLE"]
                 /\ Resolved(s, record, TRUE)
            ELSE SweepThrows(s) /\ UNCHANGED rows
  /\ UNCHANGED <<reqs, organCache, txs, accountNonce>>

\* The nonce is spent, or the provider did not say: left in flight.
ResolveUnresolved(s) ==
  /\ thread = s
  /\ SweepAt(s, "RESOLVING")
  /\ \E record \in sweeps[s].todo :
       /\ ~record.hash
       /\ ~NeverSent(s, record)
       /\ Resolved(s, record, TRUE)
  /\ UNCHANGED <<rows, reqs, organCache, txs, accountNonce>>

SweepReturns(s) ==
  /\ thread = s
  /\ SweepAt(s, "RESOLVING")
  /\ sweeps[s].todo = {}
  /\ sweeps' = [sweeps EXCEPT ![s].pc = "DONE"]
  /\ thread' = Free
  /\ UNCHANGED <<rows, reqs, organCache, txs, accountNonce>>

SweepStep(s) ==
  \/ SweepReadsNonce(s) \/ AskReceipt(s) \/ ReceiptUnanswered(s)
  \/ \E a \in Attempts : ReceiptConfirms(s, a)
  \/ ResolveNeverSent(s) \/ ResolveUnresolved(s) \/ SweepReturns(s)

-----------------------------------------------------------------------------
\* The rest of the worker resolves organs through the same cache: issuing a
\* template for an organ, or reading the matrix for a report.
ResolveElsewhere(organ) ==
  /\ thread = Free
  /\ organCache' = organCache \cup {organ}
  /\ UNCHANGED <<rows, reqs, sweeps, thread, txs, accountNonce>>

\* The worker dies and is forked again: the table, the mempool and the chain
\* keep what they had, the handlers and the resolved organs are gone.
Crash ==
  /\ reqs' = [r \in Requests |->
                IF reqs[r].pc \in Parked \cup Running
                  THEN [reqs[r] EXCEPT !.pc = "LOST"] ELSE reqs[r]]
  /\ sweeps' = [s \in Sweeps |->
                  [pc |-> "IDLE", todo |-> {}, pendingNonce |-> NoNonce, blocked |-> FALSE]]
  /\ thread' = Free
  /\ organCache' = {}
  /\ UNCHANGED <<rows, txs, accountNonce>>

Next ==
  \/ \E r \in Requests : HandlerStep(r) \/ \E op \in Ops : Press(r, op)
  \/ ChainStep
  \/ \E s \in Sweeps : SweepStart(s) \/ SweepStep(s)
  \/ \E organ \in Organs : ResolveElsewhere(organ)
  \/ Crash

Spec == Init /\ [][Next]_vars

\* The event loop runs a settled wait in its turn, and every wait of a handler
\* settles: viem gives each request a timeout.  What holds the loop runs on to
\* its next wait.  The worker stops crashing.  Nothing starts a sweep (main.ts
\* calls none), and none that was started is assumed to be answered.
HandlersRun == \A r \in Requests : SF_vars(HandlerStep(r))
LoopReleased == \A s \in Sweeps : WF_vars(thread = s /\ SweepStep(s))
WorkerStaysUp == <>[][~Crash]_vars

LiveSpec == Spec /\ HandlersRun /\ LoopReleased /\ WorkerStaysUp

-----------------------------------------------------------------------------
(* What holds. *)

\* A transaction that was ever posted has a row, and the row says at least
\* that it was handed to the signer: `open' and `advance(SIGNING)' are durable
\* before `signer.submit', whatever crash comes after.
PostedIsRecorded ==
  \A a \in Attempts :
    txs[a].status # "UNSENT" => rows[a].state \notin {"ABSENT", "READY"}

\* A row with a hash (PENDING, CONFIRMED) is about a transaction the provider
\* took, under the nonce the row records, however many handlers, sweeps and
\* crashes came between reading the nonce and committing the hash.
HashedIsAccepted ==
  \A a \in Attempts :
    rows[a].state \in {"PENDING", "CONFIRMED"} =>
      /\ rows[a].hash
      /\ rows[a].nonce = txs[a].nonce
      /\ txs[a].status \notin {"UNSENT", "IN_TRANSIT", "REFUSED"}

\* CONFIRMED is a receipt that was read: the transaction was mined and the row
\* records its own outcome, revert included, although the sweep decides on a
\* copy of the row made before two waits.
ConfirmedIsMined ==
  \A a \in Attempts :
    rows[a].state = "CONFIRMED" =>
      rows[a].outcome \in Outcomes /\ rows[a].outcome = txs[a].status

\* One active write per signer (submitOperation.ts:20), as far as it goes: of
\* two presses with rows in flight one had to wait for an organ.  Without such
\* a wait the guard, `open' and `advance(SIGNING)' run in one stretch, and the
\* calls of an operation after its first never let the guard pass.
OneWriterWithoutOrgans ==
  \A a, b \in InFlight :
    a[1] # b[1] => \E c \in {a, b} : OrganOf[reqs[c[1]].op] # NoOrgan

\* A refusal before the signer left nothing behind: no row of this press and
\* nothing posted.  NOT_ENCODABLE answers after a wait, with other handlers
\* opening rows meanwhile.
RefusalSentNothing ==
  \A r \in Requests :
    reqs[r].pc \in {"NOT_SENT", "WRITES_IN_FLIGHT", "NOT_ENCODABLE"} =>
      \A i \in 1..MaxCalls : rows[<<r, i>>].state = "ABSENT" /\ txs[<<r, i>>].status = "UNSENT"

\* What a reply says of a multi-call operation is what happened: SUBMITTED has
\* a recorded hash for every call; PARTIALLY_SUBMITTED has one for at least the
\* first call and for every call before the one that failed, and the calls
\* after it were never opened.
RepliesTellHowFar ==
  \A r \in Requests :
    LET Recorded(i) == rows[<<r, i>>].state \in {"PENDING", "CONFIRMED"} IN
    /\ reqs[r].pc = "SUBMITTED" => \A i \in 1..NumCalls[reqs[r].op] : Recorded(i)
    /\ reqs[r].pc = "PARTIALLY_SUBMITTED" =>
         /\ reqs[r].call > 1
         /\ \A i \in 1..(reqs[r].call - 1) : Recorded(i)
         /\ \A i \in (reqs[r].call + 1)..MaxCalls : rows[<<r, i>>].state = "ABSENT"

\* The order of the three threshold setters reaches the chain: unless a
\* mempool dropped or replaced something, a later call of an operation is
\* mined only after every earlier one, because the later nonce is read only
\* once the earlier transaction is known to hold its own.
CallsMinedInOrder ==
  (\A a \in Attempts : txs[a].status # "GONE") =>
    \A r \in Requests : \A i, j \in 1..MaxCalls :
      i < j /\ Mined(<<r, j>>) => Mined(<<r, i>>)

\* PENDING is never FAILED (transactionLifecycle.ts:58): a sweep holding a copy
\* made while the row was SIGNING cannot fail it once it is PENDING.
PendingOnlyConfirms ==
  [][\A a \in Attempts :
       rows[a].state = "PENDING" => rows'[a].state \in {"PENDING", "CONFIRMED"}]_vars

\* Nothing but a sweep takes a row out of flight (submitOperation.ts:165-170): a
\* lost answer, a dropped hash, a crash, another press and a mined transaction
\* all leave it there, and a press that reads the guard meanwhile is refused.
OnlySweepsRelease ==
  [][(\A s \in Sweeps : ~SweepStep(s)) => InFlight \subseteq InFlight']_vars

\* What the member and the chain may rely on: nonces, hashes, waits and sweeps
\* forgotten, rows and transactions are a WriteLedger.  A row counts as noted
\* from `advance(SIGNING)' on and as trusted from `advance(PENDING)' on.
Asked    == [r \in Requests |-> reqs[r].op]
Answered == [r \in Requests |-> IF reqs[r].pc \in Replies \cup {"LOST"} THEN reqs[r].pc ELSE "NONE"]
Booked(row) ==
  CASE row.state \in {"ABSENT", "READY"}      -> "NONE"
    [] row.state \in {"SIGNING", "BROADCAST"} -> "NOTED"
    [] row.state = "PENDING"                  -> "SENT"
    [] row.state = "CONFIRMED"                -> row.outcome
    [] OTHER                                  -> "GIVEN_UP"
Book == [a \in Attempts |-> Booked(rows[a])]
Wire == [a \in Attempts |-> txs[a].status]

Ledger == INSTANCE WriteLedger WITH
  Writers <- Requests, asked <- Asked, told <- Answered, book <- Book, wire <- Wire

\* Submitting and sweeping implement the ledger: every step of a handler, of a
\* sweep, of the provider and every crash is one step of it, or none.
ImplementsWriteLedger == Ledger!Spec

\* Every press is answered, or its worker died: no interleaving of waits,
\* sweeps and chain leaves a handler stuck.
EveryPressEnds ==
  \A r \in Requests :
    reqs[r].pc = "DERIVING" ~> reqs[r].pc \in Replies \cup {"LOST"}

-----------------------------------------------------------------------------
(* What the documentation says and the code does not keep. *)

\* reconcileTransactions.ts:52, "Provably never sent: no nonce was ever
\* assigned", and transactionLifecycle.ts:34-37: a FAILED_RETRYABLE row has no
\* transaction waiting in the mempool and none mined.
NeverSentIsOffChain ==
  \A a \in Attempts :
    rows[a].state = "FAILED_RETRYABLE" => ~Mined(a) /\ txs[a].status # "MEMPOOL"

\* submitOperation.ts:20, "One active write per signer (hard rule 8)": rows in
\* flight all come from one press.
OneWriter == \A a, b \in InFlight : a[1] = b[1]
=============================================================================
