------------------------ MODULE TransactionLifecycle ------------------------
(***************************************************************************)
(* The life of one attempt row: the states a write goes through and the    *)
(* moves between them, from src/src/domain/transactions/                   *)
(* transactionLifecycle.ts.  Every module that moves a row EXTENDS this    *)
(* one, so there is one table of legal moves, as in the code.              *)
(***************************************************************************)

\* TRANSACTION_STATES, in the order of the source.
TransactionStates ==
  {"READY", "SIGNING", "BROADCAST", "PENDING",
   "CONFIRMED", "FAILED_RETRYABLE", "FAILED_TERMINAL"}

\* TRANSITIONS.  PENDING has no edge to a failure and CONFIRMED has none at
\* all; the edge out of BROADCAST to FAILED_RETRYABLE is reconciliation's.
Transitions ==
  [READY            |-> {"SIGNING", "FAILED_RETRYABLE", "FAILED_TERMINAL"},
   SIGNING          |-> {"BROADCAST", "FAILED_RETRYABLE", "FAILED_TERMINAL"},
   BROADCAST        |-> {"PENDING", "FAILED_RETRYABLE"},
   PENDING          |-> {"CONFIRMED"},
   CONFIRMED        |-> {},
   FAILED_RETRYABLE |-> {},
   FAILED_TERMINAL  |-> {}]

\* A mistaken table: any row that has a move left may make any move.
CanTransitionUnlessTerminal(from, to) == Transitions[from] # {}

\* canTransition, which assertTransactionTransition turns into a throw.
CanTransition(from, to) == to \in Transitions[from]

\* A mistaken list: it forgets the row handed to the signer.
IsInFlightOnceBroadcast(state) == state \in {"BROADCAST", "PENDING"}

\* isInFlight: what a crash can leave behind that recovery must resolve.
IsInFlight(state) == state \in {"SIGNING", "BROADCAST", "PENDING"}
=============================================================================
