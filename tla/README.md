# Zarya client: a TLA+ verification project

The application is an Electron client for the Zarya governance contract: it hands out PDF
forms, takes them back filled, turns each into the contract calls it asks for, signs and sends
those with the member's one wallet, and keeps what it did in SQLite. This directory models the
parts of it whose correctness depends on order, concurrency and failure. Paths below are relative
to the repository; TypeScript lives under `src/`, the contract under `temporal_docs/`.

## The system

| Component | State it keeps | Operations | Talks to |
|---|---|---|---|
| Submission (`app/submitImportedOperation.ts`, `app/submitOperation.ts`, `adapters/chain/zaryaSigner.ts`) | local variables of a handler in the worker | one `submitOperation` message: derive the intent, refuse if something is in flight, then for each call encode, open a row, sign and post, record nonce and hash | attempt rows, operation rows, organ resolver, provider |
| Attempt rows (`adapters/store/sqliteTransactionStore.ts`) | the `transactions` table | `open`, `advance`, `listInFlight`, `find` | SQLite |
| Transaction lifecycle (`domain/transactions/transactionLifecycle.ts`) | none (a table of legal moves) | `canTransition`, `isInFlight` | every mover of a row |
| Reconciliation sweep (`app/reconcileTransactions.ts`, `adapters/chain/zaryaReceipts.ts`) | local variables of one run | list rows in flight, read the pending nonce once, resolve each row by receipt or by nonce | attempt rows, provider; nothing calls it yet |
| Issuing (`app/issueOperationTemplate.ts`) | local variables of a handler | resolve organ, compose, `record`, write the file, `advance(EMITTED)` | operation rows, disk |
| Importing (`app/importReturnedForm.ts`, `app/intentFromForm.ts`, `adapters/forms/boundOperation.ts`) | local variables of a handler | read, bind, resolve the scale from chain, build, deduplicate, `recordReturn` | operation rows, provider |
| Operation rows (`adapters/store/sqliteOperationStore.ts`, `domain/operations/issuedTemplate.ts`) | the `operations` table | `record`, `find`, `advance`, `findByIdentity`, `recordReturn` | SQLite |
| Worker supervision (`adapters/electron/workerSupervisor.ts`) | the tracked process, health, attempts, the backoff timer, the map of waiting requests | `start`, `request`, `stop`, process events, timers | Electron's utility process |
| Organ resolver (`adapters/chain/organResolver.ts`) | a cache for the life of the worker | `resolve` | contract |
| Send panel (`renderer.ts`, `main.ts`, `ipcHandlers.ts`) | which operation is armed, whose fields are shown, which buttons wait | issue, report, import, send; a dialog before each | worker, through main |
| Member key (`adapters/platform/safeStorageKeyStore.ts`, `main.ts`, `worker.ts`) | an encrypted file; the key in main and in the worker | `ensure`, `unlock`, `useMemberKey` | supervisor |
| Intents, fields and schema (`domain/intents`, `adapters/forms/assembleFormInput.ts`, `formSchema.ts`) | none | read fields, build one of eleven intents, expand it to calls, name its identity, describe it | importing, submission |
| Fixed point, organs, regions (`domain/matrix/fixedPoint.ts`, `domain/organs`) | none | conversions | intents, reports |
| Voting reads and preflight (`domain/voting`, `domain/preflight`, `app/preflightVote.ts`) | none | judge a vote, an execution, a creation, an application from chain reads | contract |
| Discovery (`adapters/chain/votingDiscovery.ts`, `domain/voting/discoveryPlan.ts`) | a cursor row (no caller yet) | windows of log queries over confirmed blocks | contract |
| Matrix index and report (`domain/matrix/matrixIndex.ts`, `matrixReport.ts`, `app/generateMatrixReport.ts`, `adapters/chain/matrixSnapshot.ts`) | an index, for the time of one report | fold logs, read cells at a pinned block, compose rows | contract |
| The contract (`temporal_docs/Zarya.sol` and libraries) | votings, members, matrices, thresholds | create, vote, execute, set thresholds, transfer the chair | everyone |
| Receipt stamping (`app/stampOperationReceipt.ts`) | none | stamp a confirmed attempt on the stored form; no caller yet | both tables |
| Network guard, configuration, PDF layout and parsing, IPC shape checks | none, or read once at start | see *Not modelled* | |

The worker is one JavaScript event loop beside a main process that supervises it. A handler keeps
the loop from one network, disk or PDF answer to its next wait; SQLite is synchronous. So handlers
interleave only at waits, but a crash may fall between any two commits, and requests main has
given up on still run in the worker.

What is hard here:

* **crash windows** between a durable row, an effect outside (a posted transaction, a file) and
  the commit that says it happened;
* **state read before a wait and used after it**: the in-flight guard, the copied rows of a
  sweep, the state of an operation row during an import, the scale of a cell;
* **lost answers**: the provider takes a transaction and its hash never arrives; main times out
  while the worker finishes;
* **partial work**: a threshold configuration is three transactions in order;
* **restarts** that arrive in any order with timers, process events and shutdown;
* **a chain that moves while it is read**: the answers of one verdict, and the many reads of one
  report, come from different blocks, some of which may be taken back, and any of which may fail;
* **second copies of the contract's rules** in the client (who may create, what reverts, what is
  terminal, when a voting is due), which must mirror the first;
* **one meaning carried through many spellings**: a decimal text, a scale, a subject code and an
  ordinal, an address's case, a direction and a Boolean.

For each component, what makes it correct: a row never says less than what was sent, nor more
than what the provider answered (submission, rows, sweep); one press writes at a time; a reply
tells how far the work got; an operation is imported once, under an identity of its own, and
never rewritten (import); a form outside always has a row (issuing); one worker process lives,
every request settles with its own answer, and a missing worker is never silent (supervision);
an operation is posted once and never unasked (send panel and in-flight guard); a worker signs
with the stored wallet (member key); calls say what the member wrote, one proposal has one form,
and an unfinished configuration leaves whole settings (intents); a verdict is exact when the chain
stood still and can be stale in one named way only (preflight); a finished projection is the
contract's storage, no report loses a coordinate, no outage prints as emptiness (matrix).
`PROJECT.json` lists the hazards at their lines with the properties that watch them.

## Modules

| Module | Models |
|---|---|
| `TransactionLifecycle` | the states of an attempt row and its legal moves |
| `WritePath` | submission, attempt rows, the sweep, and the provider with its mempool and the chain; extends `TransactionLifecycle` |
| `MCWritePath` | instances of it: a vote (one call, no organ), a voting on an organ, a threshold configuration |
| `WriteLedger` | a press of Send as an abstract specification: what is asked, what is told, what each attempt's row says, what the wire has |
| `WritePathProofs` | theorems about `WritePath`, checked by TLAPS |
| `IssuedTemplate` | the states of an operation row and its legal moves |
| `FormOperations` | issuing, importing, operation rows, the files in the member's hands, the cell's scale; extends `IssuedTemplate` |
| `FormOperationsProofs` | theorems about `FormOperations`, checked by TLAPS |
| `OperationLedger` | what issuing and importing promise together, as an abstract specification |
| `MCFormOperations` | instances of `FormOperations` |
| `WorkerSupervisor` | the supervisor, its requests, and processes that live and die on their own |
| `SupervisorProofs` | theorems about `WorkerSupervisor`, checked by TLAPS |
| `Desktop` | the window, main's dialogs and timeouts, the member key on its way to every worker, the worker's dispatch of requests |
| `DesktopProofs` | theorems about `Desktop`, checked by TLAPS |
| `Intents` | from a form's record and returned file to intent, calls, identity and description; threshold calls mined one by one; extends nothing of the others |
| `IntentsProofs` | theorems about `Intents`, checked by TLAPS |
| `ContractErrors` | what the client makes of a failed call: published and unpublished errors, dispositions |
| `Matricies` | the contract's two matrices, and the client's foretelling of an application; extends `ContractErrors` |
| `ZaryaVotings` | the contract: votings, ballots, members, thresholds, execution; extends `Matricies` |
| `ZaryaProofs` | theorems about `ZaryaVotings`, checked by TLAPS |
| `VotePreflight` | the client's verdicts, read answer by answer beside the moving contract; extends `ZaryaVotings` |
| `PreflightProofs` | theorems about `VotePreflight`, on top of `ZaryaProofs`, checked by TLAPS |
| `MatrixIndex` | logs, the fold of them, discovery plans and records; extends `Matricies` |
| `MatrixReport` | a chain of blocks with reorganisations and a report made beside it; extends `MatrixIndex` |
| `MatrixProofs` | theorems about `MatrixReport`, with the lemmas about the fold, the chain, the windows and the warnings they rest on, checked by TLAPS |
| `MCDesktop`, `MCIntents`, `MCZaryaVotings`, `MCVotePreflight`, `MCMatrixReport` | instances |

The modules meet where the code does. `Desktop` leaves to the worker what `FormOperations` and
`WritePath` say of it: of the write path it keeps the in-flight guard, the row and what is answered
after it, in two steps between which other requests may come. `Intents`
refines what `FormOperations` calls an identity and what `WritePath` calls the calls of an
operation. `VotePreflight` and `MatrixReport` run the client beside the contract of `ZaryaVotings`
and `Matricies`.

### WritePath

`reqs[r]` is one press of Send with its local variables (`pc`, which call it is at, the nonce the
signer read). `rows[<<r, i>>]` is the `transactions` row of its i-th call; `txs` is what became of
the transaction outside; `thread` names the handler that holds the event loop; `sweeps[s]` is a
run of `reconcileTransactions` with the rows it copied out.

One action is what the code does from one wait, or one commit, to the next: `PassGuard` (the
in-flight guard and the decision whether encoding waits), `Open` and `MarkSigning` (two commits,
loop held), `NonceAnswers`, `Post`, `HashAnswers` and `RecordHash` (two commits, loop held; then
straight on to the next call because its organ is resolved), `SubmitThrows` and `HashRejected`
for the error paths. The provider may take, refuse, lose, evict or replace a transaction
(`Accept`, `Refuse`, `Evict`), the chain mines in nonce order (`Mine`). `Crash` keeps table,
mempool and chain and loses handlers and the organ cache.

Abstracted: what derives an intent from the stored form (success or refusal); calldata; receipt
fields but the outcome; the several reads of one receipt (one wait); the order in which a sweep
takes the rows it copied (arbitrary, where the code goes by creation time). Main's timeout of
180 s on a send is not here because it changes nothing in the worker: the handler goes on.
`SweepsBesideHandlers` says whether the caller may run a sweep beside live handlers, as its
documentation allows, or only when none is under way.

### FormOperations

`ops` is the `operations` table, `issues` and `imports` the handlers (an issue handler is named by
the reference it makes, which is random and unique), `files` the operations whose file was written
out whole, `deployment` the contract the application is configured for, `scale` the decimals of a
cell on chain. A returned form is the operation it quotes and what the member wrote (`fill`). Each
stretch between waits commits at most one change, so one action is one stretch. The scale's answer
travels: `ChainReads` takes it, `RecordReturn` or a refusal uses it later.

Abstracted: field syntax (a form may be refused as incomplete or invalid at any time); a voting
value and its scale are represented by the quantity written and the scale, which determine each
other; the picture of the document. A file once written stays in the member's hands (it may be
copied and mailed). `SUPERSEDED` is in the table of moves and no code moves a row there.

### WorkerSupervisor

`procs` is what the system knows of each process (launching, running, dead, reaped, whether its
`spawn` event is on the way); all other variables are the supervisor's fields. Every method, event
handler and timer callback of the class is one action. `inbox` holds the messages a process has
not answered; a reply may come at any time, after its timeout too. Left out: health listeners, the start hook, malformed messages (discarded without
a change of state).

### Desktop

`panel` is the window (what Send names, whether it may be pressed, whose fields are shown, the
buttons that wait), `calls[s]` a call from the button to the worker and back: its stage in main
(dialog, asked, over) and what the worker has made of it. A timeout in main ends the call for the
window while the job goes on; a reload leaves the call without a page; a worker that dies fails
every call it was asked. The worker passes the in-flight guard (`PassesGuard`), waits for an encoding,
then opens its row and asks the provider (`Posts`), whose answer may call a transaction that left
refused: `SUBMISSION_FAILED` is a refusal, and a refusal arms Send again. `posts` counts transactions
per operation, `inFlight` holds the operations with an unresolved row; it never shrinks, because
nothing in the application runs a sweep (`main.ts:119`). So `PostedOnce` rests on two things: the
window never has two requests for one operation past the guard, and the row stops the request that
comes after it. Neither is enough alone: TLC posts an operation twice without the guard, and twice if
a failure armed Send too. Once a sweep is wired, what `NeverSent` shows (a row failed while its
transaction waits) would let the re-armed Send post again. The wallet is
`held` by main, `generated` while it is being stored, `file` on disk, `workerKey` in the worker;
`OtherInstanceCreates` is a second application.

Abstracted: what the dialogs show; encryption (the vault is there or not); status and health
pushes, which decide nothing in the window; the field-by-field check of messages, of which only
"a reply answers its own kind of request" (`WorkerReplies`) is kept.

### Intents

`FIELD_PLAN`, the readers, `BuildIntent`, `ThresholdCalls`, `CallsForIntent`, `CanonicalIdentity`,
`DescribeIntent` and `AssembleFormInput` are the functions of those names. A text is a decimal
(whole part and digits) or a word, and may be spelled a second way; a reader answers the set of
what it read, empty for a refusal. Widths are constants, small enough to be overrun. `forms[f]`
goes from issued over imported to sent; the setters of a configuration wait in `queue` and are
mined one by one, or revert from some setter on because the wallet is no longer the chairman's
(`Reverts`; that the chairmanship comes back before the queue is empty is left out); `settings` are the contract's thresholds of each organ. The digest of an identity
is the tuple it is made of; the limits of free text are one refusal.

### ZaryaVotings, VotePreflight

`ChainNext` has one action per call of the contract that goes through; `CreationError`, `CastError`
and `ExecutionError` say what the others revert with, guard by guard in the contract's order.
`VotePreflight` adds one question of the client at a time: its reads are issued together and
answered in any order, each at the moment the chain then shows (`Answered`), with the chain moving
in between (`ChainMoves`, remembered in `moved`). That a read failed is decided where the verdict
is judged: the properties range over every set of lost reads and every answer of a simulation.

### MatrixIndex, MatrixReport

`blocks` is a chain whose blocks carry logs and the storage after them; `building` is the block being
put together transaction by transaction (`Execute`: a voting is created, or one of an earlier block
ends, approved or rejected) until `Mine` appends it; `Reorganise` takes back the highest block, never a
final one. A report pins a block, folds windows up to it (`Scan`), reads cells, values and labels at the
pin and composes rows; `lost` is the set of reads that failed. What may be suggested (`IsSuggestion`) has
no blank field, which is what the forms let through. Layout and category names are left out.

## Runs

| Run | Question | Instance |
|---|---|---|
| `TwoPresses` | do rows tell the truth about transactions under crashes, lost answers, sweeps and a second press; have two presses rows in flight at once only when one had an organ to resolve; does only a sweep release a row in flight? | 2 presses, 2 kinds of operation, 1 sweep beside them |
| `SeveralCalls` | does the write path implement `WriteLedger`; does a reply tell how far a configuration got; are its calls mined in order; is every press answered? (fairness) | 1 press, 2 calls, 1 sweep beside them |
| `FormsReturned` | is an operation imported once, as it was, on its own deployment; do the handlers implement the ledger? | 2 operations, 3 imports, 2 deployments, 2 scales |
| `Supervision` | one worker, no orphan, no wrong reply, no silence; does every request end? (fairness) | 3 forks, 3 requests, 1 restart allowed |
| `Votings` | do votes add up, do cells come from votings alone, is what the client calls terminal terminal, does a voting keep what it was created with? | 3 votings, 1 wallet, 2 organs, 1 cell of each matrix |
| `Preflight` | are verdicts exact when the chain stood still, and stale in no other way than by membership; is readiness never early; is the table of rules the contract's? | 1 voting, 2 wallets, answers at 2 moments |
| `Matrix` | is the projected index the contract's storage, does every report keep every coordinate and tell an outage from emptiness, is every voting discovered once, is a revert foretold? | 1 coordinate of both matrices, 6 blocks, windows of 2, 1 confirmation |
| `Desktop` | is an operation posted once and never unasked, whatever times out, reloads or dies; is the stored wallet the one that signs? | 2 operations, 2 wallets, 2 calls at a time |
| `Intents` | do calls say what was written, has a proposal one form however spelled, are the settings a voting copies whole? | 2 forms of eleven types, 3 organs, 3 scales |

Three more runs each show a disagreement of the code with its own text (`findings` in
`PROJECT.json` quote both):

| Run | What TLC shows |
|---|---|
| `NeverSent` | A row without a nonce is called provably never sent while its transaction waits in the mempool: the nonce is recorded only with the hash, so an answer that was lost leaves none. |
| `OrganRace` | Two presses pass the in-flight guard while both wait for an organ to resolve, and both write. `OneWriterWithoutOrgans` says, and is proved to say, that two presses have rows in flight at once in no other way. (A sweep that fails the row a live handler is still signing for also lets a second press write, but that row is no longer in flight; see below.) |
| `RecordsBind` | A form issued for any organ but a local one is refused when it comes back, unedited, for a value the application itself did not record: issuing keeps the keys the organ's scope uses, assembly wants all three. |

Other disagreements met while modelling, which no run here states:

* `reconcileTransactions.ts:91`: `blocked` is true after a sweep that only found NEVER_SENT rows,
  although nothing is left in flight (`:65` says it is true while anything remains in flight).
* `reconcileTransactions.ts:117`: a sweep run on demand beside a live handler fails the row the
  handler is signing for, and the handler's `advance(BROADCAST)` then throws and drops the hash of a
  posted transaction (`:9` calls it safe on demand). A second press then passes the guard while the
  first still writes.
* `submitOperation.ts:70`: SUBMISSION_FAILED is documented as "Nothing reached the chain", and `:166-170`
  returns it where the provider may have accepted the transaction. `RefusalSentNothing` speaks of the
  refusals before the signer is asked and leaves this one out.
* `renderer.ts:454` calls a failure "the ambiguous one" and leaves Send disarmed for it; a
  SUBMISSION_FAILED refusal is as ambiguous, and `:452` arms Send again. What keeps that from being a
  second transaction is the row left in flight alone.
* `boundOperation.ts:73`: a crash between the written file and the EMITTED mark leaves the member a
  form refused as one for which no file was ever issued.
* `operationIdentity.ts:113`: the identity of a numerical value holds the scale read at import, so
  one quantity for one cell is imported twice across a change of decimals.
* `workerSupervisor.ts:138`: a launch resets the attempts, so a worker that dies after each launch
  is restarted past the limit.
* `matrixIndex.ts:243`: a coordinate bound as a category is not looked at as a number again, so a
  numerical cell there that has values and no approved decimals has no row
  (`matrixReport.ts:329` says both rows appear).
* `matrixReport.ts:468`: a value whose cell did not read is printed at scale 0; the row is marked.
* `applicationPreflight.ts:28`: a reverting application is said to revert identically for ever;
  a later voting may set the theme or the category that was missing.
* `renderer.ts`: an import pressed while a submission waits clears the fields shown; a late refusal
  arms Send for the earlier operation, whose fields are gone. The dialog names it again.

**Bounds.** Two presses are every interaction of a press with one other (three presses and a
sweep were explored to ten million states without a violation; that is too long for a run). Two
calls are the least number with an earlier and a later one; the third setter of a configuration
meets nothing the second does not. One sweep at a time is enough because a sweep interferes through
rows only, as handlers do. `MaxNonce` is the number of calls of the instance, so it never cuts a
behaviour off. Two operations and three imports give two copies of one form and a rival beside
them. Three forks let a predecessor, a tracked worker and a successor exist. `AttemptBound` caps
starts that throw after the limit; `MaxForks` caps processes. Three votings on one cell are a
binding, a rival for it, and a statement that needs the first one's theme; `MaxTime` 1 with windows
of no length puts every call on the boundary. In `Preflight` a window of one second and time up to 2
give a moment before, at and after the end. In `Matrix`, `MaxBlocks` 5 leaves two blocks at least
above the two of the past for endings and one to be reorganised away, `MaxTransactions` 2 lets two
votings meet in one block, in either order (`MaxBusy` is the last block that is not empty), and windows
of 2 end both on and before the head; every subset of the cell reads may fail and, together, all the others
(`Losses`). In `Desktop`, two slots are a call that answers late beside another; a count of `posts`
stops at 2, which already violates. In `Intents`, the widths (`MaxU64` 255 and the like) are below
what the texts can say, so each is overrun; the organs are a local soviet, a local assembly of
another region and a regional soviet, whose forms cannot come back (`RecordsBind`). `Intents` and
`Supervision` stop by themselves: all forms sent and mined, the application quit. Symmetry is used
only in runs without liveness.

**Fairness.** `LiveSpec` of the write path: handlers are strongly fair, because the event loop
takes settled waits in turn and every provider request has a timeout; a sweep that holds the loop
lets it go (it is synchronous code); the worker eventually stops crashing. No sweep has to run,
because nothing in the application runs one: that a mined PENDING row is ever confirmed is therefore
not claimed (`main.ts:119` is a hazard without a property). Nothing is assumed of the provider:
it need not answer, accept or mine. `LiveSpec` of the supervisor: a request's timer fires. The
other specifications state safety only: nothing in the window or on the chain has to happen.

## What is proved

`WritePathProofs` proves, for every number of presses, operations, calls, organs and sweeps:

* `TypeCorrect`: `TypeOK`;
* `PostedRecorded`, `HashedAccepted`, `ConfirmedMined`, `RefusedSentNothing`: the four safety
  invariants of `TwoPresses`;
* `SweepsRelease`: only a sweep takes a row out of flight (`OnlySweepsRelease`), so a row left by a lost
  answer holds back every later press until one runs;
* `PendingConfirms`: only a confirmation moves a PENDING row (`PendingOnlyConfirms`; no run repeats it,
  the refinement that `SeveralCalls` checks has `Confirm` as the only way out of a trusted attempt);
* `Implements`: the specification implements `WriteLedger` under the mapping `Ledger`
  (`ImplementsWriteLedger`);
* `RepliesTell`: `RepliesTellHowFar`;
* `CallsOrdered`: `CallsMinedInOrder`;
* `OneWriterHolds`: of two presses with rows in flight one had an organ to wait for
  (`OneWriterWithoutOrgans`). The plain "one active write per signer" is false, as `OrganRace`
  shows, so this is as much as the guard gives.

All rest on `ConstantsAssumption`. The argument: the invariants are not inductive, because what a
row may say depends on where its handler is. `IInv` adds `Named` (a handler under way has an
operation), `LoopHeld` (who holds the loop is between two waits), `Fresh` (attempts no handler has
reached have neither row nor transaction), `Progress` (what a handler at each wait knows of its
current attempt) and `CopiedRows` (rows a sweep copied were opened). One lemma per kind of step
keeps each part; the theorems combine them. `OneWriterHolds` adds `Sole`: beside a
handler without an organ that is between the guard and its row being SIGNING no other such press
has a row in flight. `RepliesTell` adds `Told`: the calls before the current one of a press have a
recorded hash, all of its calls once the reply says so. `CallsOrdered` needs the most (`OrderInv`):
a handler posts under the nonce it read (`Nonced`), the mempool holds one transaction under a nonce and
none that is spent (`OnePerNonce`), unless something was dropped every nonce below a read one is spent or
waits (`NoGap`, for a gap would be filled later by a transaction mined before its turn), and a call is
posted under a nonce after those of the calls before it (`InOrder`).

`Implements` reads each row as the book's word on its call (`Booked`: SIGNING and BROADCAST are noted,
PENDING is sent, CONFIRMED is its outcome, a failed row is given up) and each transaction's status as
the wire. Step by step: `Press` is the ledger's `Ask`, a refused press `Refuse`, a row that turns SIGNING
`Note`, the posting `Post`, the recorded hash `Trust` (with the answer, after the last call), a throw
`Fail`, a crash `Die`, what a sweep writes `GiveUp` or `Confirm`, and what the provider and the chain do
`Take` and `End`; reads and waits are hidden from it. Beside the invariants above it needs `Knows`: a
handler names its operation and never counts past its calls, and until the hash is there only a sweep
moves the row of its call. The ledger promises in one specification what the invariants say apart: no
call goes out before it is noted, none is noted before the earlier ones are trusted, trust never comes
before the wire has the transaction and is never taken back, and the answer says how far the calls got.

`FormOperationsProofs` proves, for every set of operations, subjects, fills, imports, deployments
and scales:

* `TypeCorrect`: `TypeOK`;
* `OneImport`, `ImportedStored`, `FilesAgree`: the three safety invariants of `FormsReturned`;
* `ReturnedStays`: no step rewrites a returned row;
* `Implements`: the specification implements `OperationLedger` under the mapping `Ledger`.

They rest on `ConstantsAssumption` and `NoneIsNoKey` (no identity is mistaken for the absence of
one). `OneImportPerIdentity` is not inductive: an import judges its row, may wait for the chain, and
commits against whatever the table holds by then. `IInv` therefore adds `RowsWellFormed` (only a
returned row has an identity, and it is made of the row), `IssuesKnow` (an issue handler owns its
row until it replies), `ImportsKnow` (a waiting import's row was emitted on this deployment and
can only have been returned since) and `KeysDiffer` (no two returned rows share an identity,
whatever their deployments). The refinement follows from `IInv` row by row: recording changes
nothing the ledger sees, `Emit` is its `HandOver`, `RecordReturn` its `Import`.

`SupervisorProofs` proves, for every number of processes, callers and restarts allowed:

* `TypeCorrect`: `TypeOK`;
* `OneWorker` and `StoppedStays`: `OneWorkerLives`, `StoppedForGood`;
* `MissingShows`: `MissingWorkerShows`;
* `RepliesMatchHolds`: `RepliesMatch`.

They rest on `ConstantsAssumption`. `OneWorkerLives` is not inductive, because a killed process lives
on while a late event of it may still start a successor: `IInv` adds `Tracked` (who lives is the
tracked worker or killed, and alone) and `Processes` (only a shutdown kills). Replies match because
`IdsUnique`: no id is given twice, so an answer left over from a timeout finds no later request.

`DesktopProofs` proves, for every set of operations, wallets and slots:

* `SignsWithStoredKeyHolds`: `SignsWithStoredKey`;
* `PostedOnceHolds` and `PostedIsConfirmedHolds`: the two promises of Send;
* `TypeCorrect`: `TypeOK`, which no run repeats: beside the values of the variables it says that a
  button waits exactly while one call of its own page is under way.

They rest on `DesktopAssumption`. A worker's key comes from main's, so `KeyInv` says of both that
they are the stored one when they are there. The right to have an operation sent is a token:
`HeldOnce` says that its row (until the import), a call that reports the import, the panel that
offers Send, or a call that carries the request, up to its row or to its refusal, holds it, and
never two of them; a failure, a timeout and a reload lose it, none doubles it. A refusal gives it back though the
transaction may be out, so the token alone does not do: `Recorded` says that what was posted was
posted once and has its row in flight, and that no request past the guard is for an operation that has one.
`Consented` says what waits to be posted was confirmed after Send was pressed last. `Buttons` adds that a call of the page's own is with a dialog
or with main, so a request that nobody waits for any more takes no button with it when it ends or its
worker dies.

`ZaryaProofs` proves, for every set of organs, wallets, suggestions and cells and any number of
votings:

* `ChainTypeCorrect`: `ChainTypeOK`;
* `VotesAddUpHolds`: `VotesAddUp`;
* `VotingsSettleHolds`: `VotingsSettle`;
* `TerminalIsForeverHolds`: `TerminalIsForever`;
* `CellsComeHolds`: `CellsComeFromVotings`.

They rest on `ChainAssumption`. `IInv` adds `Windows` (a voting starts no later than now, a finalized
one is past its end). A revert the client calls terminal has one of two reasons (`NeverExecutes`):
too few ballots after the window, which stay as they are, or a cell bound to another organ, and
`BindingsStep` shows that a binding never changes. That cells come from votings alone needs the
writers of a cell in the invariant: `CellsInv` says of every cell that its organ is its writers' and
its categories are theirs, where a writer is an approved voting on that cell.

`PreflightProofs` proves, for every set of askers beside every chain of `ZaryaVotings`:

* `ReadinessTold` and `CreationMirroredHolds`: `ReadinessHolds`, `CreationMirrored`;
* `OnlyMembershipStale`: `OnlyMembershipGoesStale`;
* `ExactWhenStillHolds`: `ExactWhenStill`.

They rest on `ChainAssumption` and `AskersAssumption`, and on `ZaryaProofs`, because the asking leaves
the chain alone. A question gathers its answers one by one while the chain moves, so the invariant is
about each of them: `AnswersSound` says what an answer that was true when it was given still says of
the chain now (a voting that exists goes on existing, a window that closed stays closed, a ballot
cast stays cast), `Still` that while nothing moved every answer is the chain's own.

`IntentsProofs` proves, for every set of forms, organs, regions, texts and scales, and all widths:

* `SnapshotsWhole`: `SnapshotsAreWhole`;
* `OneForm`: `OneFormPerProposal`;
* `FormsMean`: `FormsMeanWhatTheySay`;
* `FixedPointIsExact`: at every scale, what `parseFixedPoint` reads of a text `formatFixedPoint` writes
  back digit by digit, padded to the scale, and what it writes of any stored value is read back as
  that value.

They rest on `IntentsAssumption` (no two regions share a subject code, organs are the normalised ones the
client makes, the widest integer is a natural number) and on `TextsAssumption` (every field can be filled
in, and what is filled in is a word or a decimal of any length). `SnapshotsAreWhole` is not inductive,
since a voting may be created between any two calls: `SettingsInv` adds `Underway` (the queue holds the
rest of one sent configuration, or no setter, as after a revert; k of its calls are mined, and what they set is in place
while the base is not) and `Built` (a form's intent is what its fields build, so sending it again sends
the same calls). `OneForm` rests on lemmas about the operators: readers answer one value at most
(`ReadsOne`), an identifier names one organ (`IdentifierNames`), and the calls of two intents ask for the
same exactly when their canonical identities are equal (`ProposalIsIdentity`), which `Distinct` and
`Refusals` keep. `FormsMean` needs `MeaningInv`: what a template shows is what its record binds
(`Bound`), and an imported form came back with every field of its plan and no other (`Returned`); the
rest is about one form's calls, type by type. Reading and writing a decimal are recursive functions over
its digits: `DigitsRead` and `DigitsCut` unfold them, and `WrittenBack`, by `SetInduction`, cuts off
again the digits that were read. The proof also found that arms of the CASEs in the statement of the
property overlapped, where TLA+ leaves open which one is meant; they are disjoint now.

`MatrixProofs` proves, for every set of coordinates and suggestions, every number of blocks, of
transactions in one, of confirmations and of blocks per scan, and every set of failed reads:

* `IndexIsStorageHolds`: `IndexIsStorage`;
* `CoordinatesSurviveHolds` and `OutageIsNotEmptyHolds`: `CoordinatesSurvive`, `OutageIsNotEmpty`;
* `EveryVotingIsDiscoveredHolds`: `EveryVotingIsDiscovered`;
* `WarningsForetellHolds`: `WarningsForetell`.

They rest on `ReportAssumption`. The index and the storage never look at each other, so the invariant
relates both to the logs. `ChainInv` says that each block, and the one being built, `Follows` the
records up to it: a cell has categories exactly when a `CategoryAdded` names it, a label is the text of
the last approved proposal for it, a voting is open or ended as its creation, detail and finalization
are there, in that order. `ReportInv` says that while a report projects, its pin is final
and its index `Declares` the events up to its cursor, and that a report already told is the one that
index gives. One lemma per transaction and per kind of event keeps each (`CreatedFollows`,
`EndedFollows`, `FoldStep`). Two texts that are the last word of the same events are one
(`SameText`), and `Stored` is where the two meet; the theorems on rows and on an outage then are about
`Targets` and `Attempted` alone.

The fold of a window, the windows of a plan and the warnings are computed by recursion or
concatenation. The installed provers cannot use an induction theorem that takes a predicate, so
`MatrixProofs` proves induction for sets first (`SetInduction`, `FiniteInduction`): that the recursive
function of `FoldWindow` exists and folds in the order of positions (`FoldWindowIs`), that a fold over
later events declares them too (`WindowFolded`), and that the plan's windows share out the confirmed
blocks (`WindowsCover`, which needs the bound on the chain, `Bounded`).

Every safety invariant and action property that a passing run checks is a theorem, and so are both
refinements of an abstract specification. Only model-checked is liveness (`EveryPressEnds`,
`EveryRequestSettles`), which the prover does not do.

## Not modelled

* **Document layout, parsing and rendering** (`issueTemplate.ts`, `pdfFormParser.ts`,
  `pdfHazards.ts`, `composeMatrixReport.ts`): text and bytes; what is read from a document enters
  `Intents` as fields, and a refusal of a document as a refusal.
* **Message validation** in `ipcContract.ts`, `workerProtocol.ts` and `preloadApi.ts`, field by field.
* **Receipt stamping**: nothing in the application calls it, so nothing decides what happens
  around it.
* **Network guard and status**: one verdict read on demand, on which only the display depends.
* **Configuration, logging, opening of the database**: read or done once at start; a restart under
  another configuration is an action of `FormOperations`.
* **The stored discovery cursor** (`sqliteCursorStore.ts`): no caller; the plan it would feed is in
  `MatrixIndex`.
* A second deployment in the write path, and a second running application on the same database
  (nothing prevents one): listed as hazards; the wallet half of the second is in `Desktop`.
* In `Preflight`, who may create a voting: `CreationMirrored` compares `authorization.ts` with the contract. Its
  second copy, `domain/intents/intentAuthorization.ts:48-92`, has the same table today and is not mapped,
  and `CannotRemoveChairman` is left out of the comparison.
* `__ai/`, build scripts and tests.

## What could come next

* The write path with two applications on one database: two event loops, each of which sees the other's
  rows only when it reads them.
* Larger matrices, and reports at two pins one after the other.
