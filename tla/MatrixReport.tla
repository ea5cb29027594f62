---------------------------- MODULE MatrixReport ----------------------------
(* The coordinate reference (app/generateMatrixReport.ts, domain/matrix/      *)
(* matrixReport.ts): a block is pinned, the index projected up to it in       *)
(* windows, its cells read at the pin, and rows written, while the chain goes *)
(* on and may lose blocks above the confirmed ones. The chain is the          *)
(* contract's as far as logs tell it: votings are created and end.            *)
EXTENDS MatrixIndex

CONSTANTS
  Suggestions,       \* bound: each is proposed at most once
  Asked,             \* proposals a member asks about
  Past,              \* bound: the transactions of the first blocks
  MaxTransactions,   \* bound: of one block after them
  MaxBlocks,         \* bound: the highest block
  MaxBusy,           \* bound: the highest block that is not empty
  Confirmations,     \* no reorganisation is deeper than these
  MaxBlocksPerScan

VARIABLES
  blocks,     \* the chain; block 0 is blocks[1]
  building,   \* the block being put together on it
  highest,    \* the highest block there ever was
  phase,      \* of the report: "idle", "projecting", "done"
  pin,        \* the block every read is made at
  cursor,     \* of the projection
  index,      \* what was folded so far
  lost,       \* the reads at the pin that did not answer
  outcome     \* of the last report

chain == <<blocks, building, highest>>
vars == <<blocks, building, highest, phase, pin, cursor, index, lost, outcome>>

ASSUME ReportAssumption ==
  /\ MaxTransactions \in Nat /\ MaxBlocks \in Nat /\ MaxBusy \in Nat /\ Confirmations \in Nat
  /\ MaxBlocksPerScan \in Nat \ {0}
  /\ \A s \in Suggestions \cup Asked : IsSuggestion(s)

DeploymentBlock == 1

Genesis == [transactions |-> << >>, logs |-> << >>, matricies |-> EmptyMatricies, open |-> {}, ended |-> {}]

HeadBlock == Len(blocks) - 1
Block(n) == blocks[n + 1]
Final == IF highest >= Confirmations THEN highest - Confirmations ELSE 0

NoOutcome == [kind |-> "NONE"]
Failure == [kind |-> "FAILED"]

-----------------------------------------------------------------------------
(* The chain.                                                                 *)
Transactions == [voting : Suggestions, does : {"create", "approve", "reject"}]

Following(block) == [block EXCEPT !.transactions = << >>, !.logs = << >>]

Init ==
  /\ blocks = << Genesis >> /\ building = Following(Genesis) /\ highest = 0
  /\ phase = "idle" /\ pin = 0 /\ cursor = NoCursor /\ index = EmptyIndex
  /\ lost = {} /\ outcome = NoOutcome

(* Voting s is created.                                                       *)
Created(block, s) == [block EXCEPT !.logs = @ \o CreationLogs(s), !.open = @ \cup {s}]

(* Voting s ends: approved and applied, or rejected. One whose application    *)
(* reverts does not end, nor one created in this block.                       *)
Ended(block, s, success, now) ==
  [block EXCEPT !.logs = @ \o FinalizationLogs(s, success),
                !.matricies = IF success THEN Applied(@, s, now) ELSE @,
                !.open = @ \ {s},
                !.ended = @ \cup {s}]

CanEnd(block, s, success) ==
  /\ s \in block.open \cap Block(HeadBlock).open
  /\ success => ApplyError(block.matricies, s) = NoError

(* A transaction is added to the block (bounds: of the past's blocks each is  *)
(* given, and of the blocks after them votings end before others are created). *)
Execute(tx) ==
  LET s == tx.voting
      done == building.transactions
  IN /\ HeadBlock < Len(Past) => Len(done) < Len(Past[HeadBlock + 1]) /\ tx = Past[HeadBlock + 1][Len(done) + 1]
     /\ HeadBlock >= Len(Past) =>
          /\ HeadBlock < MaxBusy /\ Len(done) < MaxTransactions
          /\ tx.does # "create" => \A i \in DOMAIN done : done[i].does # "create"
     /\ LET with == [building EXCEPT !.transactions = Append(@, tx)]
        IN IF tx.does = "create"
           THEN s \notin building.open \cup building.ended /\ building' = Created(with, s)
           ELSE LET success == tx.does = "approve"
                IN CanEnd(building, s, success) /\ building' = Ended(with, s, success, HeadBlock + 1)
     /\ UNCHANGED <<blocks, highest, phase, pin, cursor, index, lost, outcome>>

Mine ==
  /\ HeadBlock < MaxBlocks
  /\ HeadBlock < Len(Past) => building.transactions = Past[HeadBlock + 1]
  /\ blocks' = Append(blocks, building)
  /\ building' = Following(building)
  /\ highest' = IF HeadBlock + 1 > highest THEN HeadBlock + 1 ELSE highest
  /\ UNCHANGED <<phase, pin, cursor, index, lost, outcome>>

(* A reorganisation takes the highest block, never a final one (bound: nor    *)
(* one of the past).                                                          *)
Reorganise ==
  /\ HeadBlock > Final /\ HeadBlock > Len(Past)
  /\ blocks' = SubSeq(blocks, 1, HeadBlock)
  /\ building' = Following(Block(HeadBlock - 1))
  /\ UNCHANGED <<highest, phase, pin, cursor, index, lost, outcome>>

-----------------------------------------------------------------------------
(* The reads of a report, and which of them fail.                             *)
CellRead(k, at) == <<"CELL", k, at>>
ValueRead(k, at) == <<"VALUE", k, at>>
ThemeRead(k, x) == <<"THEME", k, x>>
StatementRead(k, y) == <<"STATEMENT", k, y>>

CellReads == {CellRead(k, at) : k \in Kinds, at \in Xs \X Ys}
ValueReads == {ValueRead(k, at) : k \in Kinds, at \in Xs \X Ys}
LabelReadings == {ThemeRead(k, x) : k \in Kinds, x \in Xs}
                 \cup {StatementRead(k, y) : k \in Kinds, y \in Ys}

(* Bound: every set of cells may fail to read, and all the other reads.       *)
Losses == {cells \cup others : cells \in SUBSET CellReads, others \in {{}, ValueReads \cup LabelReadings}}

(* What is on the chain at the pin.                                           *)
Pinned == Block(pin).matricies
BoundAt(k, at) == Pinned.organs[<<k, at[1], at[2]>>] # NoOrgan

-----------------------------------------------------------------------------
(* Rows.                                                                      *)
(* Mutant of the next: a coordinate whose cells did not both read is dropped. *)
AttributeDropping(at, missing) ==
  IF {CellRead(k, at) : k \in Kinds} \cap missing # {} THEN {} ELSE {k \in Kinds : BoundAt(k, at)}

(* The matrices a value at a coordinate may be in: both readings decide, and  *)
(* without both, or with neither bound, it is shown under both.               *)
Attribute(at, missing) ==
  IF {CellRead(k, at) : k \in Kinds} \cap missing # {} \/ ~\E k \in Kinds : BoundAt(k, at)
  THEN Kinds ELSE {k \in Kinds : BoundAt(k, at)}

Targets(missing) ==
  ({"CATEGORICAL"} \X index.categorical) \cup ({"NUMERICAL"} \X index.numerical)
  \cup UNION {Attribute(at, missing) \X {at} : at \in index.unattributed}

(* A numerical value is scaled by the cell's decimals, a cell that was not    *)
(* read by none.                                                              *)
ValueDisplay(k, at, missing) ==
  LET sample == Pinned.samples[<<k, at[1], at[2]>>]
  IN IF ValueRead(k, at) \in missing THEN [kind |-> "UNREAD"]
     ELSE IF sample = << >> THEN [kind |-> "NONE"]
     ELSE [kind |-> "SET", raw |-> sample[Len(sample)].value,
           scale |-> IF k = "CATEGORICAL" \/ CellRead(k, at) \in missing THEN 0
                     ELSE Pinned.decimals[at]]

RowReads(k, at) ==
  {CellRead(k, at), ThemeRead(k, at[1]), StatementRead(k, at[2]), ValueRead(k, at)}

Row(k, at, missing) ==
  [matrix |-> k, at |-> at,
   organ  |-> IF CellRead(k, at) \in missing THEN "UNREAD" ELSE Pinned.organs[<<k, at[1], at[2]>>],
   value  |-> ValueDisplay(k, at, missing),
   unread |-> {r[1] : r \in RowReads(k, at) \cap missing}]

(* Labels of the index beside what the chain says of them.                    *)
Confirmation(text, onChain, read, missing) ==
  CASE read \in missing -> "UNREAD"
    [] read \notin missing /\ onChain = NoText -> "ABSENT_ON_CHAIN"
    [] read \notin missing /\ onChain # NoText ->
         IF onChain = text THEN "MATCHES" ELSE "DIFFERS"

Themes == {e \in Kinds \X Xs : index.themes[e] # NoEntry}
Statements == {e \in Kinds \X Ys : index.statements[e] # NoEntry}

Axes(missing) ==
  {<<"THEME", e[1], e[2], Confirmation(index.themes[e].text, Pinned.themes[e], ThemeRead(e[1], e[2]), missing)>> : e \in Themes}
  \cup {<<"STATEMENT", e[1], e[2],
          Confirmation(index.statements[e].text, Pinned.statements[e], StatementRead(e[1], e[2]), missing)>> : e \in Statements}

(* Every read made: of the rows, of both cells of a coordinate to attribute,  *)
(* and of each label.                                                         *)
Attempted(missing) ==
  (UNION {RowReads(t[1], t[2]) : t \in Targets(missing)})
  \cup {CellRead(k, at) : k \in Kinds, at \in index.unattributed}
  \cup {ThemeRead(e[1], e[2]) : e \in Themes} \cup {StatementRead(e[1], e[2]) : e \in Statements}

(* Mutant of the next: rows nobody could read are printed all the same.       *)
NothingReadableNever(missing) == FALSE

(* An outage, which must not print like an empty matrix.                      *)
NothingReadable(missing) == Targets(missing) # {} /\ Attempted(missing) \subseteq missing

Assembled(missing) ==
  IF NothingReadable(missing) THEN [kind |-> "REFUSED", code |-> "NOTHING_READABLE"]
  ELSE [kind |-> "WRITTEN", rows |-> {Row(t[1], t[2], missing) : t \in Targets(missing)}, axes |-> Axes(missing),
        empty |-> Targets(missing) = {} /\ Axes(missing) = {}]

-----------------------------------------------------------------------------
(* The report.                                                                *)
Refused(code) == phase' = "done" /\ outcome' = [kind |-> "REFUSED", code |-> code]

Pin ==
  /\ phase = "idle"
  /\ pin' = IF HeadBlock >= Confirmations THEN HeadBlock - Confirmations ELSE 0
  /\ phase' = "projecting"
  /\ UNCHANGED <<cursor, index, lost, outcome, chain>>

PinFails ==
  /\ phase = "idle"
  /\ Refused("NO_PINNED_BLOCK")
  /\ UNCHANGED <<pin, cursor, index, lost, chain>>

(* The plan over the pinned block, which is confirmed already.                *)
Plan == PlanDiscovery(cursor, pin, DeploymentBlock, 0, MaxBlocksPerScan)

LogsIn(from, to) ==
  UNION {{[position |-> <<n, i>>, log |-> Block(n).logs[i]] : i \in DOMAIN Block(n).logs} : n \in from..to}

EventsIn(from, to) == {e \in LogsIn(from, to) : IsIndexEvent(e.log)}

Scan ==
  /\ phase = "projecting" /\ Plan.kind = "SCAN"
  /\ index' = FoldWindow(index, EventsIn(Plan.from, Plan.to))
  /\ cursor' = Plan.to
  /\ UNCHANGED <<phase, pin, lost, outcome, chain>>

(* A scan that throws fails the report: no partial index is ever printed.     *)
ScanFails ==
  /\ phase = "projecting" /\ Plan.kind = "SCAN"
  /\ phase' = "done" /\ outcome' = Failure
  /\ UNCHANGED <<pin, cursor, index, lost, chain>>

Projected ==
  /\ phase = "projecting" /\ Plan.kind # "SCAN"
  /\ lost' \in Losses
  /\ IF Plan.kind = "CURSOR_AHEAD" THEN Refused("CHAIN_INCONSISTENT")
     ELSE /\ phase' = "done"
          /\ \/ outcome' = Assembled(lost')
             \/ Assembled(lost').kind = "WRITTEN" /\ outcome' = Failure  \* rendering or saving throws
  /\ UNCHANGED <<pin, cursor, index, chain>>

(* The next report starts from nothing: the cursor is local to a call.        *)
Again ==
  /\ phase = "done"
  /\ phase' = "idle" /\ pin' = 0 /\ cursor' = NoCursor /\ index' = EmptyIndex
  /\ lost' = {} /\ outcome' = NoOutcome
  /\ UNCHANGED chain

Report == Pin \/ PinFails \/ Scan \/ ScanFails \/ Projected \/ Again

(* Bounds: the chain stands still while a report lies done, and a report      *)
(* while a block is put together, which it does not see.                      *)
Next ==
  \/ phase # "done" /\ \E tx \in Transactions : Execute(tx)
  \/ phase # "done" /\ Mine
  \/ phase # "done" /\ building.transactions = << >> /\ Reorganise
  \/ building.transactions = << >> /\ Report

Spec == Init /\ [][Next]_vars

-----------------------------------------------------------------------------
(* Properties.                                                                *)
CompleteProjection == phase = "projecting" /\ Plan.kind = "UP_TO_DATE"

(* The index projected up to the pin is the contract's storage there: the     *)
(* labels exactly, and the coordinates of bound cells, those with categories  *)
(* known to be categorical and those under "numerical" bound there.           *)
(* (matrixIndex.ts: a projection that is complete rather than a sample)       *)
IndexIsStorage ==
  CompleteProjection =>
    /\ \A e \in Kinds \X Xs : index.themes[e].text = Pinned.themes[e]
    /\ \A e \in Kinds \X Ys : index.statements[e].text = Pinned.statements[e]
    /\ index.categorical = {at \in Xs \X Ys : Pinned.categories[at] # {}}
    /\ \A at \in index.numerical : BoundAt("NUMERICAL", at)
    /\ index.categorical \cup index.numerical \cup index.unattributed =
         {at \in Xs \X Ys : \E k \in Kinds : BoundAt(k, at)}

(* Whatever did not read, a written report leaves out no coordinate of the    *)
(* pinned matrices; with every cell read it shows no cell that is not there.  *)
(* (matrixReport.ts: no degradation is silent)                                *)
CoordinatesSurvive ==
  outcome.kind = "WRITTEN" =>
    /\ {at \in Xs \X Ys : \E k \in Kinds : BoundAt(k, at)} = {r.at : r \in outcome.rows}
    /\ lost \cap CellReads = {} => \A r \in outcome.rows : BoundAt(r.matrix, r.at)

(* An outage never prints like an empty matrix, and an empty matrix never     *)
(* reads like an outage. (assembleMatrixReport)                               *)
OutageIsNotEmpty ==
  /\ outcome.kind = "WRITTEN" =>
       /\ \/ outcome.rows = {}
          \/ \E r \in outcome.rows : r.unread # {"CELL", "VALUE", "THEME", "STATEMENT"}
          \/ \E label \in outcome.axes : label[4] # "UNREAD"
       /\ outcome.empty <=> Pinned = EmptyMatricies
  /\ outcome = [kind |-> "REFUSED", code |-> "NOTHING_READABLE"] => Pinned # EmptyMatricies

(* Voting discovery over the confirmed blocks, window by window from no       *)
(* cursor, meets every voting exactly once and knows its organ where it has   *)
(* one. (votingDiscovery.ts, discoveryPlan.ts)                                *)
Windows ==
  LET plan(c) == PlanDiscovery(c, HeadBlock, DeploymentBlock, Confirmations, MaxBlocksPerScan)
      windows[c \in NoCursor..MaxBlocks] ==
        IF plan(c).kind # "SCAN" THEN << >> ELSE << plan(c) >> \o windows[plan(c).to]
  IN windows[NoCursor]

EveryVotingIsDiscovered ==
  LET confirmed == IF HeadBlock >= Confirmations THEN Block(HeadBlock - Confirmations) ELSE Genesis
      found == [i \in DOMAIN Windows |->
                  Discovered({e.log : e \in LogsIn(Windows[i].from, Windows[i].to)})]
  IN /\ {r.voting : r \in UNION {found[i] : i \in DOMAIN found}} = confirmed.open \cup confirmed.ended
     /\ \A i, j \in DOMAIN found : \A r \in found[i], q \in found[j] :
          r.voting = q.voting => i = j /\ r.organ # "UNKNOWN"

(* What the client warns of before a proposal is what executing it now would  *)
(* revert with: read in full, no warning means it applies and the first is    *)
(* the revert; with a read missing, a gap is reported and any other warning   *)
(* still means a revert. (applicationPreflight.ts)                            *)
WarningsForetell ==
  \A s \in Asked, read \in SUBSET {"theme", "statement", "cell"} :
    LET matricies == Block(HeadBlock).matricies
        told == Warnings(matricies, s, read)
        error == ApplyError(matricies, s)
    IN IF ApplicationReads(s) \subseteq read
       THEN error = IF told = << >> THEN NoError ELSE told[1]
       ELSE told[1] = Unread /\ (Len(told) > 1 => error # NoError)
=============================================================================
