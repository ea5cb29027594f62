---------------------------- MODULE MatrixIndex ----------------------------
(* The coordinate index: which cells and labels exist, folded from the        *)
(* contract's logs (domain/matrix/matrixIndex.ts, adapters/chain/             *)
(* matrixEvents.ts), window after window (domain/voting/discoveryPlan.ts).    *)
(* A voting is named by its suggestion: here each is proposed at most once.   *)
EXTENDS Matricies

(* The logs creating and finalizing a voting leave. Applying a label or       *)
(* decimals leaves none, and a value does not say which matrix it went to.    *)
CreationLogs(s) ==
  << [name |-> "VotingCreated", voting |-> s], [name |-> "Detail", voting |-> s] >>

AppliedLogs(s) ==
  CASE s.type = "Category" -> << [name |-> "CategoryAdded", at |-> <<s.x, s.y>>] >>
    [] s.type \in {"CategoricalValue", "NumericalValue"} ->
         << [name |-> "ValueAdded", at |-> <<s.x, s.y>>] >>
    [] OTHER -> << >>

FinalizationLogs(s, success) ==
  (IF success THEN AppliedLogs(s) ELSE << >>)
  \o << [name |-> "VotingFinalized", voting |-> s, success |-> success] >>

(* <<block number, log index>>                                                *)
BeforePosition(p, q) == p[1] < q[1] \/ (p[1] = q[1] /\ p[2] < q[2])

-----------------------------------------------------------------------------
(* The fold.                                                                  *)
NoEntry == [text |-> NoText, appliedAt |-> <<-1, -1>>]

EmptyIndex ==
  [categorical |-> {}, numerical |-> {}, unattributed |-> {},
   themes      |-> [header \in Kinds \X Xs |-> NoEntry],
   statements  |-> [header \in Kinds \X Ys |-> NoEntry],
   awaiting    |-> {}]

(* Proposals whose application leaves no log of its own.                      *)
IsGated(s) == s.type \in {"Decimals", "Theme", "Statement"}

IsAttributed(index, at) == at \in index.categorical \cup index.numerical

ReplaceIfLater(old, text, position) ==
  IF BeforePosition(position, old.appliedAt) THEN old ELSE [text |-> text, appliedAt |-> position]

ApplyProposal(index, s, position) ==
  CASE s.type = "Decimals" ->
         [index EXCEPT !.numerical = @ \cup {<<s.x, s.y>>}, !.unattributed = @ \ {<<s.x, s.y>>}]
    [] s.type = "Theme" ->
         [index EXCEPT !.themes[<<s.kind, s.x>>] = ReplaceIfLater(@, s.text, position)]
    [] s.type = "Statement" ->
         [index EXCEPT !.statements[<<s.kind, s.y>>] = ReplaceIfLater(@, s.text, position)]

(* The logs the index asks for.                                               *)
IsIndexEvent(log) ==
  \/ log.name \in {"ValueAdded", "CategoryAdded", "VotingFinalized"}
  \/ log.name = "Detail" /\ IsGated(log.voting)

(* Mutant of the next: a proposal counts as soon as it is made.               *)
FoldEventUngated(index, e) ==
  LET log == e.log
  IN CASE log.name = "Detail" -> ApplyProposal(index, log.voting, e.position)
       [] log.name = "CategoryAdded" -> [index EXCEPT !.categorical = @ \cup {log.at}, !.unattributed = @ \ {log.at}]
       [] log.name = "ValueAdded" /\ ~IsAttributed(index, log.at) -> [index EXCEPT !.unattributed = @ \cup {log.at}]
       [] OTHER -> index

FoldEvent(index, e) ==
  LET log == e.log
  IN CASE log.name = "ValueAdded" ->
            IF IsAttributed(index, log.at) THEN index
            ELSE [index EXCEPT !.unattributed = @ \cup {log.at}]
       [] log.name = "CategoryAdded" ->
            [index EXCEPT !.categorical = @ \cup {log.at}, !.unattributed = @ \ {log.at}]
       [] log.name = "Detail" ->
            [index EXCEPT !.awaiting = @ \cup {log.voting}]
       [] log.name = "VotingFinalized" /\ log.voting \in index.awaiting ->
            LET settled == [index EXCEPT !.awaiting = @ \ {log.voting}]
            IN IF log.success THEN ApplyProposal(settled, log.voting, e.position) ELSE settled
       [] OTHER -> index

(* Events arrive in any order; the position of their logs decides.            *)
LastOf(events) == CHOOSE e \in events : \A f \in events : ~BeforePosition(e.position, f.position)

FoldWindow(index, events) ==
  LET fold[earlier \in SUBSET events] ==
        IF earlier = {} THEN index
        ELSE FoldEvent(fold[earlier \ {LastOf(earlier)}], LastOf(earlier))
  IN fold[events]

-----------------------------------------------------------------------------
(* What to scan next. A cursor says that every block up to it was handled.    *)
NoCursor == -1

(* Mutant of the next: the last block is left for later.                      *)
PlanDiscoveryLate(cursor, head, deployment, confirmations, maxBlocks) ==
  LET confirmedHead == IF head >= confirmations THEN head - confirmations ELSE -1
      from == IF cursor = NoCursor THEN deployment ELSE cursor + 1
  IN IF from >= confirmedHead THEN [kind |-> "UP_TO_DATE"]
     ELSE [kind |-> "SCAN", from |-> from,
           to |-> IF confirmedHead - from + 1 > maxBlocks THEN from + maxBlocks - 1 ELSE confirmedHead]

PlanDiscovery(cursor, head, deployment, confirmations, maxBlocks) ==
  LET confirmedHead == IF head >= confirmations THEN head - confirmations ELSE -1
      from == IF cursor = NoCursor THEN deployment ELSE cursor + 1
      span == confirmedHead - from + 1
  IN IF confirmedHead < deployment THEN [kind |-> "UP_TO_DATE"]
     ELSE IF cursor # NoCursor /\ cursor > confirmedHead THEN [kind |-> "CURSOR_AHEAD"]
     ELSE IF from > confirmedHead THEN [kind |-> "UP_TO_DATE"]
     ELSE [kind |-> "SCAN", from |-> from,
           to |-> IF span > maxBlocks THEN from + maxBlocks - 1 ELSE confirmedHead]

-----------------------------------------------------------------------------
(* Voting discovery: the records in some logs, each with whether its organ is *)
(* known. Creation and detail are joined by voting id.                        *)
Record(logs, s) ==
  [voting |-> s,
   organ |-> IF s.type \in {"Theme", "Statement"} THEN "NONE"
             ELSE IF \E log \in logs : log.name = "Detail" /\ log.voting = s THEN "ORGAN"
             ELSE "UNKNOWN"]

Discovered(logs) == {Record(logs, log.voting) : log \in {l \in logs : l.name = "VotingCreated"}}
=============================================================================
