---------------------------- MODULE ZaryaVotings ----------------------------
(* The governance contract (temporal_docs/Zarya.sol, libraries/Votings.sol):  *)
(* organs and their members, votings from creation to execution, and the      *)
(* matrices approved votings write. A call that reverts changes nothing, so   *)
(* only calls that go through are steps; what the others revert with is what  *)
(* CreationError, CastError and ExecutionError say.                           *)
EXTENDS Matricies

CONSTANTS
  Wallets,
  Organs,          \* the organs but the Chairperson one
  Chairperson,     \* the organ whose members are the Chairman
  FirstChairman,   \* the constructor's argument
  Founders,        \* whom initializeOrgans put into each organ
  Suggestions,     \* what may be proposed
  Durations,
  Settings,        \* what the Chairman may set: [organ, field, value]
  SimpleMajority,  \* [quorum, percentage, base]
  MaxVotings,      \* bound: votings ever created
  MaxTime          \* bound: block time

VARIABLES
  now,             \* block.timestamp
  members,         \* _partyMembersRegistry.membersByOrgan
  thresholds,      \* _votingEligibilityParametersByOrgan
  nextVotingId,    \* the last id issued: it is incremented before use
  votings,         \* _votings
  matricies        \* _matricies

chain == <<now, members, thresholds, nextVotingId, votings, matricies>>

SuggestionTypes ==
  {"Membership", "MembershipRevocation", "Category", "Decimals", "Theme", "Statement",
   "CategoricalValue", "NumericalValue"}

IsOrganGoverned(type) == type \notin {"Theme", "Statement"}

ASSUME ChainAssumption ==
  /\ MaxVotings \in Nat /\ MaxTime \in Nat
  /\ Durations \subseteq Nat
  /\ Settings \subseteq [organ : Organs, field : {"quorum", "percentage", "base"}, value : Nat]
  /\ SimpleMajority \in [quorum : Nat, percentage : Nat, base : Nat \ {0}]
  /\ Chairperson \notin Organs /\ NoOrgan \notin Organs \cup {Chairperson}
  /\ FirstChairman \in Wallets /\ Founders \in [Organs -> SUBSET Wallets]
  /\ \A s \in Suggestions :
       /\ s.type \in SuggestionTypes
       /\ IsOrganGoverned(s.type) => s.organ \in Organs
       /\ WritesCell(s) => s.x \in Xs /\ s.y \in Ys
       /\ s.type \in {"Membership", "MembershipRevocation"} => s.member \in Wallets

Ids == 1..MaxVotings

(* Storage no voting was written to.                                          *)
NoVoting == [state |-> "free"]

ChainInit ==
  /\ now = 0
  /\ members = [o \in Organs \cup {Chairperson} |->
                  IF o = Chairperson THEN {FirstChairman} ELSE Founders[o]]
  /\ thresholds = [o \in Organs |-> [quorum |-> 0, percentage |-> 0, base |-> 0]]
  /\ nextVotingId = 0
  /\ votings = [v \in Ids |-> NoVoting]
  /\ matricies = EmptyMatricies

-----------------------------------------------------------------------------
(* Guards.                                                                    *)
IsMember(organ, w) == w \in members[organ]
IsChairman(w) == IsMember(Chairperson, w)
IsMemberOrChairman(organ, w) == IsMember(organ, w) \/ IsChairman(w)

VotingExists(v) == v # 0 /\ v <= nextVotingId

IsActive(v) == votings[v].start <= now /\ now <= votings[v].end

GoverningOrgan(v) ==
  IF IsOrganGoverned(votings[v].suggestion.type) THEN votings[v].suggestion.organ ELSE NoOrgan

(* What creating a voting on suggestion s by w reverts with.                  *)
CreationError(w, s) ==
  CASE s.type = "Membership" ->
         FirstError(<< <<~IsMemberOrChairman(s.organ, w), "NotActiveMember">> >>)
    [] s.type = "MembershipRevocation" ->
         FirstError(<< <<~IsMemberOrChairman(s.organ, w), "NotActiveMember">>,
                       <<IsChairman(s.member), "CannotRemoveChairman">> >>)
    [] s.type \in {"Theme", "Statement"} -> NoError
    [] OTHER -> FirstError(<< <<~IsMember(s.organ, w), "NotActiveMember">> >>)

(* Mutants of the next: a second vote, a vote after the window.               *)
CastErrorAgain(v, w) ==
  IF ~VotingExists(v) THEN "VotingNotFound"
  ELSE FirstError(<< <<GoverningOrgan(v) # NoOrgan /\ ~IsMemberOrChairman(GoverningOrgan(v), w),
                       "NotActiveMember">>,
                     <<~IsActive(v), "VotingNotActive">> >>)
CastErrorLate(v, w) ==
  IF ~VotingExists(v) THEN "VotingNotFound"
  ELSE FirstError(<< <<GoverningOrgan(v) # NoOrgan /\ ~IsMemberOrChairman(GoverningOrgan(v), w),
                       "NotActiveMember">>,
                     <<votings[v].state = "finalized", "VotingNotActive">>,
                     <<w \in votings[v].voted, "AlreadyVoted">> >>)

(* What a vote of w in voting v reverts with.                                 *)
CastError(v, w) ==
  IF ~VotingExists(v) THEN "VotingNotFound"
  ELSE FirstError(<< <<GoverningOrgan(v) # NoOrgan /\ ~IsMemberOrChairman(GoverningOrgan(v), w),
                       "NotActiveMember">>,
                     <<~IsActive(v), "VotingNotActive">>,
                     <<w \in votings[v].voted, "AlreadyVoted">> >>)

TotalVotes(v) == votings[v].for + votings[v].against

Approved(v) ==
  (votings[v].for * votings[v].params.base) \div TotalVotes(v) > votings[v].params.percentage

(* What executing voting v reverts with. An approved suggestion is applied    *)
(* before the voting is finalized, so its revert undoes the whole call.       *)
ExecutionError(v) ==
  IF ~VotingExists(v) THEN "VotingNotFound"
  ELSE IF IsActive(v) THEN "VotingStillActive"
  ELSE IF votings[v].state = "finalized" THEN "VotingAlreadyFinalized"
  ELSE IF TotalVotes(v) = 0 \/ TotalVotes(v) < votings[v].params.quorum THEN "InsufficientVotes"
  ELSE IF Approved(v) THEN ApplyError(matricies, votings[v].suggestion) ELSE NoError

-----------------------------------------------------------------------------
(* Steps.                                                                     *)
(* An organ whose base was never set falls back to the simple majority, and   *)
(* themes and statements always use that.                                     *)
EligibilityParams(s) ==
  IF ~IsOrganGoverned(s.type) \/ thresholds[s.organ].base = 0 THEN SimpleMajority
  ELSE thresholds[s.organ]

CreateVoting(w, s, duration) ==
  /\ nextVotingId < MaxVotings
  /\ CreationError(w, s) = NoError
  /\ nextVotingId' = nextVotingId + 1
  /\ votings' = [votings EXCEPT ![nextVotingId + 1] =
                   [state |-> "open", suggestion |-> s, start |-> now, end |-> now + duration,
                    for |-> 0, against |-> 0, voted |-> {}, params |-> EligibilityParams(s)]]
  /\ UNCHANGED <<now, members, thresholds, matricies>>

CastVote(v, w, support) ==
  /\ CastError(v, w) = NoError
  /\ votings' = [votings EXCEPT ![v].voted = @ \cup {w},
                                ![v].for = IF support THEN @ + 1 ELSE @,
                                ![v].against = IF support THEN @ ELSE @ + 1]
  /\ UNCHANGED <<now, members, thresholds, nextVotingId, matricies>>

ExecuteVoting(v) ==
  /\ ExecutionError(v) = NoError
  /\ votings' = [votings EXCEPT ![v].state = "finalized"]
  /\ LET s == votings[v].suggestion
     IN IF ~Approved(v) THEN UNCHANGED <<members, matricies>>
        ELSE /\ matricies' = Applied(matricies, s, now)
             /\ members' = CASE s.type = "Membership" ->
                                  [members EXCEPT ![s.organ] = @ \cup {s.member}]
                             [] s.type = "MembershipRevocation" ->
                                  [members EXCEPT ![s.organ] = @ \ {s.member}]
                             [] OTHER -> members
  /\ UNCHANGED <<now, thresholds, nextVotingId>>

(* Mutant: open votings follow the setting instead of their copy.             *)
SetThresholdLive(w, setting) ==
  /\ IsChairman(w)
  /\ thresholds' = [thresholds EXCEPT ![setting.organ][setting.field] = setting.value]
  /\ votings' = [v \in Ids |-> IF VotingExists(v) /\ GoverningOrgan(v) = setting.organ
                               THEN [votings[v] EXCEPT !.params = thresholds'[setting.organ]]
                               ELSE votings[v]]
  /\ UNCHANGED <<now, members, nextVotingId, matricies>>

(* setMinimumQuorum, setMinimumApprovalPercentage and ...Base: one field each.*)
SetThreshold(w, setting) ==
  /\ IsChairman(w)
  /\ thresholds' = [thresholds EXCEPT ![setting.organ][setting.field] = setting.value]
  /\ UNCHANGED <<now, members, nextVotingId, votings, matricies>>

TransferChairmanship(w, successor) ==
  /\ IsChairman(w)
  /\ members' = [members EXCEPT ![Chairperson] = (@ \ {w}) \cup {successor}]
  /\ UNCHANGED <<now, thresholds, nextVotingId, votings, matricies>>

(* Blocks may share a timestamp's second here; time only moves on.            *)
Tick ==
  /\ now < MaxTime
  /\ now' = now + 1
  /\ UNCHANGED <<members, thresholds, nextVotingId, votings, matricies>>

ChainNext ==
  \/ \E w \in Wallets, s \in Suggestions, d \in Durations : CreateVoting(w, s, d)
  \/ \E v \in Ids, w \in Wallets, support \in BOOLEAN : CastVote(v, w, support)
  \/ \E v \in Ids : ExecuteVoting(v)
  \/ \E w \in Wallets, setting \in Settings : SetThreshold(w, setting)
  \/ \E w, successor \in Wallets : TransferChairmanship(w, successor)
  \/ Tick

ChainSpec == ChainInit /\ [][ChainNext]_chain

-----------------------------------------------------------------------------
(* Properties.                                                                *)
Thresholds == [quorum : Nat, percentage : Nat, base : Nat]

Voting ==
  [state : {"open", "finalized"}, suggestion : Suggestions, start : Nat, end : Nat,
   for : Nat, against : Nat, voted : SUBSET Wallets, params : Thresholds]

ChainTypeOK ==
  /\ now \in Nat
  /\ members \in [Organs \cup {Chairperson} -> SUBSET Wallets]
  /\ thresholds \in [Organs -> Thresholds]
  /\ nextVotingId \in 0..MaxVotings
  /\ votings \in [Ids -> Voting \cup {NoVoting}]
  /\ \A v \in Ids : VotingExists(v) <=> votings[v] \in Voting

Executed(v) == VotingExists(v) /\ votings[v].state = "finalized"
Passed(v) == Executed(v) /\ Approved(v)

(* Every vote is counted once and by a wallet that did not vote before, and a *)
(* finalized voting met its quorum. (Votings.sol castVote, executeVoting)     *)
VotesAddUp ==
  \A v \in Ids :
    VotingExists(v) =>
      /\ TotalVotes(v) = Cardinality(votings[v].voted)
      /\ Executed(v) => TotalVotes(v) > 0 /\ TotalVotes(v) >= votings[v].params.quorum

(* Cells are only what passed votings made them: a cell is bound exactly when *)
(* one that writes it passed, all of those are of the organ it is bound to,   *)
(* and a category is allowed exactly when one that adds it passed.            *)
(* (Matricies.sol addValue, addCategory, setDecimals; matrix.ts CellBinding)  *)
Writers(k, x, y) ==
  {v \in Ids : /\ Passed(v) /\ WritesCell(votings[v].suggestion)
               /\ KindOf(votings[v].suggestion) = k
               /\ votings[v].suggestion.x = x /\ votings[v].suggestion.y = y}

CellsComeFromVotings ==
  \A k \in Kinds, x \in Xs, y \in Ys :
    /\ matricies.organs[k, x, y] = NoOrgan <=> Writers(k, x, y) = {}
    /\ \A v \in Writers(k, x, y) : votings[v].suggestion.organ = matricies.organs[k, x, y]
    /\ matricies.categories[x, y] =
         {votings[v].suggestion.value :
            v \in {u \in Writers("CATEGORICAL", x, y) : votings[u].suggestion.type = "Category"}}

(* A revert the client calls TERMINAL stays one: it never executes that       *)
(* voting, whatever else happens on the chain. (contractErrors.ts)            *)
TerminalIsForever ==
  [][\A v \in Ids : IsTerminal(CallOutcome(ExecutionError(v))) => ExecutionError(v)' # NoError]_chain

(* After its window a voting's ballots are closed, and what it was created    *)
(* with - suggestion, window, thresholds - never changes; a finalized one     *)
(* never changes at all. (Votings.sol; the eligibility parameters are copied) *)
VotingsSettle ==
  [][\A v \in Ids :
       VotingExists(v) =>
         LET old == votings[v]
             new == votings'[v]
         IN /\ old.state = "finalized" => new = old
            /\ <<new.suggestion, new.start, new.end, new.params>> =
                 <<old.suggestion, old.start, old.end, old.params>>
            /\ now > old.end => <<new.for, new.against, new.voted>> = <<old.for, old.against, old.voted>>]_chain
=============================================================================
