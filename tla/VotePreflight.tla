--------------------------- MODULE VotePreflight ---------------------------
(* What the client makes of a voting it reads while the chain moves on: "may  *)
(* this wallet vote" (app/preflightVote.ts with domain/preflight) and "is it  *)
(* time to execute" (domain/voting/votingLifecycle.ts). The reads of one      *)
(* question are made at the same time and answered at any block each; a read  *)
(* that is not answered is `unread`, and never an answer.                     *)
EXTENDS ZaryaVotings

CONSTANTS
  Askers,          \* wallets that ask whether they may vote
  MaxMoments       \* bound: moments at which answers of one question arrive

ASSUME AskersAssumption == Askers \subseteq Wallets /\ MaxMoments \in Nat

VARIABLES
  ask,             \* the question being read for: whose, about which voting, knowing its organ or not
  pending,         \* its reads that were not answered yet
  seen,            \* what the answers said
  moved            \* the chain moved between two of them

vars == <<now, members, thresholds, nextVotingId, votings, matricies, ask, pending, seen, moved>>

YesNo(b) == IF b THEN "yes" ELSE "no"
Late == -1          \* a chain time that was not read

(* A verdict. A blocked call names the revert it predicts, or Unnamed.        *)
Ready == [kind |-> "READY"]
Undetermined(reason) == [kind |-> "UNDETERMINED", reason |-> reason]
Unnamed == "unnamed"
Blocked(blocker, predicted) == [kind |-> "BLOCKED", blocker |-> blocker, predicted |-> predicted]

BlockerFor(error) ==
  CASE error \in {"NotActiveMember", "NotChairman"} -> "NOT_AUTHORIZED"
    [] error = "VotingNotFound"  -> "VOTING_NOT_FOUND"
    [] error = "VotingNotActive" -> "VOTING_WINDOW_CLOSED"
    [] error = "AlreadyVoted"    -> "ALREADY_VOTED"
    [] OTHER                     -> "CONTRACT_REFUSED"

-----------------------------------------------------------------------------
(* Rules of authorization, and the rule of each call.                         *)
(* Mutant: the Chairman is exempt everywhere.                                 *)
CreationRuleExempting(type) ==
  IF type \in {"Theme", "Statement"} THEN "PERMISSIONLESS" ELSE "MEMBER_OR_CHAIRMAN"
CreationRule(type) ==
  CASE type \in {"Membership", "MembershipRevocation"} -> "MEMBER_OR_CHAIRMAN"
    [] type \in {"Theme", "Statement"}                 -> "PERMISSIONLESS"
    [] OTHER                                           -> "MEMBER_ONLY"

(* Mutant of the next: a missing detail event reads as no organ.              *)
GoverningOrganAssumed(type, known) ==
  IF ~IsOrganGoverned(type) THEN "NONE" ELSE IF known THEN "ORGAN" ELSE "NONE"

(* `known`: the projection has the detail event, which alone tells the organ. *)
GoverningOrganFrom(type, known) ==
  IF ~IsOrganGoverned(type) THEN "NONE" ELSE IF known THEN "ORGAN" ELSE "UNKNOWN"

CastVoteRule(organ) ==
  CASE organ = "NONE"    -> "PERMISSIONLESS"
    [] organ = "ORGAN"   -> "MEMBER_OR_CHAIRMAN"
    [] organ = "UNKNOWN" -> "UNDETERMINED_ORGAN"

OrganToCheck(rule) == rule \in {"MEMBER_OR_CHAIRMAN", "MEMBER_ONLY"}
NeedsChairmanRead(rule) == rule \in {"MEMBER_OR_CHAIRMAN", "CHAIRMAN_ONLY"}

(* Either read alone can grant; none denies while it is unread.               *)
JudgeAuthorization(rule, member, chairman) ==
  CASE rule = "PERMISSIONLESS" -> Ready
    [] rule = "MEMBER_OR_CHAIRMAN" ->
         IF "yes" \in {member, chairman} THEN Ready
         ELSE IF "unread" \in {member, chairman} THEN Undetermined("MEMBERSHIP_UNREAD")
         ELSE Blocked("NOT_AUTHORIZED", "NotActiveMember")
    [] rule = "MEMBER_ONLY" ->
         IF member = "unread" THEN Undetermined("MEMBERSHIP_UNREAD")
         ELSE IF member = "yes" THEN Ready ELSE Blocked("NOT_AUTHORIZED", "NotActiveMember")
    [] rule = "CHAIRMAN_ONLY" ->
         IF chairman = "unread" THEN Undetermined("MEMBERSHIP_UNREAD")
         ELSE IF chairman = "yes" THEN Ready ELSE Blocked("NOT_AUTHORIZED", "NotChairman")
    [] rule = "UNDETERMINED_ORGAN" -> Undetermined("ORGAN_UNKNOWN")

(* Mutant of the next: a window that was not read counts as closed.           *)
ClassifyPhaseGuessing(active, finalized) ==
  IF finalized = "yes" THEN IF active = "yes" THEN "UNKNOWN" ELSE "FINALIZED"
  ELSE IF active = "yes" THEN "ACTIVE" ELSE "AWAITING_EXECUTION"

(* The pair of flags; isVotingActive is a window and never asks finalized.    *)
ClassifyPhase(active, finalized) ==
  IF "unread" \in {active, finalized} THEN "UNKNOWN"
  ELSE IF finalized = "yes" THEN IF active = "yes" THEN "UNKNOWN" ELSE "FINALIZED"
  ELSE IF active = "yes" THEN "ACTIVE" ELSE "AWAITING_EXECUTION"

WindowCheck(phase) ==
  CASE phase = "ACTIVE"  -> Ready
    [] phase = "UNKNOWN" -> Undetermined("VOTING_UNREAD")
    [] OTHER             -> Blocked("VOTING_WINDOW_CLOSED", "VotingNotActive")

AlreadyVotedCheck(voted) ==
  CASE voted = "unread" -> Undetermined("VOTING_UNREAD")
    [] voted = "yes"    -> Blocked("ALREADY_VOTED", "AlreadyVoted")
    [] OTHER            -> Ready

(* The guards in the contract's order: the first blocker wins even over an    *)
(* unknown before it, which only takes its name away.                         *)
ResolvePreflight(checks) ==
  LET first(kind) == {i \in DOMAIN checks : /\ checks[i].kind = kind
                                            /\ \A j \in 1..(i - 1) : checks[j].kind # kind}
      blocks == first("BLOCKED")
      gaps == first("UNDETERMINED")
  IN IF blocks = {} THEN IF gaps = {} THEN Ready ELSE checks[CHOOSE g \in gaps : TRUE]
     ELSE LET b == CHOOSE i \in blocks : TRUE
          IN IF \A g \in gaps : b < g THEN checks[b]
             ELSE Blocked(checks[b].blocker, Unnamed)

JudgeVotePreflight(organ, answers) ==
  ResolvePreflight(<<JudgeAuthorization(CastVoteRule(organ), answers["member"], answers["chairman"]),
                     WindowCheck(ClassifyPhase(answers["active"], answers["finalized"])),
                     AlreadyVotedCheck(answers["voted"])>>)

(* Client and simulation: what the contract would do decides, an outage or a *)
(* revert nobody can name does not. "absent" when no simulator was given.     *)
Reconcile(client, simulation) ==
  LET outcome == CallOutcome(simulation)
  IN CASE simulation = "absent" -> [verdict |-> client, disagreement |-> "none"]
       [] simulation = NoError ->
            [verdict |-> Ready,
             disagreement |-> IF client.kind = "BLOCKED" THEN "CLIENT_STRICTER" ELSE "none"]
       [] simulation \notin {"absent", NoError} /\ outcome.kind = "UNKNOWN" ->
            [verdict |-> IF client = Ready THEN Undetermined("VOTING_UNREAD") ELSE client,
             disagreement |-> "none"]
       [] simulation \notin {"absent", NoError} /\ outcome.kind = "REVERTED" ->
            [verdict |-> Blocked(BlockerFor(simulation), simulation),
             disagreement |->
               CASE client.kind = "READY" -> "CLIENT_LOOSER"
                 [] client.kind = "BLOCKED" /\ client.predicted \notin {Unnamed, simulation} ->
                      "PREDICTED_WRONG_ERROR"
                 [] OTHER -> "none"]

(* Mutant of the next: trusts the flags and takes the deadline itself as past.*)
ExecutionReadinessEarly(end, active, finalized, chainTime) ==
  LET phase == ClassifyPhase(active, finalized)
  IN IF phase = "FINALIZED" THEN "SETTLED"
     ELSE IF phase = "UNKNOWN" \/ chainTime = Late THEN "UNKNOWN"
     ELSE IF chainTime >= end THEN "DUE" ELSE "NOT_DUE"

(* What an executor should do about a voting whose record says `end`.         *)
ExecutionReadiness(end, active, finalized, chainTime) ==
  LET phase == ClassifyPhase(active, finalized)
  IN IF phase = "FINALIZED" THEN "SETTLED"
     ELSE IF phase = "UNKNOWN" \/ chainTime = Late THEN "UNKNOWN"
     ELSE IF phase = "ACTIVE" THEN "NOT_DUE"
     ELSE IF chainTime > end THEN "DUE" ELSE "UNKNOWN"
-----------------------------------------------------------------------------
(* The reads. Which ones a vote needs follows from its rule, so that a rule   *)
(* that grants the Chairman nothing never asks for him.                       *)
NoQuestion == [purpose |-> "none"]

VoteReads(organ) ==
  LET rule == CastVoteRule(organ)
  IN {"active", "finalized", "voted", "simulation"}
     \cup (IF OrganToCheck(rule) THEN {"member"} ELSE {})
     \cup (IF NeedsChairmanRead(rule) THEN {"chairman"} ELSE {})

ExecutionReads == {"active", "finalized", "time"}

Reads == VoteReads("ORGAN") \cup ExecutionReads

Nothing == [r \in Reads |-> IF r = "time" THEN Late ELSE "unread"]

(* What the contract answers a read of the question q now.                    *)
Answer(q, read) ==
  CASE read = "active"     -> YesNo(IsActive(q.voting))
    [] read = "finalized"  -> YesNo(votings[q.voting].state = "finalized")
    [] read = "voted"      -> YesNo(q.asker \in votings[q.voting].voted)
    [] read = "member"     -> YesNo(IsMember(GoverningOrgan(q.voting), q.asker))
    [] read = "chairman"   -> YesNo(IsChairman(q.asker))
    [] read = "simulation" -> CastError(q.voting, q.asker)
    [] read = "time"       -> now

Init == ChainInit /\ ask = NoQuestion /\ pending = {} /\ seen = Nothing /\ moved = FALSE

AskToVote(w, v, known) ==
  /\ ask = NoQuestion
  /\ VotingExists(v)
  /\ LET governing == GoverningOrganFrom(votings[v].suggestion.type, known)
     IN /\ ask' = [purpose |-> "vote", asker |-> w, voting |-> v, organ |-> governing, moments |-> 0]
        /\ pending' = VoteReads(governing)
  /\ UNCHANGED <<seen, moved, chain>>

AskToExecute(v) ==
  /\ ask = NoQuestion
  /\ VotingExists(v)
  /\ ask' = [purpose |-> "execution", voting |-> v, moments |-> 0]
  /\ pending' = ExecutionReads
  /\ UNCHANGED <<seen, moved, chain>>

(* Some reads are answered at one moment; the last moment answers them all.   *)
Answered(reads) ==
  /\ reads # {} /\ reads \subseteq pending
  /\ ask.moments + 1 = MaxMoments => reads = pending
  /\ seen' = [r \in Reads |-> IF r \in reads THEN Answer(ask, r) ELSE seen[r]]
  /\ pending' = pending \ reads
  /\ ask' = [ask EXCEPT !.moments = @ + 1]
  /\ UNCHANGED <<moved, chain>>

Judged ==
  /\ ask # NoQuestion /\ pending = {}
  /\ ask' = NoQuestion /\ seen' = Nothing /\ moved' = FALSE
  /\ UNCHANGED <<pending, chain>>

ChainMoves ==
  /\ ChainNext
  /\ moved' = (moved \/ (ask # NoQuestion /\ ask.moments > 0 /\ pending # {}))
  /\ UNCHANGED <<ask, pending, seen>>

Next ==
  \/ \E w \in Askers, v \in Ids, known \in BOOLEAN : AskToVote(w, v, known)
  \/ \E v \in Ids : AskToExecute(v)
  \/ ask # NoQuestion /\ \E reads \in SUBSET pending : Answered(reads)
  \/ Judged
  \/ ChainMoves

Spec == Init /\ [][Next]_vars

-----------------------------------------------------------------------------
(* Properties.                                                                *)
(* The answers with those in `lost` taken out: reads that failed.             *)
Without(lost) == [r \in Reads |-> IF r \in lost THEN Nothing[r] ELSE seen[r]]

ToldTo(purpose) == ask.purpose = purpose /\ pending = {}

Verdicts ==
  {Reconcile(JudgeVotePreflight(ask.organ, Without(lost)), simulation) :
     lost \in SUBSET (VoteReads(ask.organ) \ {"simulation"}),
     simulation \in {seen["simulation"], "absent", "unanswered", "empty"}}

(* When nothing moved between the answers the preflight mirrors the contract, *)
(* whichever reads failed: READY only for a vote that goes through, BLOCKED   *)
(* only for one that reverts, with the revert it names, and client and        *)
(* simulation never disagree. With every read and the organ it decides.       *)
(* (votePreflight.ts, authorization.ts, reconcilePreflight.ts)                *)
ExactWhenStill ==
  ToldTo("vote") /\ ~moved =>
    LET error == seen["simulation"]
        decided == JudgeVotePreflight(ask.organ, seen)
    IN /\ \A r \in Verdicts :
            /\ r.disagreement = "none"
            /\ r.verdict.kind = "READY" => error = NoError
            /\ r.verdict.kind = "BLOCKED" => error # NoError /\ r.verdict.predicted \in {error, Unnamed}
       /\ ask.organ # "UNKNOWN" => decided.kind # "UNDETERMINED"

(* A chain that moves on can only make a refusal for lack of membership       *)
(* stale: a vote refused for its window or for an earlier vote never goes     *)
(* through any more. (votePreflight.ts windowCheck, alreadyVotedCheck)        *)
OnlyMembershipGoesStale ==
  ToldTo("vote") =>
    \A r \in Verdicts :
      r.verdict.kind = "BLOCKED" /\ r.verdict.blocker # "NOT_AUTHORIZED"
        => CastError(ask.voting, ask.asker) # NoError

(* What an executor is told holds however the reads fell between blocks: DUE  *)
(* never meets VotingStillActive, SETTLED is finalized, and while the chain   *)
(* stood still NOT_DUE means active. (votingLifecycle.ts executionReadiness)  *)
ReadinessHolds ==
  ToldTo("execution") =>
    \A lost \in SUBSET ExecutionReads :
      LET a == Without(lost)
          told == ExecutionReadiness(votings[ask.voting].end, a["active"], a["finalized"], a["time"])
      IN /\ told = "DUE" => ExecutionError(ask.voting) # "VotingStillActive"
         /\ told = "SETTLED" => ExecutionError(ask.voting) = "VotingAlreadyFinalized"
         /\ told = "NOT_DUE" /\ lost = {} /\ ~moved => seen["time"] <= votings[ask.voting].end

(* Who may create which voting, as the client routes it, is what the contract *)
(* enforces: an exact reading is refused exactly when creation reverts for    *)
(* want of membership. (authorization.ts creationRule, intentAuthorization.ts)*)
CreationMirrored ==
  ask = NoQuestion =>
    \A w \in Wallets, s \in Suggestions :
      LET member == IF s.type \in {"Theme", "Statement"} THEN "unread" ELSE YesNo(IsMember(s.organ, w))
          rule == CreationRule(s.type)
          told == JudgeAuthorization(rule, member, IF NeedsChairmanRead(rule) THEN YesNo(IsChairman(w)) ELSE "unread")
      IN IF CreationError(w, s) = "NotActiveMember" THEN told = Blocked("NOT_AUTHORIZED", "NotActiveMember")
         ELSE told = Ready
=============================================================================
