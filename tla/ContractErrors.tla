--------------------------- MODULE ContractErrors ---------------------------
(* What the client makes of a call that failed (domain/chain/contractErrors,  *)
(* adapters/chain/errorDecoder, revertData): the names it can decode, what    *)
(* each tells its caller to do, and failures that are no verdict at all.      *)
EXTENDS Integers

NoError == "none"   \* the call does not revert

PublishedErrors ==
  {"AlreadyVoted", "CannotRemoveChairman", "CategoryAlreadyExists", "EmptyInitializationData",
   "InsufficientVotes", "InvalidMemberAddress", "InvalidOrgan", "InvalidPartyOrganType",
   "NotActiveMember", "NotChairman", "OrgansAlreadyInitialized", "UnknownRegion",
   "VotingAlreadyFinalized", "VotingNotActive", "VotingNotFound", "VotingStillActive"}

(* Raised from linked libraries or by the compiler: written out by hand.      *)
UnpublishedErrors == {"NoThemeSet", "NoStatementSet", "InvalidCategory", "Panic", "Error"}

Disposition(error) ==
  CASE error \in {"AlreadyVoted", "VotingAlreadyFinalized", "OrgansAlreadyInitialized"} -> "ALREADY_DONE"
    [] error = "VotingStillActive"                     -> "NOT_YET"
    [] error \in {"InsufficientVotes", "InvalidOrgan"} -> "TERMINAL"
    [] OTHER                                           -> "REJECTED"

(* A failed call: "unanswered" and "empty" never carry a decision of the      *)
(* contract, nor does a selector that is in neither list.                     *)
CallOutcome(failure) ==
  CASE failure = "unanswered" -> [kind |-> "UNKNOWN", reason |-> "NOT_A_REVERT"]
    [] failure = "empty"      -> [kind |-> "UNKNOWN", reason |-> "EMPTY_REVERT"]
    [] failure \in PublishedErrors \cup UnpublishedErrors ->
         [kind |-> "REVERTED", name |-> failure, disposition |-> Disposition(failure)]
    [] OTHER                  -> [kind |-> "UNKNOWN", reason |-> "UNDECODABLE"]

IsTerminal(outcome) == outcome.kind = "REVERTED" /\ outcome.disposition = "TERMINAL"

IsRetryable(outcome) ==
  IF outcome.kind = "UNKNOWN" THEN outcome.reason = "NOT_A_REVERT"
  ELSE outcome.disposition = "NOT_YET"

(* Guards in the order they are evaluated: the error of the first that fails. *)
FirstError(guards) ==
  IF \E i \in DOMAIN guards : guards[i][1]
  THEN guards[CHOOSE i \in DOMAIN guards :
                guards[i][1] /\ \A j \in 1..(i - 1) : ~guards[j][1]][2]
  ELSE NoError
=============================================================================
