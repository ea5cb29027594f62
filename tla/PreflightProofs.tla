--------------------------- MODULE PreflightProofs ---------------------------
(* What the client says of a vote or an execution while the chain moves on,   *)
(* for every number of wallets, organs, suggestions, votings and moments.     *)
EXTENDS VotePreflight, ZaryaProofs

USE ChainAssumption, AskersAssumption DEF Ids

-----------------------------------------------------------------------------
(* Guards in order: the first that fails names the error.                     *)
FailsFirst(guards, k) == guards[k][1] /\ \A j \in 1..(k - 1) : ~guards[j][1]

LEMMA FirstErrorAt ==
  ASSUME NEW n \in 1..4, NEW guards, DOMAIN guards = 1..n, NEW k \in 1..n, FailsFirst(guards, k)
  PROVE  FirstError(guards) = guards[k][2]
<1>1. \A i \in 1..n : FailsFirst(guards, i) => i = k
  <2>. SUFFICES ASSUME NEW i \in 1..n, FailsFirst(guards, i) PROVE i = k
    OBVIOUS
  <2>1. ~(k \in 1..(i - 1)) /\ ~(i \in 1..(k - 1))
    BY DEF FailsFirst
  <2>. QED
    BY <2>1
<1>2. FirstError(guards) = guards[CHOOSE i \in 1..n : FailsFirst(guards, i)][2]
  BY DEF FirstError, FailsFirst
<1>3. (CHOOSE i \in 1..n : FailsFirst(guards, i)) = k
  BY <1>1
<1>. QED
  BY <1>2, <1>3

LEMMA ErrorOfOne ==
  ASSUME NEW a \in BOOLEAN, NEW d
  PROVE  FirstError(<< <<a, d>> >>) = IF a THEN d ELSE NoError
<1>. DEFINE guards == << <<a, d>> >>
<1>1. DOMAIN guards = 1..1 /\ (guards[1][1] <=> a) /\ guards[1][2] = d
  OBVIOUS
<1>. HIDE DEF guards
<1>2. FirstError(guards) = IF a THEN d ELSE NoError
  <2>1. CASE a
    <3>1. FailsFirst(guards, 1)
      BY <1>1, <2>1 DEF FailsFirst
    <3>. QED
      BY <1>1, <2>1, <3>1, FirstErrorAt
  <2>2. CASE ~a
    BY <1>1, <2>2 DEF FirstError
  <2>. QED
    BY <2>1, <2>2
<1>. QED
  BY <1>2 DEF guards

LEMMA ErrorOfTwo ==
  ASSUME NEW a \in BOOLEAN, NEW b \in BOOLEAN, NEW d, NEW e
  PROVE  FirstError(<< <<a, d>>, <<b, e>> >>) = IF a THEN d ELSE IF b THEN e ELSE NoError
<1>. DEFINE guards == << <<a, d>>, <<b, e>> >>
<1>1. /\ DOMAIN guards = 1..2 /\ (guards[1][1] <=> a) /\ (guards[2][1] <=> b)
      /\ guards[1][2] = d /\ guards[2][2] = e
  OBVIOUS
<1>. HIDE DEF guards
<1>2. FirstError(guards) = IF a THEN d ELSE IF b THEN e ELSE NoError
  <2>1. CASE a
    <3>1. FailsFirst(guards, 1)
      BY <1>1, <2>1 DEF FailsFirst
    <3>. QED
      BY <1>1, <2>1, <3>1, FirstErrorAt
  <2>2. CASE ~a /\ b
    <3>1. FailsFirst(guards, 2)
      BY <1>1, <2>2 DEF FailsFirst
    <3>. QED
      BY <1>1, <2>2, <3>1, FirstErrorAt
  <2>3. CASE ~a /\ ~b
    <3>1. \A i \in 1..2 : ~guards[i][1]
      BY <1>1, <2>3
    <3>. QED
      BY <1>1, <2>3, <3>1 DEF FirstError
  <2>. QED
    BY <2>1, <2>2, <2>3
<1>. QED
  BY <1>2 DEF guards

LEMMA ErrorOfThree ==
  ASSUME NEW a \in BOOLEAN, NEW b \in BOOLEAN, NEW c \in BOOLEAN, NEW d, NEW e, NEW f
  PROVE  FirstError(<< <<a, d>>, <<b, e>>, <<c, f>> >>) =
           IF a THEN d ELSE IF b THEN e ELSE IF c THEN f ELSE NoError
<1>. DEFINE guards == << <<a, d>>, <<b, e>>, <<c, f>> >>
<1>1. /\ DOMAIN guards = 1..3 /\ (guards[1][1] <=> a) /\ (guards[2][1] <=> b) /\ (guards[3][1] <=> c)
      /\ guards[1][2] = d /\ guards[2][2] = e /\ guards[3][2] = f
  OBVIOUS
<1>. HIDE DEF guards
<1>2. FirstError(guards) = IF a THEN d ELSE IF b THEN e ELSE IF c THEN f ELSE NoError
  <2>1. CASE a
    <3>1. FailsFirst(guards, 1)
      BY <1>1, <2>1 DEF FailsFirst
    <3>. QED
      BY <1>1, <2>1, <3>1, FirstErrorAt
  <2>2. CASE ~a /\ b
    <3>1. FailsFirst(guards, 2)
      BY <1>1, <2>2 DEF FailsFirst
    <3>. QED
      BY <1>1, <2>2, <3>1, FirstErrorAt
  <2>3. CASE ~a /\ ~b /\ c
    <3>1. \A j \in 1..(3 - 1) : j = 1 \/ j = 2
      OBVIOUS
    <3>2. FailsFirst(guards, 3)
      BY <1>1, <2>3, <3>1 DEF FailsFirst
    <3>. QED
      BY <1>1, <2>3, <3>2, FirstErrorAt
  <2>4. CASE ~a /\ ~b /\ ~c
    <3>1. \A i \in 1..3 : i = 1 \/ i = 2 \/ i = 3
      OBVIOUS
    <3>2. \A i \in 1..3 : ~guards[i][1]
      BY <1>1, <2>4, <3>1
    <3>. QED
      BY <1>1, <2>4, <3>2 DEF FirstError
  <2>. QED
    BY <2>1, <2>2, <2>3, <2>4
<1>. QED
  BY <1>2 DEF guards

(* What a vote in an existing voting reverts with.                            *)
LEMMA CastErrorIs ==
  ASSUME NEW v, NEW w, VotingExists(v)
  PROVE  CastError(v, w) =
           IF GoverningOrgan(v) # NoOrgan /\ ~IsMemberOrChairman(GoverningOrgan(v), w) THEN "NotActiveMember"
           ELSE IF ~IsActive(v) THEN "VotingNotActive"
           ELSE IF w \in votings[v].voted THEN "AlreadyVoted" ELSE NoError
<1>. DEFINE a == GoverningOrgan(v) # NoOrgan /\ ~IsMemberOrChairman(GoverningOrgan(v), w)
            b == ~IsActive(v)
            c == w \in votings[v].voted
<1>1. CastError(v, w) =
        FirstError(<< <<a, "NotActiveMember">>, <<b, "VotingNotActive">>, <<c, "AlreadyVoted">> >>)
  BY DEF CastError
<1>2. a \in BOOLEAN /\ b \in BOOLEAN /\ c \in BOOLEAN
  OBVIOUS
<1>. HIDE DEF a, b, c
<1>3. CastError(v, w) = IF a THEN "NotActiveMember" ELSE IF b THEN "VotingNotActive"
                        ELSE IF c THEN "AlreadyVoted" ELSE NoError
  BY <1>1, <1>2, ErrorOfThree
<1>. QED
  BY <1>3 DEF a, b, c

-----------------------------------------------------------------------------
(* Creation: a state property, of every state with typed memberships.         *)
LEMMA CreationIsMirrored ==
  ASSUME ChainTypeOK
  PROVE  CreationMirrored
<1>. SUFFICES ASSUME NEW w \in Wallets, NEW s \in Suggestions
              PROVE  LET member == IF s.type \in {"Theme", "Statement"} THEN "unread" ELSE YesNo(IsMember(s.organ, w))
                         rule == CreationRule(s.type)
                         told == JudgeAuthorization(rule, member,
                                   IF NeedsChairmanRead(rule) THEN YesNo(IsChairman(w)) ELSE "unread")
                     IN IF CreationError(w, s) = "NotActiveMember"
                        THEN told = Blocked("NOT_AUTHORIZED", "NotActiveMember")
                        ELSE told = Ready
  BY DEF CreationMirrored
<1>1. s.type \in SuggestionTypes
  OBVIOUS
<1>2. CASE s.type \in {"Theme", "Statement"}
  BY <1>2 DEF CreationError, NoError, CreationRule, JudgeAuthorization
<1>3. CASE s.type = "Membership"
  <2>1. CreationError(w, s) = IF ~IsMemberOrChairman(s.organ, w) THEN "NotActiveMember" ELSE NoError
    BY <1>3, ErrorOfOne DEF CreationError
  <2>2. CreationRule(s.type) = "MEMBER_OR_CHAIRMAN"
    BY <1>3 DEF CreationRule
  <2>. QED
    BY <1>3, <2>1, <2>2 DEF JudgeAuthorization, NeedsChairmanRead, YesNo, IsMemberOrChairman, NoError
<1>4. CASE s.type = "MembershipRevocation"
  <2>. DEFINE a == ~IsMemberOrChairman(s.organ, w)
              b == IsChairman(s.member)
  <2>1. CreationError(w, s) = IF a THEN "NotActiveMember"
                              ELSE IF b THEN "CannotRemoveChairman" ELSE NoError
    <3>1. CreationError(w, s) = FirstError(<< <<a, "NotActiveMember">>, <<b, "CannotRemoveChairman">> >>)
      BY <1>4 DEF CreationError
    <3>2. a \in BOOLEAN /\ b \in BOOLEAN
      BY DEF IsChairman, IsMember
    <3>. HIDE DEF a, b
    <3>. QED
      BY <3>1, <3>2, ErrorOfTwo
  <2>2. CreationRule(s.type) = "MEMBER_OR_CHAIRMAN"
    BY <1>4 DEF CreationRule
  <2>. QED
    BY <1>4, <2>1, <2>2 DEF JudgeAuthorization, NeedsChairmanRead, YesNo, IsMemberOrChairman, NoError
<1>5. CASE s.type \in {"Category", "Decimals", "CategoricalValue", "NumericalValue"}
  <2>1. CreationError(w, s) = IF ~IsMember(s.organ, w) THEN "NotActiveMember" ELSE NoError
    BY <1>5, ErrorOfOne DEF CreationError
  <2>2. CreationRule(s.type) = "MEMBER_ONLY"
    BY <1>5 DEF CreationRule
  <2>. QED
    BY <1>5, <2>1, <2>2 DEF JudgeAuthorization, NeedsChairmanRead, YesNo, NoError
<1>. QED
  BY <1>1, <1>2, <1>3, <1>4, <1>5 DEF SuggestionTypes

-----------------------------------------------------------------------------
(* The chain under the questions.                                             *)
LEMMA ChainUnderneath == Spec => ChainSpec
<1>1. Init => ChainInit
  BY DEF Init
<1>2. [Next]_vars => [ChainNext]_chain
  BY DEF Next, vars, chain, AskToVote, AskToExecute, Answered, Judged, ChainMoves
<1>. QED
  BY <1>1, <1>2, PTL DEF Spec, ChainSpec

(* What no call takes back from a voting: its window's end, a ballot, its     *)
(* execution, and time that passed.                                           *)
LEMMA ChainKeeps ==
  ASSUME IInv, [ChainNext]_chain, NEW v \in Ids, VotingExists(v)
  PROVE  /\ VotingExists(v)' /\ now \in Nat /\ now' \in Nat /\ now <= now'
         /\ votings[v].start \in Nat /\ votings[v].end \in Nat
         /\ votings'[v].start = votings[v].start /\ votings'[v].end = votings[v].end
         /\ votings'[v].suggestion = votings[v].suggestion
         /\ votings[v].state = "finalized" => votings'[v].state = "finalized"
         /\ votings[v].voted \subseteq votings'[v].voted
         /\ ~IsActive(v) => ~IsActive(v)'
<1>1. now \in Nat /\ now' \in Nat /\ now <= now'
  <2>1. now \in Nat
    BY DEF IInv, ChainTypeOK
  <2>2. now' = now \/ now' = now + 1
    BY DEF ChainNext, CreateVoting, CastVote, ExecuteVoting, SetThreshold, TransferChairmanship,
           Tick, chain
  <2>. QED
    BY <2>1, <2>2
<1>2. VotingExists(v)'
  <2>1. nextVotingId' = nextVotingId \/ nextVotingId' = nextVotingId + 1
    BY DEF ChainNext, CreateVoting, CastVote, ExecuteVoting, SetThreshold, TransferChairmanship,
           Tick, chain
  <2>. QED
    BY <2>1 DEF VotingExists, IInv, ChainTypeOK
<1>3. /\ votings'[v].start = votings[v].start /\ votings'[v].end = votings[v].end
      /\ votings'[v].suggestion = votings[v].suggestion
      /\ votings[v].state = "finalized" => votings'[v].state = "finalized"
  BY StepSettles DEF Settles
<1>4. votings[v] \in Voting /\ votings[v].start <= now
  BY DEF IInv, ChainTypeOK, Windows
<1>5. votings[v].start \in Nat /\ votings[v].end \in Nat
  BY <1>4 DEF Voting
<1>6. ~IsActive(v) => ~IsActive(v)'
  BY <1>1, <1>3, <1>4, <1>5 DEF IsActive
<1>7. votings[v].voted \subseteq votings'[v].voted
  <2>. DEFINE Kept == votings[v].voted \subseteq votings'[v].voted
  <2>. SUFFICES Kept
    OBVIOUS
  <2>1. CASE votings' = votings
    BY <2>1
  <2>2. ASSUME NEW w \in Wallets, NEW s \in Suggestions, NEW d \in Durations, CreateVoting(w, s, d)
        PROVE  Kept
    <3>1. v # nextVotingId + 1
      BY DEF VotingExists, IInv, ChainTypeOK
    <3>. QED
      BY <2>2, <3>1 DEF CreateVoting, IInv, ChainTypeOK
  <2>3. ASSUME NEW u \in Ids, NEW w \in Wallets, NEW support \in BOOLEAN, CastVote(u, w, support)
        PROVE  Kept
    <3>1. CASE u = v
      <4>. DEFINE old == votings[v]
                  new == [old EXCEPT !.voted = @ \cup {w},
                                     !.for = IF support THEN @ + 1 ELSE @,
                                     !.against = IF support THEN @ ELSE @ + 1]
      <4>1. new.voted = old.voted \cup {w}
        BY <1>4 DEF Voting
      <4>2. votings' = [votings EXCEPT ![v] = new]
        BY <2>3, <3>1 DEF CastVote
      <4>. HIDE DEF new
      <4>. QED
        BY <4>1, <4>2 DEF IInv, ChainTypeOK
    <3>2. CASE u # v
      BY <2>3, <3>2 DEF CastVote, IInv, ChainTypeOK
    <3>. QED
      BY <3>1, <3>2
  <2>4. ASSUME NEW u \in Ids, ExecuteVoting(u)
        PROVE  Kept
    <3>. DEFINE old == votings[v]
                new == [old EXCEPT !.state = "finalized"]
    <3>1. new.voted = old.voted
      BY <1>4 DEF Voting
    <3>2. votings' = [votings EXCEPT ![u] = [votings[u] EXCEPT !.state = "finalized"]]
      BY <2>4 DEF ExecuteVoting
    <3>3. votings'[v] = IF u = v THEN new ELSE votings[v]
      BY <3>2 DEF IInv, ChainTypeOK
    <3>. HIDE DEF new
    <3>. QED
      BY <3>1, <3>3
  <2>5. ASSUME NEW w \in Wallets, NEW setting \in Settings, SetThreshold(w, setting)
        PROVE  Kept
    BY <2>1, <2>5 DEF SetThreshold
  <2>6. ASSUME NEW w \in Wallets, NEW successor \in Wallets, TransferChairmanship(w, successor)
        PROVE  Kept
    BY <2>1, <2>6 DEF TransferChairmanship
  <2>7. CASE Tick
    BY <2>1, <2>7 DEF Tick
  <2>8. CASE UNCHANGED chain
    BY <2>1, <2>8 DEF chain
  <2>. HIDE DEF Kept
  <2>9. ASSUME ChainNext PROVE Kept
    <3>1. CASE \E w \in Wallets, s \in Suggestions, d \in Durations : CreateVoting(w, s, d)
      BY <2>2, <3>1
    <3>2. CASE \E u \in Ids, w \in Wallets, support \in BOOLEAN : CastVote(u, w, support)
      BY <2>3, <3>2
    <3>3. CASE \E u \in Ids : ExecuteVoting(u)
      BY <2>4, <3>3
    <3>4. CASE \E w \in Wallets, setting \in Settings : SetThreshold(w, setting)
      BY <2>5, <3>4
    <3>5. CASE \E w, successor \in Wallets : TransferChairmanship(w, successor)
      BY <2>6, <3>5
    <3>. QED
      BY <2>7, <2>9, <3>1, <3>2, <3>3, <3>4, <3>5 DEF ChainNext
  <2>. QED
    BY <2>8, <2>9
<1>. QED
  BY <1>1, <1>2, <1>3, <1>5, <1>6, <1>7

(* An application never reverts with VotingStillActive.                       *)
LEMMA ApplicationIsNeverEarly ==
  ASSUME NEW m, NEW t, t.type \in SuggestionTypes
  PROVE  ApplyError(m, t) # "VotingStillActive"
<1>1. CASE WritesCell(t)
  <2>1. PICK n \in 1..4 : \E guards : GuardsOfWrite(m, t, n, guards)
    BY <1>1, WriteHasGuards
  <2>2. PICK guards : GuardsOfWrite(m, t, n, guards)
    BY <2>1
  <2>3. CASE \E k \in 1..n : guards[k][1]
    <3>1. PICK i \in 1..n : FirstError(guards) = guards[i][2]
      BY <2>2, <2>3, ErrorOfAGuard DEF GuardsOfWrite
    <3>. QED
      BY <2>2, <3>1 DEF GuardsOfWrite
  <2>4. CASE ~\E k \in 1..n : guards[k][1]
    BY <2>2, <2>4 DEF GuardsOfWrite, FirstError, NoError
  <2>. QED
    BY <2>3, <2>4
<1>2. CASE t.type = "Statement"
  <2>1. ApplyError(m, t) = IF NoThemeAt(m, t) THEN "NoThemeSet" ELSE NoError
    BY <1>2, ErrorOfOne DEF ApplyError, NoThemeAt
  <2>. QED
    BY <2>1 DEF NoError
<1>3. CASE t.type \in {"Theme", "Membership", "MembershipRevocation"}
  BY <1>3 DEF ApplyError, NoError
<1>. QED
  BY <1>1, <1>2, <1>3 DEF SuggestionTypes, WritesCell

-----------------------------------------------------------------------------
(* The invariant. A question is about an existing voting and knows at most    *)
(* that voting's organ; nothing is answered before its first moment.          *)
VoteQuestion ==
  [purpose : {"vote"}, asker : Wallets, voting : Ids, organ : {"NONE", "ORGAN", "UNKNOWN"}, moments : Nat]
ExecutionQuestion == [purpose : {"execution"}, voting : Ids, moments : Nat]

AskedBy(q) == IF q.purpose = "vote" THEN VoteReads(q.organ) ELSE ExecutionReads

Knows(organ, type) == organ # "UNKNOWN" => (organ = "ORGAN" <=> IsOrganGoverned(type))

QuestionOK ==
  /\ ask \in VoteQuestion \cup ExecutionQuestion \cup {NoQuestion}
  /\ ask # NoQuestion =>
       /\ VotingExists(ask.voting) /\ pending \subseteq AskedBy(ask)
       /\ ask.moments = 0 => pending = AskedBy(ask)
  /\ ask.purpose = "vote" => Knows(ask.organ, votings[ask.voting].suggestion.type)

(* What stays true of an answer a to read r however far the chain moved.      *)
Sound(q, r, a) ==
  /\ r \in {"active", "finalized", "voted", "member", "chairman"} => a \in {"yes", "no"}
  /\ r = "active" /\ a = "no" => ~IsActive(q.voting)
  /\ r = "finalized" /\ a = "yes" => votings[q.voting].state = "finalized"
  /\ r = "voted" /\ a = "yes" => q.asker \in votings[q.voting].voted
  /\ r = "simulation" =>
       /\ a \in {NoError, "NotActiveMember", "VotingNotActive", "AlreadyVoted"}
       /\ a = "VotingNotActive" => ~IsActive(q.voting)
       /\ a = "AlreadyVoted" => q.asker \in votings[q.voting].voted
  /\ r = "time" => a \in Nat /\ a <= now

AnswersSound == ask # NoQuestion => \A r \in AskedBy(ask) \ pending : Sound(ask, r, seen[r])

(* Answers of one moment: the simulation fails at the first of the guards the *)
(* other answers tell of, and no voting is both active and finalized.         *)
Mirrors(organ, answers) ==
  /\ ~(answers["active"] = "yes" /\ answers["finalized"] = "yes")
  /\ \E refused \in BOOLEAN :
       /\ organ = "NONE" => ~refused
       /\ organ = "ORGAN" => (refused <=> answers["member"] = "no" /\ answers["chairman"] = "no")
       /\ answers["simulation"] =
            IF refused THEN "NotActiveMember" ELSE IF answers["active"] = "no" THEN "VotingNotActive"
            ELSE IF answers["voted"] = "yes" THEN "AlreadyVoted" ELSE NoError

OnTime(end, answers) == answers["active"] = "yes" => answers["time"] <= end

(* Answers stay as read until all are there; after that they belong together. *)
Still ==
  ~moved =>
    /\ ask # NoQuestion /\ pending # {} => \A r \in AskedBy(ask) \ pending : seen[r] = Answer(ask, r)
    /\ ToldTo("vote") => Mirrors(ask.organ, seen)
    /\ ToldTo("execution") => OnTime(votings[ask.voting].end, seen)

AnswersInv == QuestionOK /\ AnswersSound /\ Still

-----------------------------------------------------------------------------
(* The reads, spelled out.                                                    *)
LEMMA ReadsOfAVote ==
  /\ VoteReads("NONE") = {"active", "finalized", "voted", "simulation"}
  /\ VoteReads("UNKNOWN") = {"active", "finalized", "voted", "simulation"}
  /\ VoteReads("ORGAN") = {"active", "finalized", "voted", "simulation", "member", "chairman"}
  /\ Reads = {"active", "finalized", "voted", "simulation", "member", "chairman", "time"}
BY DEF VoteReads, CastVoteRule, OrganToCheck, NeedsChairmanRead, Reads, ExecutionReads

LEMMA Asked ==
  ASSUME QuestionOK
  PROVE  /\ ask.purpose \in {"vote", "execution"} => ask # NoQuestion
         /\ ask # NoQuestion =>
              /\ ask \in VoteQuestion \/ ask \in ExecutionQuestion
              /\ ask.voting \in Ids /\ VotingExists(ask.voting) /\ AskedBy(ask) \subseteq Reads
         /\ ask.purpose = "vote" => ask \in VoteQuestion /\ AskedBy(ask) = VoteReads(ask.organ)
         /\ ask.purpose = "execution" => ask \in ExecutionQuestion /\ AskedBy(ask) = ExecutionReads
<1>1. NoQuestion.purpose = "none"
  BY DEF NoQuestion
<1>2. \A q \in VoteQuestion : /\ q.purpose = "vote" /\ q.organ \in {"NONE", "ORGAN", "UNKNOWN"}
                              /\ q.voting \in Ids /\ q # NoQuestion
  BY <1>1 DEF VoteQuestion
<1>3. \A q \in ExecutionQuestion : q.purpose = "execution" /\ q.voting \in Ids /\ q # NoQuestion
  BY <1>1 DEF ExecutionQuestion
<1>4. ask \in VoteQuestion \/ ask \in ExecutionQuestion \/ ask = NoQuestion
  BY DEF QuestionOK
<1>5. ask # NoQuestion => VotingExists(ask.voting)
  BY DEF QuestionOK
<1>6. ask \in VoteQuestion => AskedBy(ask) = VoteReads(ask.organ)
  BY <1>2 DEF AskedBy
<1>7. ask \in ExecutionQuestion => AskedBy(ask) = ExecutionReads
  BY <1>3 DEF AskedBy
<1>8. ask # NoQuestion => AskedBy(ask) \subseteq Reads
  BY <1>2, <1>4, <1>6, <1>7, ReadsOfAVote DEF ExecutionReads
<1>. QED
  BY <1>1, <1>2, <1>3, <1>4, <1>5, <1>6, <1>7, <1>8

(* An answer is sound when it is given, and stays so.                         *)
LEMMA AnswerIsSound ==
  ASSUME IInv, NEW q, NEW r, VotingExists(q.voting)
  PROVE  Sound(q, r, Answer(q, r))
<1>1. CASE r = "simulation"
  <2>1. Answer(q, r) = CastError(q.voting, q.asker)
    BY <1>1 DEF Answer
  <2>. QED
    BY <1>1, <2>1, CastErrorIs DEF Sound, NoError
<1>2. CASE r = "time"
  BY <1>2 DEF Answer, Sound, IInv, ChainTypeOK
<1>3. CASE r \in {"active", "finalized", "voted", "member", "chairman"}
  BY <1>3 DEF Answer, Sound, YesNo
<1>4. CASE r \notin {"active", "finalized", "voted", "member", "chairman", "simulation", "time"}
  BY <1>4 DEF Sound
<1>. QED
  BY <1>1, <1>2, <1>3, <1>4

LEMMA SoundStays ==
  ASSUME IInv, [ChainNext]_chain, NEW q, NEW r, NEW a, q.voting \in Ids, VotingExists(q.voting),
         Sound(q, r, a)
  PROVE  Sound(q, r, a)'
<1>. DEFINE v == q.voting
<1>1. /\ now \in Nat /\ now' \in Nat /\ now <= now'
      /\ votings[v].state = "finalized" => votings'[v].state = "finalized"
      /\ votings[v].voted \subseteq votings'[v].voted
      /\ ~IsActive(v) => ~IsActive(v)'
  BY ChainKeeps
<1>. QED
  BY <1>1 DEF Sound

(* Answers of one moment mirror the contract.                                 *)
LEMMA AnswersMirror ==
  ASSUME IInv, NEW q \in VoteQuestion, VotingExists(q.voting),
         Knows(q.organ, votings[q.voting].suggestion.type),
         NEW answers, \A r \in VoteReads(q.organ) : answers[r] = Answer(q, r)
  PROVE  Mirrors(q.organ, answers)
<1>. DEFINE v == q.voting
            w == q.asker
            refused == GoverningOrgan(v) # NoOrgan /\ ~IsMemberOrChairman(GoverningOrgan(v), w)
<1>1. v \in Ids /\ q.organ \in {"NONE", "ORGAN", "UNKNOWN"}
  BY DEF VoteQuestion
<1>2. votings[v] \in Voting
  BY <1>1 DEF IInv, ChainTypeOK
<1>3. /\ answers["active"] = YesNo(IsActive(v))
      /\ answers["finalized"] = YesNo(votings[v].state = "finalized")
      /\ answers["voted"] = YesNo(w \in votings[v].voted)
      /\ answers["simulation"] = CastError(v, w)
  BY <1>1, ReadsOfAVote DEF Answer
<1>4. q.organ = "ORGAN" => /\ answers["member"] = YesNo(IsMember(GoverningOrgan(v), w))
                           /\ answers["chairman"] = YesNo(IsChairman(w))
  BY ReadsOfAVote DEF Answer
<1>5. ~(answers["active"] = "yes" /\ answers["finalized"] = "yes")
  BY <1>1, <1>2, <1>3 DEF YesNo, IsActive, IInv, ChainTypeOK, Windows, Executed, Voting
<1>6. q.organ = "NONE" => ~refused
  BY DEF Knows, GoverningOrgan
<1>7. q.organ = "ORGAN" => (refused <=> answers["member"] = "no" /\ answers["chairman"] = "no")
  <2>1. q.organ = "ORGAN" => GoverningOrgan(v) # NoOrgan
    BY <1>2 DEF Knows, GoverningOrgan, Voting
  <2>. QED
    BY <1>4, <2>1 DEF YesNo, IsMemberOrChairman
<1>8. CastError(v, w) = IF refused THEN "NotActiveMember" ELSE IF ~IsActive(v) THEN "VotingNotActive"
                        ELSE IF w \in votings[v].voted THEN "AlreadyVoted" ELSE NoError
  BY CastErrorIs
<1>. HIDE DEF refused
<1>9. PICK b \in BOOLEAN : b <=> refused
  BY DEF refused
<1>. QED
  BY <1>3, <1>5, <1>6, <1>7, <1>8, <1>9 DEF Mirrors, YesNo

LEMMA AnswersOnTime ==
  ASSUME IInv, NEW q \in ExecutionQuestion, VotingExists(q.voting),
         NEW answers, \A r \in ExecutionReads : answers[r] = Answer(q, r)
  PROVE  OnTime(votings[q.voting].end, answers)
<1>1. answers["active"] = YesNo(IsActive(q.voting)) /\ answers["time"] = now
  BY DEF ExecutionReads, Answer
<1>. QED
  BY <1>1 DEF OnTime, YesNo, IsActive

-----------------------------------------------------------------------------
(* Every step keeps the invariant.                                            *)
LEMMA AskToVoteKeeps ==
  ASSUME IInv, AnswersInv, NEW w \in Askers, NEW v \in Ids, NEW known \in BOOLEAN, AskToVote(w, v, known)
  PROVE  AnswersInv'
<1>. DEFINE governing == GoverningOrganFrom(votings[v].suggestion.type, known)
            q == [purpose |-> "vote", asker |-> w, voting |-> v, organ |-> governing, moments |-> 0]
<1>1. /\ VotingExists(v) /\ ask' = q /\ pending' = VoteReads(governing)
      /\ UNCHANGED <<seen, moved, now, members, thresholds, nextVotingId, votings, matricies>>
  BY DEF AskToVote, chain
<1>2. q \in VoteQuestion /\ Knows(governing, votings[v].suggestion.type)
  BY DEF VoteQuestion, GoverningOrganFrom, Knows
<1>3. AskedBy(q) = VoteReads(governing) /\ "active" \in VoteReads(governing)
  BY DEF AskedBy, VoteReads
<1>4. QuestionOK'
  BY <1>1, <1>2, <1>3 DEF QuestionOK, VotingExists
<1>5. AnswersSound' /\ Still'
  BY <1>1, <1>3 DEF AnswersSound, Still, ToldTo
<1>. QED
  BY <1>4, <1>5 DEF AnswersInv

LEMMA AskToExecuteKeeps ==
  ASSUME IInv, AnswersInv, NEW v \in Ids, AskToExecute(v)
  PROVE  AnswersInv'
<1>. DEFINE q == [purpose |-> "execution", voting |-> v, moments |-> 0]
<1>1. /\ VotingExists(v) /\ ask' = q /\ pending' = ExecutionReads
      /\ UNCHANGED <<seen, moved, now, members, thresholds, nextVotingId, votings, matricies>>
  BY DEF AskToExecute, chain
<1>2. q \in ExecutionQuestion
  BY DEF ExecutionQuestion
<1>3. AskedBy(q) = ExecutionReads /\ "active" \in ExecutionReads
  BY DEF AskedBy, ExecutionReads
<1>4. QuestionOK'
  BY <1>1, <1>2, <1>3 DEF QuestionOK, VotingExists
<1>5. AnswersSound' /\ Still'
  BY <1>1, <1>3 DEF AnswersSound, Still, ToldTo
<1>. QED
  BY <1>4, <1>5 DEF AnswersInv

LEMMA AnsweredKeeps ==
  ASSUME IInv, AnswersInv, ask # NoQuestion, NEW reads \in SUBSET pending, Answered(reads)
  PROVE  AnswersInv'
<1>1. PICK q : q = ask
  OBVIOUS
<1>2. PICK q2 : q2 = ask'
  OBVIOUS
<1>3. /\ q \in VoteQuestion \/ q \in ExecutionQuestion
      /\ q.voting \in Ids /\ VotingExists(q.voting) /\ AskedBy(q) \subseteq Reads
      /\ pending \subseteq AskedBy(q)
  BY <1>1, Asked DEF AnswersInv, QuestionOK
<1>4. /\ q2 = [q EXCEPT !.moments = @ + 1] /\ pending' = pending \ reads /\ reads # {}
      /\ \A r \in Reads : seen'[r] = IF r \in reads THEN Answer(q, r) ELSE seen[r]
      /\ UNCHANGED <<moved, now, members, thresholds, nextVotingId, votings, matricies>>
  BY <1>1, <1>2 DEF Answered, chain
<1>5. /\ q \in VoteQuestion => /\ q2 \in VoteQuestion /\ q2.voting = q.voting /\ q2.organ = q.organ
                              /\ q2.purpose = "vote" /\ q.purpose = "vote" /\ q2.asker = q.asker
                              /\ q2.moments # 0
      /\ q \in ExecutionQuestion => /\ q2 \in ExecutionQuestion /\ q2.voting = q.voting
                                   /\ q2.purpose = "execution" /\ q.purpose = "execution"
                                   /\ q2.moments # 0
  BY <1>4 DEF VoteQuestion, ExecutionQuestion
<1>6. AskedBy(q2) = AskedBy(q) /\ q2.voting = q.voting /\ q2.moments # 0
      /\ q2 \in VoteQuestion \cup ExecutionQuestion /\ q2 # NoQuestion
  BY <1>3, <1>5 DEF AskedBy, NoQuestion
<1>7. QuestionOK'
  BY <1>1, <1>2, <1>3, <1>4, <1>5, <1>6 DEF QuestionOK, AnswersInv, VotingExists
<1>8. \A r \in AskedBy(q) \ pending : Sound(q, r, seen[r])
  BY <1>1 DEF AnswersInv, AnswersSound
<1>9. \A r \in AskedBy(q) \ pending' : Sound(q, r, seen'[r])
  BY <1>3, <1>4, <1>8, AnswerIsSound
<1>10. \A r \in AskedBy(q) : \A a : Sound(q, r, a) => Sound(q2, r, a)'
  BY <1>3, <1>4, <1>5, <1>6 DEF Sound, IsActive, AskedBy, ExecutionReads
<1>11. AnswersSound'
  BY <1>2, <1>6, <1>9, <1>10 DEF AnswersSound
<1>12. ~moved => \A r \in AskedBy(q) \ pending' : seen'[r] = Answer(q, r)
  <2>1. pending # {}
    BY <1>4
  <2>2. ~moved => \A r \in AskedBy(q) \ pending : seen[r] = Answer(q, r)
    BY <1>1, <2>1 DEF AnswersInv, Still
  <2>. QED
    BY <1>3, <1>4, <2>2
<1>13. ~moved => \A r \in AskedBy(q) \ pending' : seen'[r] = Answer(q2, r)'
  <2>1. \A r \in AskedBy(q) : Answer(q, r) = Answer(q2, r)'
    BY <1>3, <1>4, <1>5, <1>6
       DEF Answer, AskedBy, ExecutionReads, IsActive, IsMember, IsChairman, GoverningOrgan, CastError,
           VotingExists, IsMemberOrChairman
  <2>. QED
    BY <1>12, <2>1
<1>14. ToldTo("vote")' /\ ~moved => Mirrors(q2.organ, seen')
  <2>. SUFFICES ASSUME ToldTo("vote")', ~moved PROVE Mirrors(q2.organ, seen')
    OBVIOUS
  <2>1. q \in VoteQuestion /\ pending' = {} /\ q.organ = q2.organ
    BY <1>2, <1>3, <1>5 DEF ToldTo
  <2>2. \A r \in VoteReads(q.organ) : seen'[r] = Answer(q, r)
    BY <1>5, <1>12, <2>1 DEF AskedBy
  <2>3. Knows(q.organ, votings[q.voting].suggestion.type)
    BY <1>1, <1>5, <2>1 DEF AnswersInv, QuestionOK
  <2>. QED
    BY <1>3, <2>1, <2>2, <2>3, AnswersMirror
<1>15. ToldTo("execution")' /\ ~moved => OnTime(votings'[q2.voting].end, seen')
  <2>. SUFFICES ASSUME ToldTo("execution")', ~moved PROVE OnTime(votings'[q2.voting].end, seen')
    OBVIOUS
  <2>1. q \in ExecutionQuestion /\ pending' = {}
    BY <1>2, <1>3, <1>5 DEF ToldTo
  <2>2. \A r \in ExecutionReads : seen'[r] = Answer(q, r)
    BY <1>5, <1>12, <2>1 DEF AskedBy
  <2>3. OnTime(votings[q.voting].end, seen')
    BY <1>3, <2>1, <2>2, AnswersOnTime
  <2>. QED
    BY <1>4, <1>6, <2>3
<1>16. Still'
  BY <1>2, <1>4, <1>6, <1>13, <1>14, <1>15 DEF Still
<1>. QED
  BY <1>7, <1>11, <1>16 DEF AnswersInv

LEMMA ChainMovesKeeps ==
  ASSUME IInv, AnswersInv, ChainMoves
  PROVE  AnswersInv'
<1>1. /\ [ChainNext]_chain /\ ask' = ask /\ pending' = pending /\ seen' = seen
      /\ ~moved' => ~moved /\ ~(ask # NoQuestion /\ ask.moments > 0 /\ pending # {})
  BY DEF ChainMoves
<1>2. CASE ask = NoQuestion
  BY <1>1, <1>2 DEF AnswersInv, QuestionOK, AnswersSound, Still, ToldTo, NoQuestion
<1>3. CASE ask # NoQuestion
  <2>1. PICK q : q = ask
    OBVIOUS
  <2>2. q.voting \in Ids /\ VotingExists(q.voting) /\ (q \in VoteQuestion \/ q \in ExecutionQuestion)
    BY <1>3, <2>1, Asked DEF AnswersInv
  <2>3. /\ VotingExists(q.voting)' /\ votings'[q.voting].suggestion = votings[q.voting].suggestion
        /\ votings'[q.voting].end = votings[q.voting].end
    BY <1>1, <2>2, ChainKeeps
  <2>4. QuestionOK'
    BY <1>1, <2>1, <2>3 DEF AnswersInv, QuestionOK
  <2>5. AnswersSound'
    <3>1. \A r \in AskedBy(q) \ pending : Sound(q, r, seen[r])
      BY <1>3, <2>1 DEF AnswersInv, AnswersSound
    <3>2. \A r \in AskedBy(q) \ pending : Sound(q, r, seen[r])'
      BY <1>1, <2>2, <3>1, SoundStays
    <3>. QED
      BY <1>1, <2>1, <3>2 DEF AnswersSound
  <2>6. Still'
    <3>. SUFFICES ASSUME ~moved' PROVE Still'
      BY DEF Still
    <3>1. ~moved /\ (pending # {} => ask.moments = 0)
      BY <1>1, <1>3, <2>1, <2>2 DEF VoteQuestion, ExecutionQuestion
    <3>2. pending # {} => AskedBy(ask) \ pending = {}
      BY <1>3, <3>1 DEF AnswersInv, QuestionOK
    <3>3. /\ ToldTo("vote") => Mirrors(ask.organ, seen)
          /\ ToldTo("execution") => OnTime(votings[ask.voting].end, seen)
      BY <3>1 DEF AnswersInv, Still
    <3>. QED
      BY <1>1, <2>1, <2>3, <3>2, <3>3 DEF Still, ToldTo
  <2>. QED
    BY <2>4, <2>5, <2>6 DEF AnswersInv
<1>. QED
  BY <1>2, <1>3

LEMMA StutterKeeps ==
  ASSUME AnswersInv, UNCHANGED vars
  PROVE  AnswersInv'
<1>1. PICK q : q = ask
  OBVIOUS
<1>2. /\ ask' = ask /\ pending' = pending /\ seen' = seen /\ moved' = moved /\ now' = now
      /\ members' = members /\ nextVotingId' = nextVotingId /\ votings' = votings
  BY DEF vars
<1>3. QuestionOK'
  BY <1>2 DEF AnswersInv, QuestionOK, VotingExists
<1>4. \A r : \A a : Sound(q, r, a) => Sound(q, r, a)'
  BY <1>2 DEF Sound, IsActive
<1>5. AnswersSound'
  BY <1>1, <1>2, <1>4 DEF AnswersInv, AnswersSound
<1>6. \A r \in AskedBy(q) : ask # NoQuestion => Answer(q, r)' = Answer(q, r)
  <2>1. ask # NoQuestion => AskedBy(q) \subseteq Reads
    BY <1>1, Asked DEF AnswersInv
  <2>. QED
    BY <1>2, <2>1, ReadsOfAVote
       DEF Answer, IsActive, IsMember, IsChairman, GoverningOrgan, CastError, VotingExists, IsMemberOrChairman
<1>7. Still'
  BY <1>1, <1>2, <1>6 DEF AnswersInv, Still, ToldTo
<1>. QED
  BY <1>3, <1>5, <1>7 DEF AnswersInv

LEMMA StepKeepsAnswers ==
  ASSUME IInv, AnswersInv, [Next]_vars
  PROVE  AnswersInv'
<1>1. CASE Judged
  <2>1. ask' = NoQuestion
    BY <1>1 DEF Judged
  <2>. QED
    BY <2>1 DEF AnswersInv, QuestionOK, AnswersSound, Still, ToldTo, NoQuestion
<1>. QED
  BY <1>1, AskToVoteKeeps, AskToExecuteKeeps, AnsweredKeeps, ChainMovesKeeps, StutterKeeps DEF Next

LEMMA AnswersHold == Spec => [](IInv /\ AnswersInv)
<1>1. Init => AnswersInv
  BY DEF Init, AnswersInv, QuestionOK, AnswersSound, Still, ToldTo, NoQuestion
<1>2. IInv /\ AnswersInv /\ [Next]_vars => AnswersInv'
  BY StepKeepsAnswers
<1>. QED
  BY <1>1, <1>2, ChainUnderneath, InvHolds, PTL DEF Spec

(* Who may create which voting, as the client routes it, is what the contract *)
(* enforces, for every set of wallets, organs and suggestions.                *)
(* (authorization.ts creationRule, intentAuthorization.ts)                    *)
THEOREM CreationMirroredHolds == Spec => []CreationMirrored
<1>1. IInv => CreationMirrored
  BY CreationIsMirrored DEF IInv
<1>. QED
  BY <1>1, AnswersHold, PTL

-----------------------------------------------------------------------------
(* What an executor is told.                                                  *)
LEMMA ReadinessFollows ==
  ASSUME IInv, AnswersInv
  PROVE  ReadinessHolds
<1>. DEFINE v == ask.voting
            told(a) == ExecutionReadiness(votings[v].end, a["active"], a["finalized"], a["time"])
<1>. SUFFICES ASSUME ToldTo("execution"), NEW lost \in SUBSET ExecutionReads
              PROVE  /\ told(Without(lost)) = "DUE" => ExecutionError(v) # "VotingStillActive"
                     /\ told(Without(lost)) = "SETTLED" => ExecutionError(v) = "VotingAlreadyFinalized"
                     /\ told(Without(lost)) = "NOT_DUE" /\ lost = {} /\ ~moved
                          => seen["time"] <= votings[v].end
  BY DEF ReadinessHolds
<1>1. /\ ask \in ExecutionQuestion /\ v \in Ids /\ VotingExists(v) /\ ask # NoQuestion
      /\ AskedBy(ask) = {"active", "finalized", "time"} /\ pending = {}
  BY Asked DEF AnswersInv, ToldTo, ExecutionReads
<1>2. /\ seen["active"] \in {"yes", "no"} /\ (seen["active"] = "no" => ~IsActive(v))
      /\ seen["finalized"] \in {"yes", "no"} /\ (seen["finalized"] = "yes" => votings[v].state = "finalized")
      /\ seen["time"] \in Nat /\ seen["time"] <= now
  BY <1>1 DEF AnswersInv, AnswersSound, Sound
<1>3. votings[v] \in Voting /\ now \in Nat
  BY <1>1 DEF IInv, ChainTypeOK
<1>4. votings[v].end \in Nat /\ votings[v].suggestion.type \in SuggestionTypes
  BY <1>3 DEF Voting
<1>. DEFINE a == Without(lost)
<1>5. /\ a["active"] \in {seen["active"], "unread"} /\ a["finalized"] \in {seen["finalized"], "unread"}
      /\ a["time"] \in {seen["time"], Late}
  BY ReadsOfAVote DEF Without, Nothing
<1>. HIDE DEF a
<1>6. ExecutionError(v) = "VotingStillActive" => IsActive(v)
  BY <1>1, <1>4, ApplicationIsNeverEarly DEF ExecutionError, NoError
<1>7. told(a) = "DUE" => now > votings[v].end
  BY <1>2, <1>3, <1>4, <1>5 DEF ExecutionReadiness, Late
<1>8. told(a) = "SETTLED" => seen["active"] = "no" /\ seen["finalized"] = "yes"
  BY <1>2, <1>5 DEF ExecutionReadiness, ClassifyPhase
<1>9. lost = {} => a["active"] = seen["active"]
  BY ReadsOfAVote DEF Without, a
<1>10. told(a) = "NOT_DUE" => a["active"] = "yes"
  BY <1>2, <1>5 DEF ExecutionReadiness, ClassifyPhase
<1>11. ~moved => OnTime(votings[v].end, seen)
  BY DEF AnswersInv, Still
<1>12. told(a) = "DUE" => ExecutionError(v) # "VotingStillActive"
  BY <1>3, <1>4, <1>6, <1>7 DEF IsActive
<1>13. told(a) = "SETTLED" => ExecutionError(v) = "VotingAlreadyFinalized"
  BY <1>1, <1>2, <1>8 DEF ExecutionError
<1>14. told(a) = "NOT_DUE" /\ lost = {} /\ ~moved => seen["time"] <= votings[v].end
  BY <1>9, <1>10, <1>11 DEF OnTime
<1>. QED
  BY <1>12, <1>13, <1>14 DEF a

(* What an executor is told holds however the reads fell between blocks.      *)
(* (votingLifecycle.ts executionReadiness)                                    *)
THEOREM ReadinessTold == Spec => []ReadinessHolds
<1>1. IInv /\ AnswersInv => ReadinessHolds
  BY ReadinessFollows
<1>. QED
  BY <1>1, AnswersHold, PTL

-----------------------------------------------------------------------------
(* Resolving three checks: the first blocker decides, and keeps its name only *)
(* when nothing before it was open.                                           *)
Check(c) == c.kind \in {"READY", "BLOCKED", "UNDETERMINED"}

LEMMA ResolvedToABlock ==
  ASSUME NEW c1, NEW c2, NEW c3, Check(c1), Check(c2), Check(c3)
  PROVE  LET c == <<c1, c2, c3>>
             r == ResolvePreflight(c)
         IN /\ (\E i \in 1..3 : c[i].kind = "BLOCKED")
                 => \E i \in 1..3 :
                      /\ c[i].kind = "BLOCKED" /\ \A j \in 1..(i - 1) : c[j].kind # "BLOCKED"
                      /\ \/ r = c[i] /\ \A j \in 1..(i - 1) : c[j].kind = "READY"
                         \/ r = Blocked(c[i].blocker, Unnamed)
            /\ (\A i \in 1..3 : c[i].kind # "BLOCKED")
                 => \/ r = Ready /\ \A i \in 1..3 : c[i].kind = "READY"
                    \/ \E i \in 1..3 : r = c[i] /\ c[i].kind = "UNDETERMINED"
<1>. DEFINE c == <<c1, c2, c3>>
            r == ResolvePreflight(c)
            first(kind) == {i \in 1..3 : c[i].kind = kind /\ \A j \in 1..(i - 1) : c[j].kind # kind}
<1>1. DOMAIN c = 1..3 /\ \A i \in 1..3 : Check(c[i])
  <2>1. DOMAIN c = 1..3 /\ c[1] = c1 /\ c[2] = c2 /\ c[3] = c3
    OBVIOUS
  <2>. HIDE DEF c
  <2>2. \A i \in 1..3 : i = 1 \/ i = 2 \/ i = 3
    OBVIOUS
  <2>. QED
    BY <2>1, <2>2
<1>. HIDE DEF c
<1>2. r = IF first("BLOCKED") = {}
          THEN IF first("UNDETERMINED") = {} THEN Ready ELSE c[CHOOSE g \in first("UNDETERMINED") : TRUE]
          ELSE IF \A g \in first("UNDETERMINED") : (CHOOSE i \in first("BLOCKED") : TRUE) < g
               THEN c[CHOOSE i \in first("BLOCKED") : TRUE]
               ELSE Blocked(c[CHOOSE i \in first("BLOCKED") : TRUE].blocker, Unnamed)
  BY <1>1 DEF ResolvePreflight
<1>3. ASSUME NEW kind, \E i \in 1..3 : c[i].kind = kind
      PROVE  first(kind) # {}
  <2>1. CASE c[1].kind = kind
    <3>1. 1 \in first(kind)
      BY <2>1
    <3>. QED
      BY <3>1
  <2>2. CASE c[1].kind # kind /\ c[2].kind = kind
    <3>1. 2 \in first(kind)
      BY <2>2
    <3>. QED
      BY <3>1
  <2>3. CASE c[1].kind # kind /\ c[2].kind # kind
    <3>1. \A j \in 1..(3 - 1) : j = 1 \/ j = 2
      OBVIOUS
    <3>2. \A i \in 1..3 : i = 1 \/ i = 2 \/ i = 3
      OBVIOUS
    <3>3. 3 \in first(kind)
      BY <1>3, <2>3, <3>1, <3>2
    <3>. QED
      BY <3>3
  <2>. QED
    BY <2>1, <2>2, <2>3
<1>4. CASE \E i \in 1..3 : c[i].kind = "BLOCKED"
  <2>1. PICK b : b = (CHOOSE i \in first("BLOCKED") : TRUE)
    OBVIOUS
  <2>2. b \in first("BLOCKED")
    BY <1>3, <1>4, <2>1
  <2>3. \/ r = c[b] /\ \A g \in first("UNDETERMINED") : b < g
        \/ r = Blocked(c[b].blocker, Unnamed)
    BY <1>2, <2>1, <2>2
  <2>4. (\A g \in first("UNDETERMINED") : b < g) => \A j \in 1..(b - 1) : c[j].kind = "READY"
    <3>. SUFFICES ASSUME \A g \in first("UNDETERMINED") : b < g, NEW j \in 1..(b - 1)
                  PROVE  c[j].kind = "READY"
      OBVIOUS
    <3>1. j \in 1..3 /\ j < b /\ c[j].kind # "BLOCKED"
      BY <2>2
    <3>2. c[j].kind # "UNDETERMINED"
      <4>. SUFFICES ASSUME c[j].kind = "UNDETERMINED" PROVE FALSE
        OBVIOUS
      <4>1. \E g \in first("UNDETERMINED") : g <= j
        <5>1. CASE c[1].kind = "UNDETERMINED"
          <6>1. 1 \in first("UNDETERMINED")
            BY <5>1
          <6>. QED
            BY <3>1, <6>1
        <5>2. CASE c[1].kind # "UNDETERMINED"
          <6>1. j = 2
            BY <2>2, <3>1, <5>2
          <6>2. 2 \in first("UNDETERMINED")
            BY <5>2, <6>1
          <6>. QED
            BY <6>1, <6>2
        <5>. QED
          BY <5>1, <5>2
      <4>. QED
        BY <2>2, <3>1, <4>1
    <3>. QED
      BY <1>1, <3>1, <3>2 DEF Check
  <2>5. \E i \in 1..3 : /\ c[i].kind = "BLOCKED" /\ \A j \in 1..(i - 1) : c[j].kind # "BLOCKED"
                        /\ \/ r = c[i] /\ \A j \in 1..(i - 1) : c[j].kind = "READY"
                           \/ r = Blocked(c[i].blocker, Unnamed)
    BY <2>2, <2>3, <2>4
  <2>. HIDE DEF r
  <2>. QED
    BY <1>4, <2>5 DEF c, r
<1>5. CASE \A i \in 1..3 : c[i].kind # "BLOCKED"
  <2>1. first("BLOCKED") = {}
    BY <1>5
  <2>2. CASE \E i \in 1..3 : c[i].kind = "UNDETERMINED"
    <3>1. PICK g : g = (CHOOSE i \in first("UNDETERMINED") : TRUE)
      OBVIOUS
    <3>2. g \in first("UNDETERMINED")
      BY <1>3, <2>2, <3>1
    <3>3. r = c[g] /\ g \in 1..3 /\ c[g].kind = "UNDETERMINED"
      BY <1>2, <2>1, <3>1, <3>2
    <3>. HIDE DEF r
    <3>. QED
      BY <1>5, <3>3 DEF c, r
  <2>3. CASE ~\E i \in 1..3 : c[i].kind = "UNDETERMINED"
    <3>1. first("UNDETERMINED") = {}
      BY <2>3
    <3>2. r = Ready /\ \A i \in 1..3 : c[i].kind = "READY"
      BY <1>1, <1>2, <1>5, <2>1, <2>3, <3>1 DEF Check
    <3>. HIDE DEF r
    <3>. QED
      BY <1>5, <3>2 DEF c, r
  <2>. QED
    BY <2>2, <2>3
<1>. QED
  BY <1>4, <1>5 DEF c

(* What each of the three checks says of the answers it was made from.        *)
Tri == {"yes", "no", "unread"}

TypedAnswers(organ, answers) ==
  /\ organ \in {"NONE", "ORGAN", "UNKNOWN"}
  /\ \A r \in {"active", "finalized", "voted"} : answers[r] \in Tri
  /\ organ = "ORGAN" => answers["member"] \in Tri /\ answers["chairman"] \in Tri

LEMMA AuthorizationSays ==
  ASSUME NEW organ, NEW answers, TypedAnswers(organ, answers)
  PROVE  LET c == JudgeAuthorization(CastVoteRule(organ), answers["member"], answers["chairman"])
         IN /\ Check(c)
            /\ c.kind = "READY" => \/ organ = "NONE"
                                   \/ organ = "ORGAN" /\ "yes" \in {answers["member"], answers["chairman"]}
            /\ c.kind = "BLOCKED" => /\ organ = "ORGAN" /\ answers["member"] = "no" /\ answers["chairman"] = "no"
                                     /\ c.blocker = "NOT_AUTHORIZED" /\ c.predicted = "NotActiveMember"
            /\ c.kind = "UNDETERMINED" =>
                 organ = "UNKNOWN" \/ (organ = "ORGAN" /\ "unread" \in {answers["member"], answers["chairman"]})
<1>1. CASE organ = "NONE"
  BY <1>1 DEF CastVoteRule, JudgeAuthorization, Check, Ready
<1>2. CASE organ = "UNKNOWN"
  <2>1. CastVoteRule(organ) = "UNDETERMINED_ORGAN"
    BY <1>2 DEF CastVoteRule
  <2>2. JudgeAuthorization(CastVoteRule(organ), answers["member"], answers["chairman"])
          = Undetermined("ORGAN_UNKNOWN")
    BY <2>1 DEF JudgeAuthorization
  <2>. QED
    BY <1>2, <2>2 DEF Check, Undetermined
<1>3. CASE organ = "ORGAN"
  <2>1. CastVoteRule(organ) = "MEMBER_OR_CHAIRMAN"
    BY <1>3 DEF CastVoteRule
  <2>. QED
    BY <1>3, <2>1 DEF TypedAnswers, Tri, JudgeAuthorization, Check, Ready, Undetermined, Blocked
<1>. QED
  BY <1>1, <1>2, <1>3 DEF TypedAnswers

LEMMA WindowSays ==
  ASSUME NEW organ, NEW answers, TypedAnswers(organ, answers)
  PROVE  LET c == WindowCheck(ClassifyPhase(answers["active"], answers["finalized"]))
         IN /\ Check(c)
            /\ c.kind = "READY" => answers["active"] = "yes"
            /\ c.kind = "BLOCKED" => /\ answers["active"] = "no"
                                     /\ c.blocker = "VOTING_WINDOW_CLOSED" /\ c.predicted = "VotingNotActive"
            /\ c.kind = "UNDETERMINED" =>
                 \/ "unread" \in {answers["active"], answers["finalized"]}
                 \/ answers["active"] = "yes" /\ answers["finalized"] = "yes"
<1>1. answers["active"] \in Tri /\ answers["finalized"] \in Tri
  BY DEF TypedAnswers
<1>2. PICK phase : phase = ClassifyPhase(answers["active"], answers["finalized"])
  OBVIOUS
<1>3. /\ phase \in {"UNKNOWN", "FINALIZED", "ACTIVE", "AWAITING_EXECUTION"}
      /\ phase = "ACTIVE" => answers["active"] = "yes"
      /\ phase \in {"FINALIZED", "AWAITING_EXECUTION"} => answers["active"] = "no"
      /\ phase = "UNKNOWN" => \/ "unread" \in {answers["active"], answers["finalized"]}
                              \/ answers["active"] = "yes" /\ answers["finalized"] = "yes"
  BY <1>1, <1>2 DEF ClassifyPhase, Tri
<1>4. WindowCheck(phase) = IF phase = "ACTIVE" THEN Ready ELSE IF phase = "UNKNOWN"
                           THEN Undetermined("VOTING_UNREAD")
                           ELSE Blocked("VOTING_WINDOW_CLOSED", "VotingNotActive")
  BY <1>3 DEF WindowCheck
<1>. QED
  BY <1>2, <1>3, <1>4 DEF Check, Ready, Undetermined, Blocked

LEMMA VotedSays ==
  ASSUME NEW organ, NEW answers, TypedAnswers(organ, answers)
  PROVE  LET c == AlreadyVotedCheck(answers["voted"])
         IN /\ Check(c)
            /\ c.kind = "READY" => answers["voted"] = "no"
            /\ c.kind = "BLOCKED" => /\ answers["voted"] = "yes"
                                     /\ c.blocker = "ALREADY_VOTED" /\ c.predicted = "AlreadyVoted"
            /\ c.kind = "UNDETERMINED" => answers["voted"] = "unread"
BY DEF TypedAnswers, Tri, AlreadyVotedCheck, Check, Ready, Undetermined, Blocked

(* The client alone: it blocks for what an answer said, and when the answers  *)
(* left out of are those of one moment its verdict is what simulation gives.  *)
LEMMA ClientSays ==
  ASSUME NEW organ, NEW answers, TypedAnswers(organ, answers)
  PROVE  LET r == JudgeVotePreflight(organ, answers)
         IN /\ r.kind = "BLOCKED" /\ r.blocker # "NOT_AUTHORIZED"
                 => answers["active"] = "no" \/ answers["voted"] = "yes"
            /\ \A seenAll :
                 /\ Mirrors(organ, seenAll)
                 /\ \A x \in {"active", "finalized", "voted"} : answers[x] \in {seenAll[x], "unread"}
                 /\ organ = "ORGAN" => \A x \in {"member", "chairman"} : answers[x] \in {seenAll[x], "unread"}
                 => LET error == seenAll["simulation"]
                    IN /\ r.kind = "READY" => error = NoError
                       /\ r.kind = "BLOCKED" => error # NoError /\ r.predicted \in {error, Unnamed}
            /\ r.kind = "UNDETERMINED" =>
                 \/ organ = "UNKNOWN" \/ (answers["active"] = "yes" /\ answers["finalized"] = "yes")
                 \/ \E x \in {"active", "finalized", "voted"} : answers[x] = "unread"
                 \/ organ = "ORGAN" /\ \E x \in {"member", "chairman"} : answers[x] = "unread"
<1>. DEFINE c1 == JudgeAuthorization(CastVoteRule(organ), answers["member"], answers["chairman"])
            c2 == WindowCheck(ClassifyPhase(answers["active"], answers["finalized"]))
            c3 == AlreadyVotedCheck(answers["voted"])
            r == JudgeVotePreflight(organ, answers)
            c == <<c1, c2, c3>>
<1>1. /\ Check(c1) /\ Check(c2) /\ Check(c3)
      /\ c1.kind = "READY" => \/ organ = "NONE"
                              \/ organ = "ORGAN" /\ "yes" \in {answers["member"], answers["chairman"]}
      /\ c1.kind = "BLOCKED" => /\ organ = "ORGAN" /\ answers["member"] = "no" /\ answers["chairman"] = "no"
                                /\ c1.blocker = "NOT_AUTHORIZED" /\ c1.predicted = "NotActiveMember"
      /\ c1.kind = "UNDETERMINED" =>
           organ = "UNKNOWN" \/ (organ = "ORGAN" /\ "unread" \in {answers["member"], answers["chairman"]})
      /\ c2.kind = "READY" => answers["active"] = "yes"
      /\ c2.kind = "BLOCKED" => /\ answers["active"] = "no"
                                /\ c2.blocker = "VOTING_WINDOW_CLOSED" /\ c2.predicted = "VotingNotActive"
      /\ c2.kind = "UNDETERMINED" =>
           \/ "unread" \in {answers["active"], answers["finalized"]}
           \/ answers["active"] = "yes" /\ answers["finalized"] = "yes"
      /\ c3.kind = "READY" => answers["voted"] = "no"
      /\ c3.kind = "BLOCKED" => /\ answers["voted"] = "yes"
                                /\ c3.blocker = "ALREADY_VOTED" /\ c3.predicted = "AlreadyVoted"
      /\ c3.kind = "UNDETERMINED" => answers["voted"] = "unread"
  BY AuthorizationSays, WindowSays, VotedSays
<1>2. r = ResolvePreflight(c)
  BY DEF JudgeVotePreflight
<1>. HIDE DEF c1, c2, c3, r
<1>3. c[1] = c1 /\ c[2] = c2 /\ c[3] = c3
  OBVIOUS
<1>4. /\ (\E i \in 1..3 : c[i].kind = "BLOCKED")
           => \E i \in 1..3 :
                /\ c[i].kind = "BLOCKED" /\ \A j \in 1..(i - 1) : c[j].kind # "BLOCKED"
                /\ \/ r = c[i] /\ \A j \in 1..(i - 1) : c[j].kind = "READY"
                   \/ r = Blocked(c[i].blocker, Unnamed)
      /\ (\A i \in 1..3 : c[i].kind # "BLOCKED")
           => \/ r = Ready /\ \A i \in 1..3 : c[i].kind = "READY"
              \/ \E i \in 1..3 : r = c[i] /\ c[i].kind = "UNDETERMINED"
  BY <1>1, <1>2, ResolvedToABlock
<1>. HIDE DEF c
<1>5. \A i \in 1..3 : i = 1 \/ i = 2 \/ i = 3
  OBVIOUS
<1>6. CASE \E i \in 1..3 : c[i].kind = "BLOCKED"
  <2>1. PICK i \in 1..3 : /\ c[i].kind = "BLOCKED"
                          /\ \/ r = c[i] /\ \A j \in 1..(i - 1) : c[j].kind = "READY"
                             \/ r = Blocked(c[i].blocker, Unnamed)
    BY <1>4, <1>6
  <2>2. /\ r.kind = "BLOCKED" /\ r.blocker = c[i].blocker
        /\ r.predicted = Unnamed \/ (r.predicted = c[i].predicted /\ \A j \in 1..(i - 1) : c[j].kind = "READY")
    BY <2>1 DEF Blocked
  <2>3. /\ i = 1 \/ i = 2 \/ i = 3
        /\ i = 2 \/ i = 3 => 1 \in 1..(i - 1)
        /\ i = 3 => 2 \in 1..(i - 1)
    OBVIOUS
  <2>4. \/ c1.kind = "BLOCKED" /\ r.blocker = c1.blocker /\ r.predicted \in {c1.predicted, Unnamed}
        \/ /\ c2.kind = "BLOCKED" /\ r.blocker = c2.blocker
           /\ r.predicted = Unnamed \/ (r.predicted = c2.predicted /\ c1.kind = "READY")
        \/ /\ c3.kind = "BLOCKED" /\ r.blocker = c3.blocker
           /\ r.predicted = Unnamed \/ (r.predicted = c3.predicted /\ c1.kind = "READY" /\ c2.kind = "READY")
    BY <1>3, <2>1, <2>2, <2>3
  <2>5. r.blocker # "NOT_AUTHORIZED" => answers["active"] = "no" \/ answers["voted"] = "yes"
    BY <1>1, <2>4
  <2>6. ASSUME NEW seenAll, Mirrors(organ, seenAll),
               \A x \in {"active", "finalized", "voted"} : answers[x] \in {seenAll[x], "unread"},
               organ = "ORGAN" => \A x \in {"member", "chairman"} : answers[x] \in {seenAll[x], "unread"}
        PROVE  seenAll["simulation"] # NoError /\ r.predicted \in {seenAll["simulation"], Unnamed}
    <3>1. PICK refused \in BOOLEAN :
            /\ organ = "NONE" => ~refused
            /\ organ = "ORGAN" => (refused <=> seenAll["member"] = "no" /\ seenAll["chairman"] = "no")
            /\ seenAll["simulation"] =
                 IF refused THEN "NotActiveMember" ELSE IF seenAll["active"] = "no" THEN "VotingNotActive"
                 ELSE IF seenAll["voted"] = "yes" THEN "AlreadyVoted" ELSE NoError
      BY <2>6 DEF Mirrors
    <3>2. c1.kind = "BLOCKED" => refused
      BY <1>1, <2>6, <3>1
    <3>3. c1.kind = "READY" => ~refused
      BY <1>1, <2>6, <3>1
    <3>4. /\ c2.kind = "BLOCKED" => seenAll["active"] = "no"
          /\ c2.kind = "READY" => seenAll["active"] = "yes"
          /\ c3.kind = "BLOCKED" => seenAll["voted"] = "yes"
      BY <1>1, <2>6
    <3>5. seenAll["simulation"] # NoError
      BY <2>4, <3>1, <3>2, <3>4 DEF NoError
    <3>6. r.predicted \in {seenAll["simulation"], Unnamed}
      BY <1>1, <2>4, <3>1, <3>2, <3>3, <3>4
    <3>. QED
      BY <3>5, <3>6
  <2>7. r.kind # "READY" /\ r.kind # "UNDETERMINED"
    BY <2>2
  <2>. QED
    BY <2>5, <2>6, <2>7 DEF r
<1>7. CASE \A i \in 1..3 : c[i].kind # "BLOCKED"
  <2>1. CASE r = Ready /\ \A i \in 1..3 : c[i].kind = "READY"
    <3>1. r.kind = "READY" /\ c1.kind = "READY" /\ c2.kind = "READY" /\ c3.kind = "READY"
      BY <1>3, <2>1 DEF Ready
    <3>2. r.kind # "BLOCKED" /\ r.kind # "UNDETERMINED"
      BY <3>1
    <3>3. ASSUME NEW seenAll, Mirrors(organ, seenAll),
                 \A x \in {"active", "finalized", "voted"} : answers[x] \in {seenAll[x], "unread"},
                 organ = "ORGAN" => \A x \in {"member", "chairman"} : answers[x] \in {seenAll[x], "unread"}
          PROVE  seenAll["simulation"] = NoError
      <4>1. /\ seenAll["active"] = "yes" /\ seenAll["voted"] = "no"
            /\ organ = "NONE" \/ (organ = "ORGAN" /\ "yes" \in {seenAll["member"], seenAll["chairman"]})
        BY <1>1, <3>1, <3>3
      <4>. QED
        BY <3>3, <4>1 DEF Mirrors
    <3>. QED
      BY <3>2, <3>3 DEF r
  <2>2. CASE \E i \in 1..3 : r = c[i] /\ c[i].kind = "UNDETERMINED"
    <3>1. PICK i \in 1..3 : r = c[i] /\ c[i].kind = "UNDETERMINED"
      BY <2>2
    <3>2. r.kind = "UNDETERMINED" /\ "UNDETERMINED" \in {c1.kind, c2.kind, c3.kind}
      BY <1>3, <1>5, <3>1
    <3>3. \/ organ = "UNKNOWN" \/ (answers["active"] = "yes" /\ answers["finalized"] = "yes")
          \/ \E x \in {"active", "finalized", "voted"} : answers[x] = "unread"
          \/ organ = "ORGAN" /\ \E x \in {"member", "chairman"} : answers[x] = "unread"
      <4>1. CASE c1.kind = "UNDETERMINED"
        BY <1>1, <4>1
      <4>2. CASE c2.kind = "UNDETERMINED"
        BY <1>1, <4>2
      <4>3. CASE c3.kind = "UNDETERMINED"
        BY <1>1, <4>3
      <4>. QED
        BY <3>2, <4>1, <4>2, <4>3
    <3>4. r.kind # "READY" /\ r.kind # "BLOCKED"
      BY <3>2
    <3>. QED
      BY <3>3, <3>4 DEF r
  <2>. QED
    BY <1>4, <1>7, <2>1, <2>2
<1>. QED
  BY <1>6, <1>7

(* With a simulation: it decides unless it was no answer of the contract.     *)
LEMMA ReconciledWith ==
  ASSUME NEW client, NEW simulation,
         simulation \in {NoError, "NotActiveMember", "VotingNotActive", "AlreadyVoted",
                         "absent", "unanswered", "empty"}
  PROVE  LET r == Reconcile(client, simulation)
         IN \/ r.verdict = client /\ r.disagreement = "none"
            \/ /\ simulation \in {"unanswered", "empty"} /\ client = Ready
               /\ r.verdict = Undetermined("VOTING_UNREAD") /\ r.disagreement = "none"
            \/ /\ simulation = NoError /\ r.verdict = Ready
               /\ client.kind # "BLOCKED" => r.disagreement = "none"
            \/ /\ simulation \in {"NotActiveMember", "VotingNotActive", "AlreadyVoted"}
               /\ r.verdict = Blocked(BlockerFor(simulation), simulation)
               /\ /\ client.kind # "READY"
                  /\ client.kind = "BLOCKED" => client.predicted \in {Unnamed, simulation}
                  => r.disagreement = "none"
<1>1. CASE simulation = "absent"
  BY <1>1 DEF Reconcile
<1>2. CASE simulation = NoError
  BY <1>2 DEF Reconcile, NoError
<1>3. CASE simulation \in {"unanswered", "empty"}
  <2>1. CallOutcome(simulation).kind = "UNKNOWN"
    BY <1>3 DEF CallOutcome, PublishedErrors, UnpublishedErrors
  <2>2. Reconcile(client, simulation) =
          [verdict |-> IF client = Ready THEN Undetermined("VOTING_UNREAD") ELSE client,
           disagreement |-> "none"]
    BY <1>3, <2>1 DEF Reconcile, NoError
  <2>. QED
    BY <1>3, <2>2
<1>4. CASE simulation \in {"NotActiveMember", "VotingNotActive", "AlreadyVoted"}
  <2>1. CallOutcome(simulation).kind = "REVERTED"
    BY <1>4 DEF CallOutcome, PublishedErrors, UnpublishedErrors
  <2>2. Reconcile(client, simulation) =
          [verdict |-> Blocked(BlockerFor(simulation), simulation),
           disagreement |->
             CASE client.kind = "READY" -> "CLIENT_LOOSER"
               [] client.kind = "BLOCKED" /\ client.predicted \notin {Unnamed, simulation} ->
                    "PREDICTED_WRONG_ERROR"
               [] OTHER -> "none"]
    BY <1>4, <2>1 DEF Reconcile, NoError
  <2>. QED
    BY <1>4, <2>2
<1>. QED
  BY <1>1, <1>2, <1>3, <1>4

(* What is seen of a vote, and of it with some reads lost.                    *)
LEMMA SeenOfAVote ==
  ASSUME AnswersInv, ToldTo("vote")
  PROVE  /\ ask \in VoteQuestion /\ ask.voting \in Ids /\ VotingExists(ask.voting)
         /\ ask.organ \in {"NONE", "ORGAN", "UNKNOWN"} /\ TypedAnswers(ask.organ, seen)
         /\ seen["active"] # "unread" /\ seen["finalized"] # "unread" /\ seen["voted"] # "unread"
         /\ ask.organ = "ORGAN" => seen["member"] # "unread" /\ seen["chairman"] # "unread"
         /\ seen["simulation"] \in {NoError, "NotActiveMember", "VotingNotActive", "AlreadyVoted"}
         /\ seen["active"] = "no" \/ seen["simulation"] = "VotingNotActive" => ~IsActive(ask.voting)
         /\ seen["voted"] = "yes" \/ seen["simulation"] = "AlreadyVoted"
              => ask.asker \in votings[ask.voting].voted
<1>1. /\ ask \in VoteQuestion /\ ask.voting \in Ids /\ VotingExists(ask.voting)
      /\ AskedBy(ask) = VoteReads(ask.organ) /\ pending = {} /\ ask # NoQuestion
  BY Asked DEF AnswersInv, ToldTo
<1>2. ask.organ \in {"NONE", "ORGAN", "UNKNOWN"}
  BY <1>1 DEF VoteQuestion
<1>3. \A r \in VoteReads(ask.organ) : Sound(ask, r, seen[r])
  BY <1>1 DEF AnswersInv, AnswersSound
<1>4. /\ Sound(ask, "active", seen["active"]) /\ Sound(ask, "finalized", seen["finalized"])
      /\ Sound(ask, "voted", seen["voted"]) /\ Sound(ask, "simulation", seen["simulation"])
      /\ ask.organ = "ORGAN" => /\ Sound(ask, "member", seen["member"])
                                /\ Sound(ask, "chairman", seen["chairman"])
  BY <1>2, <1>3, ReadsOfAVote
<1>5. TypedAnswers(ask.organ, seen)
  BY <1>2, <1>4 DEF TypedAnswers, Sound, Tri
<1>. QED
  BY <1>1, <1>2, <1>4, <1>5 DEF Sound

LEMMA SomeAreLost ==
  ASSUME AnswersInv, ToldTo("vote"), NEW lost
  PROVE  /\ TypedAnswers(ask.organ, Without(lost))
         /\ \A x \in {"active", "finalized", "voted"} : Without(lost)[x] \in {seen[x], "unread"}
         /\ \A x \in {"member", "chairman"} : Without(lost)[x] \in {seen[x], "unread"}
<1>1. \A x \in {"active", "finalized", "voted", "member", "chairman"} :
        Without(lost)[x] \in {seen[x], "unread"}
  BY ReadsOfAVote DEF Without, Nothing
<1>2. TypedAnswers(ask.organ, seen)
  BY SeenOfAVote
<1>. QED
  BY <1>1, <1>2 DEF TypedAnswers, Tri

LEMMA StaleFollows ==
  ASSUME IInv, AnswersInv
  PROVE  OnlyMembershipGoesStale
<1>. SUFFICES ASSUME ToldTo("vote"), NEW r \in Verdicts,
                     r.verdict.kind = "BLOCKED", r.verdict.blocker # "NOT_AUTHORIZED"
              PROVE  CastError(ask.voting, ask.asker) # NoError
  BY DEF OnlyMembershipGoesStale
<1>1. PICK lost \in SUBSET (VoteReads(ask.organ) \ {"simulation"}),
           simulation \in {seen["simulation"], "absent", "unanswered", "empty"} :
             r = Reconcile(JudgeVotePreflight(ask.organ, Without(lost)), simulation)
  BY DEF Verdicts
<1>2. PICK client : client = JudgeVotePreflight(ask.organ, Without(lost))
  OBVIOUS
<1>3. ~IsActive(ask.voting) \/ ask.asker \in votings[ask.voting].voted
  <2>1. \/ r.verdict = client
        \/ r.verdict \in {Undetermined("VOTING_UNREAD"), Ready}
        \/ /\ simulation \in {"NotActiveMember", "VotingNotActive", "AlreadyVoted"}
           /\ r.verdict = Blocked(BlockerFor(simulation), simulation)
    BY <1>1, <1>2, SeenOfAVote, ReconciledWith
  <2>2. CASE r.verdict = client
    <3>1. Without(lost)["active"] = "no" \/ Without(lost)["voted"] = "yes"
      BY <1>2, <2>2, SomeAreLost, ClientSays
    <3>2. seen["active"] = "no" \/ seen["voted"] = "yes"
      BY <3>1, SomeAreLost
    <3>. QED
      BY <3>2, SeenOfAVote
  <2>3. CASE r.verdict \in {Undetermined("VOTING_UNREAD"), Ready}
    BY <2>3 DEF Undetermined, Ready
  <2>4. CASE /\ simulation \in {"NotActiveMember", "VotingNotActive", "AlreadyVoted"}
             /\ r.verdict = Blocked(BlockerFor(simulation), simulation)
    <3>1. simulation # "NotActiveMember"
      BY <2>4 DEF Blocked, BlockerFor
    <3>2. simulation = seen["simulation"]
      BY <1>1, <2>4
    <3>. QED
      BY <2>4, <3>1, <3>2, SeenOfAVote
  <2>. QED
    BY <2>1, <2>2, <2>3, <2>4
<1>. QED
  BY <1>3, SeenOfAVote, CastErrorIs DEF NoError

(* A chain that moves on can only make a refusal for lack of membership stale.*)
(* (votePreflight.ts windowCheck, alreadyVotedCheck)                          *)
THEOREM OnlyMembershipStale == Spec => []OnlyMembershipGoesStale
<1>1. IInv /\ AnswersInv => OnlyMembershipGoesStale
  BY StaleFollows
<1>. QED
  BY <1>1, AnswersHold, PTL

LEMMA ExactFollows ==
  ASSUME AnswersInv
  PROVE  ExactWhenStill
<1>. DEFINE error == seen["simulation"]
            decided == JudgeVotePreflight(ask.organ, seen)
<1>. SUFFICES ASSUME ToldTo("vote"), ~moved
              PROVE  /\ \A r \in Verdicts :
                          /\ r.disagreement = "none"
                          /\ r.verdict.kind = "READY" => error = NoError
                          /\ r.verdict.kind = "BLOCKED" => /\ error # NoError
                                                           /\ r.verdict.predicted \in {error, Unnamed}
                     /\ ask.organ # "UNKNOWN" => decided.kind # "UNDETERMINED"
  BY DEF ExactWhenStill
<1>1. Mirrors(ask.organ, seen)
  BY DEF AnswersInv, Still
<1>2. error \in {NoError, "NotActiveMember", "VotingNotActive", "AlreadyVoted"}
  BY SeenOfAVote
<1>3. ask.organ # "UNKNOWN" => decided.kind # "UNDETERMINED"
  BY <1>1, SeenOfAVote, ClientSays DEF Mirrors
<1>4. ASSUME NEW r \in Verdicts
      PROVE  /\ r.disagreement = "none"
             /\ r.verdict.kind = "READY" => error = NoError
             /\ r.verdict.kind = "BLOCKED" => error # NoError /\ r.verdict.predicted \in {error, Unnamed}
  <2>1. PICK lost \in SUBSET (VoteReads(ask.organ) \ {"simulation"}),
             simulation \in {error, "absent", "unanswered", "empty"} :
               r = Reconcile(JudgeVotePreflight(ask.organ, Without(lost)), simulation)
    BY DEF Verdicts
  <2>2. PICK client : client = JudgeVotePreflight(ask.organ, Without(lost))
    OBVIOUS
  <2>3. /\ client.kind = "READY" => error = NoError
        /\ client.kind = "BLOCKED" => error # NoError /\ client.predicted \in {error, Unnamed}
    <3>1. PICK a : a = Without(lost)
      OBVIOUS
    <3>2. /\ TypedAnswers(ask.organ, a)
          /\ \A x \in {"active", "finalized", "voted"} : a[x] \in {seen[x], "unread"}
          /\ \A x \in {"member", "chairman"} : a[x] \in {seen[x], "unread"}
      BY <3>1, SomeAreLost
    <3>3. client = JudgeVotePreflight(ask.organ, a)
      BY <2>2, <3>1
    <3>. QED
      BY <1>1, <3>2, <3>3, ClientSays
  <2>4. \/ r.verdict = client /\ r.disagreement = "none"
        \/ r.verdict = Undetermined("VOTING_UNREAD") /\ r.disagreement = "none"
        \/ /\ simulation = NoError /\ r.verdict = Ready
           /\ client.kind # "BLOCKED" => r.disagreement = "none"
        \/ /\ simulation \in {"NotActiveMember", "VotingNotActive", "AlreadyVoted"}
           /\ r.verdict = Blocked(BlockerFor(simulation), simulation)
           /\ /\ client.kind # "READY"
              /\ client.kind = "BLOCKED" => client.predicted \in {Unnamed, simulation}
              => r.disagreement = "none"
    BY <1>2, <2>1, <2>2, ReconciledWith
  <2>5. simulation \in {NoError, "NotActiveMember", "VotingNotActive", "AlreadyVoted"}
          => simulation = error
    BY <2>1 DEF NoError
  <2>6. CASE r.verdict = client /\ r.disagreement = "none"
    BY <2>3, <2>6
  <2>7. CASE r.verdict = Undetermined("VOTING_UNREAD") /\ r.disagreement = "none"
    BY <2>7 DEF Undetermined
  <2>8. CASE /\ simulation = NoError /\ r.verdict = Ready
             /\ client.kind # "BLOCKED" => r.disagreement = "none"
    BY <2>3, <2>5, <2>8 DEF Ready
  <2>9. CASE /\ simulation \in {"NotActiveMember", "VotingNotActive", "AlreadyVoted"}
             /\ r.verdict = Blocked(BlockerFor(simulation), simulation)
             /\ /\ client.kind # "READY"
                /\ client.kind = "BLOCKED" => client.predicted \in {Unnamed, simulation}
                => r.disagreement = "none"
    <3>1. simulation = error /\ error # NoError
      BY <2>5, <2>9 DEF NoError
    <3>2. r.verdict.kind = "BLOCKED" /\ r.verdict.predicted = error
      BY <2>9, <3>1 DEF Blocked
    <3>. QED
      BY <2>3, <2>9, <3>1, <3>2
  <2>. QED
    BY <2>4, <2>6, <2>7, <2>8, <2>9
<1>. QED
  BY <1>3, <1>4

(* When nothing moved between the answers the preflight mirrors the contract, *)
(* whichever reads failed and whatever simulation said.                       *)
(* (votePreflight.ts, authorization.ts, reconcilePreflight.ts)                *)
THEOREM ExactWhenStillHolds == Spec => []ExactWhenStill
<1>1. IInv /\ AnswersInv => ExactWhenStill
  BY ExactFollows
<1>. QED
  BY <1>1, AnswersHold, PTL
=============================================================================
