----------------------------- MODULE ZaryaProofs -----------------------------
(* What the contract's votings keep, for every number of wallets, organs,     *)
(* suggestions and votings: ballots add up, and a voting settles.             *)
EXTENDS ZaryaVotings, FiniteSetTheorems, TLAPS

(* A voting starts before it ends, and not in the future; a finalized one is  *)
(* past its end; the voters of each are finitely many.                        *)
Windows ==
  \A v \in Ids : VotingExists(v) =>
    /\ votings[v].start <= now /\ IsFiniteSet(votings[v].voted)
    /\ Executed(v) => now > votings[v].end

IInv == ChainTypeOK /\ Windows /\ VotesAddUp

USE ChainAssumption DEF Ids

-----------------------------------------------------------------------------
(* What a call of up to four guards reverts with is the error of one that     *)
(* fails, and it reverts when one does.                                       *)
LEMMA ErrorOfAGuard ==
  ASSUME NEW n \in 1..4, NEW guards, DOMAIN guards = 1..n, NEW k \in 1..n, guards[k][1]
  PROVE  \E i \in 1..n : guards[i][1] /\ FirstError(guards) = guards[i][2]
<1>. DEFINE Failing(i) == guards[i][1] /\ \A j \in 1..(i - 1) : ~guards[j][1]
<1>1. \E i \in 1..n : Failing(i)
  <2>1. CASE guards[1][1]
    <3>1. Failing(1)
      BY <2>1
    <3>. QED
      BY <3>1
  <2>2. CASE ~guards[1][1] /\ 2 <= n /\ guards[2][1]
    <3>1. Failing(2)
      BY <2>2
    <3>. QED
      BY <2>2, <3>1
  <2>3. CASE ~guards[1][1] /\ ~guards[2][1] /\ 3 <= n /\ guards[3][1]
    <3>1. \A j \in 1..(3 - 1) : j = 1 \/ j = 2
      OBVIOUS
    <3>2. Failing(3)
      BY <2>3, <3>1
    <3>. QED
      BY <2>3, <3>2
  <2>4. CASE ~guards[1][1] /\ ~guards[2][1] /\ ~guards[3][1] /\ 4 <= n /\ guards[4][1]
    <3>1. \A j \in 1..(4 - 1) : j = 1 \/ j = 2 \/ j = 3
      OBVIOUS
    <3>2. Failing(4)
      BY <2>4, <3>1
    <3>. QED
      BY <2>4, <3>2
  <2>5. k = 1 \/ (k = 2 /\ 2 <= n) \/ (k = 3 /\ 3 <= n) \/ (k = 4 /\ 4 <= n)
    OBVIOUS
  <2>. QED
    BY <2>1, <2>2, <2>3, <2>4, <2>5
<1>. QED
  BY <1>1 DEF FirstError

(* A call of three guards that goes through failed none of them.              *)
LEMMA NoGuardFails ==
  ASSUME NEW a \in BOOLEAN, NEW b \in BOOLEAN, NEW c \in BOOLEAN, NEW d, NEW e, NEW f,
         d # NoError, e # NoError, f # NoError,
         FirstError(<< <<a, d>>, <<b, e>>, <<c, f>> >>) = NoError
  PROVE  ~a /\ ~b /\ ~c
<1>. DEFINE guards == << <<a, d>>, <<b, e>>, <<c, f>> >>
<1>1. DOMAIN guards = 1..3 /\ (guards[1][1] <=> a) /\ (guards[2][1] <=> b) /\ (guards[3][1] <=> c)
  OBVIOUS
<1>2. FirstError(guards) = NoError /\ \A i \in 1..3 : guards[i][2] # NoError
  OBVIOUS
<1>. HIDE DEF guards
<1>3. \A k \in 1..3 : ~guards[k][1]
  BY <1>1, <1>2, ErrorOfAGuard
<1>. QED
  BY <1>1, <1>3

(* A vote that goes through is a first vote in an active voting.              *)
LEMMA CastIsFirst ==
  ASSUME NEW v \in Ids, NEW w \in Wallets, CastError(v, w) = NoError
  PROVE  VotingExists(v) /\ IsActive(v) /\ w \notin votings[v].voted
<1>1. VotingExists(v)
  BY DEF CastError, NoError
<1>. DEFINE a == GoverningOrgan(v) # NoOrgan /\ ~IsMemberOrChairman(GoverningOrgan(v), w)
            b == ~IsActive(v)
            c == w \in votings[v].voted
<1>2. FirstError(<< <<a, "NotActiveMember">>, <<b, "VotingNotActive">>, <<c, "AlreadyVoted">> >>)
        = NoError
  BY <1>1 DEF CastError
<1>3. a \in BOOLEAN /\ b \in BOOLEAN /\ c \in BOOLEAN
  OBVIOUS
<1>4. "NotActiveMember" # NoError /\ "VotingNotActive" # NoError /\ "AlreadyVoted" # NoError
  BY DEF NoError
<1>. HIDE DEF a, b, c
<1>5. ~a /\ ~b /\ ~c
  BY <1>2, <1>3, <1>4, NoGuardFails
<1>. QED
  BY <1>1, <1>5 DEF a, b, c

(* An execution that goes through meets the quorum, after the window.         *)
LEMMA ExecutionMeetsQuorum ==
  ASSUME NEW v \in Ids, ExecutionError(v) = NoError
  PROVE  /\ VotingExists(v) /\ ~IsActive(v) /\ votings[v].state # "finalized"
         /\ ~(TotalVotes(v) = 0 \/ TotalVotes(v) < votings[v].params.quorum)
  BY DEF ExecutionError, NoError

-----------------------------------------------------------------------------
LEMMA InitHolds == ChainInit => IInv
<1>. SUFFICES ASSUME ChainInit PROVE IInv
  OBVIOUS
<1>1. ChainTypeOK
  <2>1. NoVoting \notin Voting
    BY DEF NoVoting, Voting
  <2>2. members \in [Organs \cup {Chairperson} -> SUBSET Wallets]
    BY DEF ChainInit
  <2>. QED
    BY <2>1, <2>2 DEF ChainInit, ChainTypeOK, Thresholds, VotingExists
<1>. QED
  BY <1>1 DEF ChainInit, IInv, Windows, VotesAddUp, VotingExists, Executed

(* Votings that are left alone, as time goes on.                              *)
LEMMA VotingsUntouched ==
  ASSUME IInv, votings' = votings, nextVotingId' = nextVotingId, now' \in Nat, now' >= now,
         members' \in [Organs \cup {Chairperson} -> SUBSET Wallets],
         thresholds' \in [Organs -> Thresholds]
  PROVE  IInv'
<1>1. ChainTypeOK'
  BY DEF IInv, ChainTypeOK, VotingExists
<1>2. Windows'
  BY SMTT(30) DEF IInv, ChainTypeOK, Windows, VotingExists, Executed, Voting
<1>3. VotesAddUp'
  BY DEF IInv, VotesAddUp, VotingExists, Executed, TotalVotes
<1>. QED
  BY <1>1, <1>2, <1>3 DEF IInv

LEMMA CreateHolds ==
  ASSUME IInv, NEW w \in Wallets, NEW s \in Suggestions, NEW d \in Durations,
         CreateVoting(w, s, d)
  PROVE  IInv'
<1>. DEFINE id == nextVotingId + 1
            new == [state |-> "open", suggestion |-> s, start |-> now, end |-> now + d,
                    for |-> 0, against |-> 0, voted |-> {}, params |-> EligibilityParams(s)]
<1>1. /\ id \in Ids /\ ~VotingExists(id)
      /\ nextVotingId' = id
      /\ votings' = [votings EXCEPT ![id] = new]
      /\ UNCHANGED <<now, members, thresholds, matricies>>
  BY DEF CreateVoting, IInv, ChainTypeOK, VotingExists
<1>2. new \in Voting
  <2>1. EligibilityParams(s) \in Thresholds
    BY DEF EligibilityParams, IInv, ChainTypeOK, Thresholds
  <2>2. now \in Nat /\ now + d \in Nat
    BY DEF IInv, ChainTypeOK
  <2>. QED
    BY <2>1, <2>2 DEF Voting
<1>3. \A v \in Ids : VotingExists(v)' <=> VotingExists(v) \/ v = id
  BY <1>1 DEF VotingExists, IInv, ChainTypeOK
<1>4. \A v \in Ids : votings'[v] = IF v = id THEN new ELSE votings[v]
  BY <1>1 DEF IInv, ChainTypeOK
<1>. HIDE DEF id
<1>5. ChainTypeOK'
  <2>1. votings' \in [Ids -> Voting \cup {NoVoting}]
    BY <1>1, <1>2 DEF IInv, ChainTypeOK
  <2>2. nextVotingId' \in 0..MaxVotings
    BY <1>1
  <2>. QED
    BY <1>1, <1>2, <1>3, <1>4, <2>1, <2>2 DEF IInv, ChainTypeOK
<1>6. Windows'
  <2>. SUFFICES ASSUME NEW v \in Ids, VotingExists(v)'
                PROVE  /\ votings'[v].start <= now' /\ IsFiniteSet(votings'[v].voted)
                       /\ Executed(v)' => now' > votings'[v].end
    BY DEF Windows
  <2>1. CASE v = id
    BY <1>1, <1>4, <2>1, FS_EmptySet DEF Executed, IInv, ChainTypeOK
  <2>2. CASE v # id
    BY <1>1, <1>3, <1>4, <2>2 DEF Executed, IInv, Windows
  <2>. QED
    BY <2>1, <2>2
<1>7. VotesAddUp'
  <2>. SUFFICES ASSUME NEW v \in Ids, VotingExists(v)'
                PROVE  /\ TotalVotes(v)' = Cardinality(votings'[v].voted)
                       /\ Executed(v)' => TotalVotes(v)' > 0 /\ TotalVotes(v)' >= votings'[v].params.quorum
    BY DEF VotesAddUp
  <2>1. CASE v = id
    <3>1. /\ votings'[v].for = 0 /\ votings'[v].against = 0
          /\ votings'[v].voted = {} /\ votings'[v].state = "open"
      BY <1>4, <2>1
    <3>. QED
      BY <3>1, FS_EmptySet DEF Executed, TotalVotes
  <2>2. CASE v # id
    BY <1>3, <1>4, <2>2 DEF Executed, TotalVotes, IInv, VotesAddUp
  <2>. QED
    BY <2>1, <2>2
<1>. QED
  BY <1>5, <1>6, <1>7 DEF IInv

LEMMA CastHolds ==
  ASSUME IInv, NEW v \in Ids, NEW w \in Wallets, NEW support \in BOOLEAN, CastVote(v, w, support)
  PROVE  IInv'
<1>. DEFINE old == votings[v]
            new == [old EXCEPT !.voted = @ \cup {w},
                               !.for = IF support THEN @ + 1 ELSE @,
                               !.against = IF support THEN @ ELSE @ + 1]
<1>1. VotingExists(v) /\ IsActive(v) /\ w \notin old.voted
  BY CastIsFirst DEF CastVote
<1>2. old \in Voting
  BY <1>1 DEF IInv, ChainTypeOK
<1>3. votings' = [votings EXCEPT ![v] = new]
      /\ UNCHANGED <<now, members, thresholds, nextVotingId, matricies>>
  BY DEF CastVote
<1>4. /\ new \in Voting
      /\ new.state = old.state /\ new.start = old.start /\ new.end = old.end
      /\ new.params = old.params /\ new.voted = old.voted \cup {w}
      /\ new.for + new.against = old.for + old.against + 1
  <2>. DEFINE for == IF support THEN old.for + 1 ELSE old.for
              against == IF support THEN old.against ELSE old.against + 1
  <2>1. old.for \in Nat /\ old.against \in Nat /\ old.voted \subseteq Wallets
    BY <1>2 DEF Voting
  <2>2. for \in Nat /\ against \in Nat /\ for + against = old.for + old.against + 1
    BY <2>1
  <2>3. new = [old EXCEPT !.voted = old.voted \cup {w}, !.for = for, !.against = against]
    OBVIOUS
  <2>. HIDE DEF for, against, new
  <2>4. new \in Voting /\ new.for = for /\ new.against = against
        /\ new.state = old.state /\ new.start = old.start /\ new.end = old.end
        /\ new.params = old.params /\ new.voted = old.voted \cup {w}
    BY <1>2, <2>1, <2>2, <2>3 DEF Voting
  <2>. QED
    BY <2>2, <2>4
<1>5. ~Executed(v)
  BY <1>1, <1>2 DEF IInv, Windows, IsActive, ChainTypeOK, Voting
<1>6. old.state # "finalized" /\ IsFiniteSet(old.voted) /\ old.start <= now
      /\ old.for + old.against = Cardinality(old.voted)
  BY <1>1, <1>5 DEF Executed, IInv, Windows, VotesAddUp, TotalVotes
<1>. HIDE DEF new
<1>7. \A u \in Ids : votings'[u] = IF u = v THEN new ELSE votings[u]
  BY <1>3 DEF IInv, ChainTypeOK
<1>8. \A u \in Ids : VotingExists(u)' <=> VotingExists(u)
  BY <1>3 DEF VotingExists
<1>9. ChainTypeOK'
  <2>1. votings' \in [Ids -> Voting \cup {NoVoting}]
    BY <1>3, <1>4 DEF IInv, ChainTypeOK
  <2>. QED
    BY <1>1, <1>3, <1>4, <1>7, <1>8, <2>1 DEF IInv, ChainTypeOK
<1>10. IsFiniteSet(new.voted) /\ Cardinality(new.voted) = Cardinality(old.voted) + 1
  <2>1. IsFiniteSet(old.voted) /\ w \notin old.voted /\ new.voted = old.voted \cup {w}
    BY <1>1, <1>4, <1>6
  <2>2. /\ IsFiniteSet(old.voted \cup {w})
        /\ Cardinality(old.voted \cup {w}) = IF w \in old.voted THEN Cardinality(old.voted)
                                             ELSE Cardinality(old.voted) + 1
    BY <2>1, FS_AddElement
  <2>. QED
    BY <2>1, <2>2
<1>11. Windows'
  <2>. SUFFICES ASSUME NEW u \in Ids, VotingExists(u)'
                PROVE  /\ votings'[u].start <= now' /\ IsFiniteSet(votings'[u].voted)
                       /\ Executed(u)' => now' > votings'[u].end
    BY DEF Windows
  <2>1. CASE u = v
    BY <1>3, <1>4, <1>6, <1>7, <1>10, <2>1, ZenonT(40) DEF Executed
  <2>2. CASE u # v
    BY <1>3, <1>7, <1>8, <2>2 DEF Executed, IInv, Windows
  <2>. QED
    BY <2>1, <2>2
<1>12. VotesAddUp'
  <2>. SUFFICES ASSUME NEW u \in Ids, VotingExists(u)'
                PROVE  /\ TotalVotes(u)' = Cardinality(votings'[u].voted)
                       /\ Executed(u)' => TotalVotes(u)' > 0 /\ TotalVotes(u)' >= votings'[u].params.quorum
    BY DEF VotesAddUp
  <2>1. CASE u = v
    BY <1>4, <1>6, <1>7, <1>10, <2>1 DEF Executed, TotalVotes
  <2>2. CASE u # v
    BY <1>7, <1>8, <2>2 DEF Executed, TotalVotes, IInv, VotesAddUp
  <2>. QED
    BY <2>1, <2>2
<1>. QED
  BY <1>9, <1>11, <1>12 DEF IInv

LEMMA ExecuteHolds ==
  ASSUME IInv, NEW v \in Ids, ExecuteVoting(v)
  PROVE  IInv'
<1>. DEFINE old == votings[v]
            new == [old EXCEPT !.state = "finalized"]
            s == old.suggestion
<1>1. /\ VotingExists(v) /\ ~IsActive(v)
      /\ ~(TotalVotes(v) = 0 \/ TotalVotes(v) < old.params.quorum)
  BY ExecutionMeetsQuorum DEF ExecuteVoting
<1>2. old \in Voting
  BY <1>1 DEF IInv, ChainTypeOK
<1>3. votings' = [votings EXCEPT ![v] = new] /\ UNCHANGED <<now, thresholds, nextVotingId>>
  BY DEF ExecuteVoting
<1>4. /\ new \in Voting
      /\ new.for = old.for /\ new.against = old.against /\ new.start = old.start
      /\ new.end = old.end /\ new.params = old.params /\ new.voted = old.voted
  BY <1>2 DEF Voting
<1>5. members' \in [Organs \cup {Chairperson} -> SUBSET Wallets]
  <2>1. members \in [Organs \cup {Chairperson} -> SUBSET Wallets] /\ s \in Suggestions
    BY <1>2 DEF IInv, ChainTypeOK, Voting
  <2>2. CASE members' = members
    BY <2>1, <2>2
  <2>3. CASE s.type = "Membership" /\ members' = [members EXCEPT ![s.organ] = @ \cup {s.member}]
    BY <2>1, <2>3 DEF IsOrganGoverned
  <2>4. CASE s.type = "MembershipRevocation" /\ members' = [members EXCEPT ![s.organ] = @ \ {s.member}]
    BY <2>1, <2>4 DEF IsOrganGoverned
  <2>. QED
    BY <2>2, <2>3, <2>4 DEF ExecuteVoting
<1>6. now > old.end /\ old.for + old.against > 0 /\ old.for + old.against >= old.params.quorum
  BY <1>1, <1>2 DEF IsActive, TotalVotes, IInv, Windows, ChainTypeOK, Voting, Thresholds
<1>. HIDE DEF new
<1>7. \A u \in Ids : votings'[u] = IF u = v THEN new ELSE votings[u]
  BY <1>3 DEF IInv, ChainTypeOK
<1>8. \A u \in Ids : VotingExists(u)' <=> VotingExists(u)
  BY <1>3 DEF VotingExists
<1>9. ChainTypeOK'
  <2>1. votings' \in [Ids -> Voting \cup {NoVoting}]
    BY <1>3, <1>4 DEF IInv, ChainTypeOK
  <2>. QED
    BY <1>1, <1>3, <1>4, <1>5, <1>7, <1>8, <2>1 DEF IInv, ChainTypeOK
<1>10. Windows'
  <2>. SUFFICES ASSUME NEW u \in Ids, VotingExists(u)'
                PROVE  /\ votings'[u].start <= now' /\ IsFiniteSet(votings'[u].voted)
                       /\ Executed(u)' => now' > votings'[u].end
    BY DEF Windows
  <2>1. CASE u = v
    BY <1>1, <1>3, <1>4, <1>6, <1>7, <2>1 DEF IInv, Windows
  <2>2. CASE u # v
    BY <1>3, <1>7, <1>8, <2>2 DEF Executed, IInv, Windows
  <2>. QED
    BY <2>1, <2>2
<1>11. VotesAddUp'
  <2>. SUFFICES ASSUME NEW u \in Ids, VotingExists(u)'
                PROVE  /\ TotalVotes(u)' = Cardinality(votings'[u].voted)
                       /\ Executed(u)' => TotalVotes(u)' > 0 /\ TotalVotes(u)' >= votings'[u].params.quorum
    BY DEF VotesAddUp
  <2>1. CASE u = v
    BY <1>1, <1>4, <1>6, <1>7, <2>1 DEF TotalVotes, IInv, VotesAddUp
  <2>2. CASE u # v
    BY <1>7, <1>8, <2>2 DEF Executed, TotalVotes, IInv, VotesAddUp
  <2>. QED
    BY <2>1, <2>2
<1>. QED
  BY <1>9, <1>10, <1>11 DEF IInv

LEMMA SetThresholdHolds ==
  ASSUME IInv, NEW w \in Wallets, NEW setting \in Settings, SetThreshold(w, setting)
  PROVE  IInv'
<1>1. setting.organ \in Organs /\ setting.field \in {"quorum", "percentage", "base"}
      /\ setting.value \in Nat
  OBVIOUS
<1>2. thresholds' \in [Organs -> Thresholds]
  <2>1. thresholds[setting.organ] \in Thresholds
    BY <1>1 DEF IInv, ChainTypeOK
  <2>2. [thresholds[setting.organ] EXCEPT ![setting.field] = setting.value] \in Thresholds
    <3>1. CASE setting.field = "quorum"
      BY <1>1, <2>1, <3>1 DEF Thresholds
    <3>2. CASE setting.field = "percentage"
      BY <1>1, <2>1, <3>2 DEF Thresholds
    <3>3. CASE setting.field = "base"
      BY <1>1, <2>1, <3>3 DEF Thresholds
    <3>. QED
      BY <1>1, <3>1, <3>2, <3>3
  <2>. QED
    BY <1>1, <2>2 DEF SetThreshold, IInv, ChainTypeOK
<1>3. /\ UNCHANGED <<now, members, nextVotingId, votings>> /\ now \in Nat
      /\ members \in [Organs \cup {Chairperson} -> SUBSET Wallets]
  BY DEF SetThreshold, IInv, ChainTypeOK
<1>. QED
  BY <1>2, <1>3, VotingsUntouched

LEMMA TransferHolds ==
  ASSUME IInv, NEW w \in Wallets, NEW successor \in Wallets, TransferChairmanship(w, successor)
  PROVE  IInv'
<1>1. members' \in [Organs \cup {Chairperson} -> SUBSET Wallets]
  BY DEF TransferChairmanship, IInv, ChainTypeOK
<1>. QED
  BY <1>1, VotingsUntouched DEF TransferChairmanship, IInv, ChainTypeOK

LEMMA StepHolds == IInv /\ [ChainNext]_chain => IInv'
<1>. SUFFICES ASSUME IInv, [ChainNext]_chain PROVE IInv'
  OBVIOUS
<1>1. CASE Tick
  BY <1>1, VotingsUntouched DEF Tick, IInv, ChainTypeOK
<1>2. CASE UNCHANGED chain
  BY <1>2, VotingsUntouched DEF chain, IInv, ChainTypeOK
<1>. QED
  BY <1>1, <1>2, CreateHolds, CastHolds, ExecuteHolds, SetThresholdHolds, TransferHolds DEF ChainNext

LEMMA InvHolds == ChainSpec => []IInv
  BY InitHolds, StepHolds, PTL DEF ChainSpec

-----------------------------------------------------------------------------
(* The contract's storage keeps to its types. (Votings.sol, the structs)      *)
THEOREM ChainTypeCorrect == ChainSpec => []ChainTypeOK
<1>1. IInv => ChainTypeOK
  BY DEF IInv
<1>. QED
  BY <1>1, InvHolds, PTL

(* Every vote is counted once, and what was finalized met its quorum, for     *)
(* every number of wallets and votings. (Votings.sol castVote, executeVoting) *)
THEOREM VotesAddUpHolds == ChainSpec => []VotesAddUp
<1>1. IInv => VotesAddUp
  BY DEF IInv
<1>. QED
  BY <1>1, InvHolds, PTL

-----------------------------------------------------------------------------
(* What a step may not change of a voting.                                    *)
Settles ==
  \A v \in Ids :
    VotingExists(v) =>
      LET old == votings[v]
          new == votings'[v]
      IN /\ old.state = "finalized" => new = old
         /\ <<new.suggestion, new.start, new.end, new.params>> =
              <<old.suggestion, old.start, old.end, old.params>>
         /\ now > old.end => <<new.for, new.against, new.voted>> = <<old.for, old.against, old.voted>>

LEMMA StepSettles == IInv /\ [ChainNext]_chain => Settles
<1>. SUFFICES ASSUME IInv, [ChainNext]_chain PROVE Settles
  OBVIOUS
<1>1. votings' = votings => Settles
  BY DEF Settles
<1>2. ASSUME NEW w \in Wallets, NEW s \in Suggestions, NEW d \in Durations, CreateVoting(w, s, d)
      PROVE  Settles
  <2>1. \A v \in Ids : VotingExists(v) => votings'[v] = votings[v]
    BY <1>2 DEF CreateVoting, IInv, ChainTypeOK, VotingExists
  <2>. QED
    BY <2>1 DEF Settles
<1>3. ASSUME NEW u \in Ids, NEW w \in Wallets, NEW support \in BOOLEAN, CastVote(u, w, support)
      PROVE  Settles
  <2>1. VotingExists(u) /\ IsActive(u)
    BY <1>3, CastIsFirst DEF CastVote
  <2>2. votings[u] \in Voting
    BY <2>1 DEF IInv, ChainTypeOK
  <2>3. ~Executed(u) /\ ~(now > votings[u].end)
    BY <2>1, <2>2 DEF IInv, Windows, IsActive, ChainTypeOK, Voting
  <2>4. /\ votings'[u].suggestion = votings[u].suggestion /\ votings'[u].start = votings[u].start
        /\ votings'[u].end = votings[u].end /\ votings'[u].params = votings[u].params
        /\ \A v \in Ids : v # u => votings'[v] = votings[v]
    BY <1>3, <2>2 DEF CastVote, IInv, ChainTypeOK, Voting
  <2>. QED
    BY <2>1, <2>3, <2>4 DEF Executed, Settles
<1>4. ASSUME NEW u \in Ids, ExecuteVoting(u) PROVE Settles
  <2>1. VotingExists(u) /\ votings[u].state # "finalized"
    BY <1>4, ExecutionMeetsQuorum DEF ExecuteVoting
  <2>2. votings[u] \in Voting
    BY <2>1 DEF IInv, ChainTypeOK
  <2>3. /\ votings'[u].suggestion = votings[u].suggestion /\ votings'[u].start = votings[u].start
        /\ votings'[u].end = votings[u].end /\ votings'[u].params = votings[u].params
        /\ votings'[u].for = votings[u].for /\ votings'[u].against = votings[u].against
        /\ votings'[u].voted = votings[u].voted
        /\ \A v \in Ids : v # u => votings'[v] = votings[v]
    BY <1>4, <2>2 DEF ExecuteVoting, IInv, ChainTypeOK, Voting
  <2>. QED
    BY <2>1, <2>3 DEF Settles
<1>5. ASSUME NEW w \in Wallets, NEW setting \in Settings, SetThreshold(w, setting) PROVE Settles
  BY <1>1, <1>5 DEF SetThreshold
<1>6. ASSUME NEW w \in Wallets, NEW successor \in Wallets, TransferChairmanship(w, successor)
      PROVE  Settles
  BY <1>1, <1>6 DEF TransferChairmanship
<1>7. CASE Tick
  BY <1>1, <1>7 DEF Tick
<1>8. CASE UNCHANGED chain
  BY <1>1, <1>8 DEF chain
<1>. QED
  BY <1>2, <1>3, <1>4, <1>5, <1>6, <1>7, <1>8 DEF ChainNext

(* No call changes what a voting was created with, its ballots after the      *)
(* window, or anything of a finalized one. (Votings.sol)                      *)
THEOREM VotingsSettleHolds == ChainSpec => VotingsSettle
<1>1. IInv /\ [ChainNext]_chain => [Settles]_chain
  BY StepSettles
<1>2. [][Settles]_chain <=> VotingsSettle
  BY DEF VotingsSettle, Settles
<1>. QED
  BY <1>1, <1>2, InvHolds, PTL DEF ChainSpec

-----------------------------------------------------------------------------
(* Terminal verdicts. A bound cell keeps its organ.                           *)
Bindings ==
  /\ DOMAIN matricies = {"themes", "statements", "organs", "categories", "decimals", "samples"}
  /\ matricies.organs \in [Cells -> Organs \cup {NoOrgan}]

LEMMA AppliedBinds ==
  ASSUME Bindings, NEW t \in Suggestions, NEW at
  PROVE  /\ DOMAIN Applied(matricies, t, at) = DOMAIN matricies
         /\ Applied(matricies, t, at).organs =
              IF WritesCell(t) THEN [matricies.organs EXCEPT ![CellOf(t)] = t.organ]
              ELSE matricies.organs
<1>1. t.type \in SuggestionTypes
  OBVIOUS
<1>. DEFINE bound == [matricies EXCEPT !.organs[CellOf(t)] = t.organ]
<1>2. DOMAIN bound = DOMAIN matricies
      /\ bound.organs = [matricies.organs EXCEPT ![CellOf(t)] = t.organ]
  BY DEF Bindings
<1>. HIDE DEF bound
<1>3. CASE t.type = "Theme"
  BY <1>3 DEF Applied, WritesCell, Bindings
<1>4. CASE t.type = "Statement"
  BY <1>4 DEF Applied, WritesCell, Bindings
<1>5. CASE t.type = "Category"
  BY <1>2, <1>5 DEF Applied, Bound, WritesCell, Bindings, bound
<1>6. CASE t.type = "Decimals"
  BY <1>2, <1>6 DEF Applied, Bound, WritesCell, Bindings, bound
<1>7. CASE t.type \in {"CategoricalValue", "NumericalValue"}
  BY <1>2, <1>7 DEF Applied, Bound, WritesCell, Bindings, bound
<1>8. CASE t.type \in {"Membership", "MembershipRevocation"}
  BY <1>8 DEF Applied, WritesCell, Bindings
<1>. QED
  BY <1>1, <1>3, <1>4, <1>5, <1>6, <1>7, <1>8 DEF SuggestionTypes

(* The guards a write of a cell runs through: one asks for the cell organ,    *)
(* and only that one gives a terminal error.                                  *)
GuardsOfWrite(m, t, n, guards) ==
  /\ DOMAIN guards = 1..n /\ ApplyError(m, t) = FirstError(guards)
  /\ \A i \in 1..n : guards[i][2] \notin {NoError, "InsufficientVotes", "VotingStillActive"}
  /\ \A i \in 1..n : guards[i][2] = "InvalidOrgan" => (guards[i][1] <=> BoundElsewhere(m, t))
  /\ \E i \in 1..n : guards[i][2] = "InvalidOrgan"

LEMMA WriteHasGuards ==
  ASSUME NEW m, NEW t, WritesCell(t)
  PROVE  \E n \in 1..4 : \E guards : GuardsOfWrite(m, t, n, guards)
<1>. DEFINE b == BoundElsewhere(m, t)
<1>1. CASE t.type = "Category"
  <2>. DEFINE guards == << <<b, "InvalidOrgan">>,
                           <<t.value \in m.categories[PlaceOf(t)], "CategoryAlreadyExists">> >>
  <2>1. DOMAIN guards = 1..2 /\ (guards[1][1] <=> b)
    OBVIOUS
  <2>2. guards[1][2] = "InvalidOrgan" /\ guards[2][2] = "CategoryAlreadyExists"
    OBVIOUS
  <2>3. ApplyError(m, t) = FirstError(guards)
    BY <1>1 DEF ApplyError
  <2>. HIDE DEF guards
  <2>4. GuardsOfWrite(m, t, 2, guards)
    BY <2>1, <2>2, <2>3 DEF GuardsOfWrite, NoError
  <2>. QED
    BY <2>4
<1>2. CASE t.type = "Decimals"
  <2>. DEFINE guards == << <<b, "InvalidOrgan">> >>
  <2>1. DOMAIN guards = 1..1 /\ (guards[1][1] <=> b)
    OBVIOUS
  <2>2. guards[1][2] = "InvalidOrgan"
    OBVIOUS
  <2>3. ApplyError(m, t) = FirstError(guards)
    BY <1>2 DEF ApplyError
  <2>. HIDE DEF guards
  <2>4. GuardsOfWrite(m, t, 1, guards)
    BY <2>1, <2>2, <2>3 DEF GuardsOfWrite, NoError
  <2>. QED
    BY <2>4
<1>3. CASE t.type = "CategoricalValue"
  <2>. DEFINE guards == << <<NoThemeAt(m, t), "NoThemeSet">>,
                           <<NoStatementAt(m, t), "NoStatementSet">>,
                           <<~CategoryAllowed(m, t), "InvalidCategory">>,
                           <<b, "InvalidOrgan">> >>
  <2>1. DOMAIN guards = 1..4 /\ (guards[4][1] <=> b)
    OBVIOUS
  <2>2. guards[1][2] = "NoThemeSet" /\ guards[2][2] = "NoStatementSet" /\ guards[3][2] = "InvalidCategory" /\ guards[4][2] = "InvalidOrgan"
    OBVIOUS
  <2>3. ApplyError(m, t) = FirstError(guards)
    BY <1>3 DEF ApplyError
  <2>. HIDE DEF guards
  <2>4. GuardsOfWrite(m, t, 4, guards)
    BY <2>1, <2>2, <2>3 DEF GuardsOfWrite, NoError
  <2>. QED
    BY <2>4
<1>4. CASE t.type = "NumericalValue"
  <2>. DEFINE guards == << <<NoThemeAt(m, t), "NoThemeSet">>,
                           <<NoStatementAt(m, t), "NoStatementSet">>,
                           <<b, "InvalidOrgan">> >>
  <2>1. DOMAIN guards = 1..3 /\ (guards[3][1] <=> b)
    OBVIOUS
  <2>2. guards[1][2] = "NoThemeSet" /\ guards[2][2] = "NoStatementSet" /\ guards[3][2] = "InvalidOrgan"
    OBVIOUS
  <2>3. ApplyError(m, t) = FirstError(guards)
    BY <1>4 DEF ApplyError
  <2>. HIDE DEF guards
  <2>4. GuardsOfWrite(m, t, 3, guards)
    BY <2>1, <2>2, <2>3 DEF GuardsOfWrite, NoError
  <2>. QED
    BY <2>4
<1>. QED
  BY <1>1, <1>2, <1>3, <1>4 DEF WritesCell

(* A write that goes through is of the organ the cell is bound to, if any.    *)
LEMMA WriteOfItsOrgan ==
  ASSUME NEW m, NEW t, WritesCell(t), BoundElsewhere(m, t)
  PROVE  ApplyError(m, t) # NoError
<1>1. PICK n \in 1..4 : \E guards : GuardsOfWrite(m, t, n, guards)
  BY WriteHasGuards
<1>2. PICK guards : GuardsOfWrite(m, t, n, guards)
  BY <1>1
<1>3. PICK k \in 1..n : guards[k][1]
  BY <1>2 DEF GuardsOfWrite
<1>4. PICK i \in 1..n : FirstError(guards) = guards[i][2]
  BY <1>2, <1>3, ErrorOfAGuard DEF GuardsOfWrite
<1>. QED
  BY <1>2, <1>4 DEF GuardsOfWrite

LEMMA BindingsStep ==
  ASSUME IInv, Bindings, [ChainNext]_chain
  PROVE  /\ Bindings'
         /\ \A s \in Suggestions : WritesCell(s) /\ BoundElsewhere(matricies, s) => BoundElsewhere(matricies', s)
<1>1. CASE UNCHANGED matricies
  BY <1>1 DEF Bindings
<1>2. ASSUME NEW v \in Ids, ExecuteVoting(v), Approved(v)
      PROVE  /\ Bindings'
             /\ \A s \in Suggestions : WritesCell(s) /\ BoundElsewhere(matricies, s) => BoundElsewhere(matricies', s)
  <2>. DEFINE t == votings[v].suggestion
  <2>1. t \in Suggestions
    <3>1. votings[v] \in Voting
      BY <1>2, ExecutionMeetsQuorum DEF ExecuteVoting, IInv, ChainTypeOK
    <3>. QED
      BY <3>1 DEF Voting
  <2>2. matricies' = Applied(matricies, t, now) /\ ApplyError(matricies, t) = NoError
    BY <1>2, ExecutionMeetsQuorum DEF ExecuteVoting, ExecutionError, NoError
  <2>. HIDE DEF t
  <2>3. /\ DOMAIN matricies' = DOMAIN matricies
        /\ matricies'.organs = IF WritesCell(t) THEN [matricies.organs EXCEPT ![CellOf(t)] = t.organ]
                              ELSE matricies.organs
    BY <2>1, <2>2, AppliedBinds
  <2>4. CASE ~WritesCell(t)
    BY <2>3, <2>4 DEF Bindings, BoundElsewhere
  <2>5. CASE WritesCell(t)
    <3>1. t.organ \in Organs /\ matricies.organs[CellOf(t)] \in {NoOrgan, t.organ}
      BY <2>1, <2>2, <2>5, WriteOfItsOrgan DEF WritesCell, IsOrganGoverned, BoundElsewhere
    <3>2. matricies'.organs \in [Cells -> Organs \cup {NoOrgan}]
      BY <2>3, <2>5, <3>1 DEF Bindings
    <3>3. ASSUME NEW s \in Suggestions, WritesCell(s), BoundElsewhere(matricies, s)
          PROVE  BoundElsewhere(matricies', s)
      <4>1. CellOf(s) \in Cells
        BY <3>3 DEF CellOf, Cells, KindOf, Kinds, WritesCell
      <4>2. matricies.organs[CellOf(s)] \notin {NoOrgan, s.organ}
        BY <3>3 DEF BoundElsewhere
      <4>3. CASE CellOf(s) = CellOf(t)
        BY <2>3, <2>5, <3>1, <4>1, <4>2, <4>3 DEF BoundElsewhere, Bindings
      <4>4. CASE CellOf(s) # CellOf(t)
        BY <2>3, <2>5, <4>1, <4>2, <4>4 DEF BoundElsewhere, Bindings
      <4>. QED
        BY <4>3, <4>4
    <3>. QED
      BY <2>3, <3>2, <3>3 DEF Bindings
  <2>. QED
    BY <2>4, <2>5
<1>3. \A v \in Ids : ExecuteVoting(v) => Approved(v) \/ UNCHANGED matricies
  BY DEF ExecuteVoting
<1>4. UNCHANGED matricies \/ \E v \in Ids : ExecuteVoting(v)
  BY DEF ChainNext, CreateVoting, CastVote, SetThreshold, TransferChairmanship, Tick, chain
<1>. QED
  BY <1>1, <1>2, <1>3, <1>4

LEMMA BindingsHold == ChainSpec => []Bindings
<1>1. ChainInit => Bindings
  BY DEF ChainInit, EmptyMatricies, Bindings
<1>2. IInv /\ Bindings /\ [ChainNext]_chain => Bindings'
  BY BindingsStep
<1>. QED
  BY <1>1, <1>2, InvHolds, PTL DEF ChainSpec

(* A suggestion whose application reverts with a terminal error writes a     *)
(* cell another organ is bound to.                                            *)
LEMMA TerminalWrite ==
  ASSUME NEW m, NEW t, t.type \in SuggestionTypes,
         ApplyError(m, t) \in {"InsufficientVotes", "InvalidOrgan"}
  PROVE  WritesCell(t) /\ BoundElsewhere(m, t)
<1>1. WritesCell(t)
  <2>1. CASE t.type = "Statement"
    <3>. DEFINE guards == << <<NoThemeAt(m, t), "NoThemeSet">> >>
    <3>1. DOMAIN guards = 1..1 /\ guards[1][2] = "NoThemeSet"
      OBVIOUS
    <3>2. ApplyError(m, t) = FirstError(guards)
      BY <2>1 DEF ApplyError
    <3>. HIDE DEF guards
    <3>3. PICK k \in 1..1 : guards[k][1]
      BY <3>1, <3>2 DEF FirstError, NoError
    <3>4. PICK i \in 1..1 : FirstError(guards) = guards[i][2]
      BY <3>1, <3>3, ErrorOfAGuard
    <3>. QED
      BY <3>1, <3>2, <3>4
  <2>2. CASE t.type \in {"Theme", "Membership", "MembershipRevocation"}
    BY <2>2 DEF ApplyError, NoError
  <2>. QED
    BY <2>1, <2>2 DEF WritesCell, SuggestionTypes
<1>2. PICK n \in 1..4 : \E guards : GuardsOfWrite(m, t, n, guards)
  BY <1>1, WriteHasGuards
<1>3. PICK guards : GuardsOfWrite(m, t, n, guards)
  BY <1>2
<1>4. PICK k \in 1..n : guards[k][1]
  BY <1>3 DEF GuardsOfWrite, FirstError, NoError
<1>5. PICK i \in 1..n : guards[i][1] /\ FirstError(guards) = guards[i][2]
  BY <1>3, <1>4, ErrorOfAGuard DEF GuardsOfWrite
<1>. QED
  BY <1>1, <1>3, <1>5 DEF GuardsOfWrite

(* Why an execution that reverts for good does.                               *)
NeverExecutes(v) ==
  /\ VotingExists(v) /\ now > votings[v].end /\ votings[v].state # "finalized"
  /\ \/ TotalVotes(v) = 0 \/ TotalVotes(v) < votings[v].params.quorum
     \/ /\ Approved(v) /\ WritesCell(votings[v].suggestion)
        /\ BoundElsewhere(matricies, votings[v].suggestion)

LEMMA TerminalMeansNever ==
  ASSUME IInv, NEW v \in Ids, IsTerminal(CallOutcome(ExecutionError(v)))
  PROVE  NeverExecutes(v)
<1>1. ExecutionError(v) \in {"InsufficientVotes", "InvalidOrgan"}
  <2>. DEFINE error == ExecutionError(v)
  <2>1. CallOutcome(error).kind = "REVERTED" /\ CallOutcome(error).disposition = "TERMINAL"
    BY DEF IsTerminal
  <2>. HIDE DEF error
  <2>2. error \in PublishedErrors \cup UnpublishedErrors /\ Disposition(error) = "TERMINAL"
    BY <2>1 DEF CallOutcome, PublishedErrors, UnpublishedErrors
  <2>3. error \in {"InsufficientVotes", "InvalidOrgan"}
    BY <2>2 DEF Disposition
  <2>. QED
    BY <2>3 DEF error
<1>2. VotingExists(v) /\ ~IsActive(v) /\ votings[v].state # "finalized"
  BY <1>1 DEF ExecutionError
<1>3. votings[v] \in Voting
  BY <1>2 DEF IInv, ChainTypeOK
<1>4. now > votings[v].end
  BY <1>2, <1>3 DEF IInv, ChainTypeOK, Windows, IsActive, Voting
<1>5. CASE TotalVotes(v) = 0 \/ TotalVotes(v) < votings[v].params.quorum
  BY <1>2, <1>4, <1>5 DEF NeverExecutes
<1>6. CASE ~(TotalVotes(v) = 0 \/ TotalVotes(v) < votings[v].params.quorum)
  <2>1. Approved(v) /\ ApplyError(matricies, votings[v].suggestion) = ExecutionError(v)
    BY <1>1, <1>2, <1>6 DEF ExecutionError, NoError
  <2>2. votings[v].suggestion.type \in SuggestionTypes
    BY <1>3 DEF Voting
  <2>. QED
    BY <1>1, <1>2, <1>4, <2>1, <2>2, TerminalWrite DEF NeverExecutes
<1>. QED
  BY <1>5, <1>6

LEMMA NeverMeansError ==
  ASSUME NEW v \in Ids, VotingExists(v), votings[v].state = "finalized" \/ NeverExecutes(v)
  PROVE  ExecutionError(v) # NoError
<1>1. CASE votings[v].state = "finalized"
  BY <1>1 DEF ExecutionError, NoError
<1>2. CASE NeverExecutes(v)
  BY <1>2, WriteOfItsOrgan DEF ExecutionError, NoError, NeverExecutes
<1>. QED
  BY <1>1, <1>2

LEMMA NeverStep ==
  ASSUME IInv, Bindings, [ChainNext]_chain, NEW v \in Ids, NeverExecutes(v)
  PROVE  VotingExists(v)' /\ (votings'[v].state = "finalized" \/ NeverExecutes(v)')
<1>1. VotingExists(v) /\ votings[v] \in Voting
  BY DEF NeverExecutes, IInv, ChainTypeOK
<1>2. now \in Nat /\ now' \in Nat /\ now' >= now
  <2>1. now \in Nat
    BY DEF IInv, ChainTypeOK
  <2>2. now' = now \/ now' = now + 1
    BY DEF ChainNext, CreateVoting, CastVote, ExecuteVoting, SetThreshold, TransferChairmanship,
           Tick, chain
  <2>. QED
    BY <2>1, <2>2
<1>3. VotingExists(v)'
  <2>1. nextVotingId' = nextVotingId \/ nextVotingId' = nextVotingId + 1
    BY DEF ChainNext, CreateVoting, CastVote, ExecuteVoting, SetThreshold, TransferChairmanship,
           Tick, chain
  <2>. QED
    BY <1>1, <2>1 DEF VotingExists, IInv, ChainTypeOK
<1>4. votings'[v] \in Voting
  BY <1>3, StepHolds DEF IInv, ChainTypeOK
<1>5. /\ votings'[v].suggestion = votings[v].suggestion /\ votings'[v].end = votings[v].end
      /\ votings'[v].params = votings[v].params
      /\ votings'[v].for = votings[v].for /\ votings'[v].against = votings[v].against
  BY <1>1, StepSettles DEF Settles, NeverExecutes
<1>6. now' > votings'[v].end
  BY <1>1, <1>2, <1>5 DEF NeverExecutes, Voting
<1>7. TotalVotes(v)' = TotalVotes(v) /\ (Approved(v)' <=> Approved(v))
  BY <1>5 DEF TotalVotes, Approved
<1>8. WritesCell(votings[v].suggestion) /\ BoundElsewhere(matricies, votings[v].suggestion)
      => BoundElsewhere(matricies', votings[v].suggestion)
  BY <1>1, BindingsStep DEF Voting
<1>. QED
  BY <1>3, <1>5, <1>6, <1>7, <1>8 DEF NeverExecutes

(* Whatever is voted, set or executed besides, an execution the client calls  *)
(* terminal never goes through, for every number of organs, votings and cells.*)
(* (contractErrors.ts, Votings.sol executeVoting, Matricies.sol)              *)
THEOREM TerminalIsForeverHolds == ChainSpec => TerminalIsForever
<1>. DEFINE Stays == \A v \in Ids : IsTerminal(CallOutcome(ExecutionError(v))) => ExecutionError(v)' # NoError
<1>1. IInv /\ Bindings /\ [ChainNext]_chain => [Stays]_chain
  <2>. SUFFICES ASSUME IInv, Bindings, [ChainNext]_chain, NEW v \in Ids,
                       IsTerminal(CallOutcome(ExecutionError(v)))
                PROVE  ExecutionError(v)' # NoError
    OBVIOUS
  <2>1. NeverExecutes(v)
    BY TerminalMeansNever
  <2>2. VotingExists(v)' /\ (votings'[v].state = "finalized" \/ NeverExecutes(v)')
    BY <2>1, NeverStep
  <2>3. (VotingExists(v) /\ (votings[v].state = "finalized" \/ NeverExecutes(v))
           => ExecutionError(v) # NoError)'
    BY NeverMeansError, PTL
  <2>. QED
    BY <2>2, <2>3
<1>2. [][Stays]_chain <=> TerminalIsForever
  BY DEF TerminalIsForever
<1>. QED
  BY <1>1, <1>2, InvHolds, BindingsHold, PTL DEF ChainSpec

-----------------------------------------------------------------------------
(* Where what is in a cell comes from. The places of the categories.          *)
Placed == DOMAIN matricies.categories = Xs \X Ys

LEMMA AppliedPlaces ==
  ASSUME Bindings, NEW t \in Suggestions, NEW at
  PROVE  Applied(matricies, t, at).categories =
           IF t.type = "Category" THEN [matricies.categories EXCEPT ![PlaceOf(t)] = @ \cup {t.value}]
           ELSE matricies.categories
<1>1. t.type \in SuggestionTypes
  OBVIOUS
<1>. DEFINE bound == Bound(matricies, t)
<1>2. DOMAIN bound = DOMAIN matricies /\ bound.categories = matricies.categories
  BY DEF Bound, Bindings
<1>. HIDE DEF bound
<1>3. CASE t.type \in {"Theme", "Statement"}
  BY <1>3 DEF Applied, Bindings
<1>4. CASE t.type = "Category"
  <2>1. Applied(matricies, t, at) = [bound EXCEPT !.categories[PlaceOf(t)] = @ \cup {t.value}]
    BY <1>4 DEF Applied, bound
  <2>. QED
    BY <1>2, <1>4, <2>1 DEF Bindings
<1>5. CASE t.type = "Decimals"
  <2>1. Applied(matricies, t, at) = [bound EXCEPT !.decimals[PlaceOf(t)] = t.value]
    BY <1>5 DEF Applied, bound
  <2>. QED
    BY <1>2, <1>5, <2>1 DEF Bindings
<1>6. CASE t.type \in {"CategoricalValue", "NumericalValue"}
  <2>1. Applied(matricies, t, at) = [bound EXCEPT !.samples[CellOf(t)] = Push(@, at, t.value)]
    BY <1>6 DEF Applied, bound
  <2>. QED
    BY <1>2, <1>6, <2>1 DEF Bindings
<1>7. CASE t.type \in {"Membership", "MembershipRevocation"}
  BY <1>7 DEF Applied
<1>. QED
  BY <1>1, <1>3, <1>4, <1>5, <1>6, <1>7 DEF SuggestionTypes

(* Only its execution makes a voting pass, and what passed is as it was.      *)
LEMMA OnlyExecutionPasses ==
  ASSUME IInv, [ChainNext]_chain, NEW v \in Ids, ~ExecuteVoting(v)
  PROVE  /\ Passed(v)' <=> Passed(v)
         /\ Passed(v) => votings'[v] = votings[v]
<1>1. Executed(v) => votings'[v] = votings[v]
  BY StepSettles DEF Settles, Executed
<1>2. VotingExists(v) => VotingExists(v)'
  <2>1. nextVotingId' = nextVotingId \/ nextVotingId' = nextVotingId + 1
    BY DEF ChainNext, CreateVoting, CastVote, ExecuteVoting, SetThreshold, TransferChairmanship,
           Tick, chain
  <2>. QED
    BY <2>1 DEF VotingExists, IInv, ChainTypeOK
<1>3. Executed(v)' => Executed(v)
  <2>1. CASE UNCHANGED <<votings, nextVotingId>>
    BY <2>1 DEF Executed, VotingExists
  <2>2. ASSUME NEW w \in Wallets, NEW s \in Suggestions, NEW d \in Durations, CreateVoting(w, s, d),
               Executed(v)'
        PROVE  Executed(v)
    <3>1. votings'[v].state = "finalized" /\ VotingExists(v)' /\ nextVotingId \in Nat
      BY <2>2 DEF Executed, IInv, ChainTypeOK
    <3>2. v # nextVotingId + 1
      BY <2>2, <3>1 DEF CreateVoting, IInv, ChainTypeOK
    <3>. QED
      BY <2>2, <3>1, <3>2 DEF CreateVoting, Executed, VotingExists, IInv, ChainTypeOK
  <2>3. ASSUME NEW u \in Ids, NEW w \in Wallets, NEW support \in BOOLEAN, CastVote(u, w, support)
        PROVE  Executed(v)' => Executed(v)
    <3>1. nextVotingId' = nextVotingId /\ votings'[v].state = votings[v].state
      <4>1. CASE u = v
        <5>1. votings[v] \in Voting
          BY <2>3, <4>1, CastIsFirst DEF CastVote, IInv, ChainTypeOK
        <5>. DEFINE old == votings[v]
                    new == [old EXCEPT !.voted = @ \cup {w},
                                       !.for = IF support THEN @ + 1 ELSE @,
                                       !.against = IF support THEN @ ELSE @ + 1]
        <5>2. new.state = old.state
          BY <5>1 DEF Voting
        <5>3. votings' = [votings EXCEPT ![v] = new] /\ nextVotingId' = nextVotingId
          BY <2>3, <4>1 DEF CastVote
        <5>. HIDE DEF new
        <5>. QED
          BY <5>2, <5>3 DEF IInv, ChainTypeOK
      <4>2. CASE u # v
        BY <2>3, <4>2 DEF CastVote, IInv, ChainTypeOK
      <4>. QED
        BY <4>1, <4>2
    <3>. QED
      BY <3>1 DEF Executed, VotingExists
  <2>4. ASSUME NEW u \in Ids, ExecuteVoting(u)
        PROVE  Executed(v)' => Executed(v)
    <3>1. u # v
      BY <2>4
    <3>2. nextVotingId' = nextVotingId /\ votings'[v] = votings[v]
      BY <2>4, <3>1 DEF ExecuteVoting, IInv, ChainTypeOK
    <3>. QED
      BY <3>2 DEF Executed, VotingExists
  <2>5. ASSUME NEW w \in Wallets, NEW setting \in Settings, SetThreshold(w, setting)
        PROVE  UNCHANGED <<votings, nextVotingId>>
    BY <2>5 DEF SetThreshold
  <2>6. ASSUME NEW w \in Wallets, NEW successor \in Wallets, TransferChairmanship(w, successor)
        PROVE  UNCHANGED <<votings, nextVotingId>>
    BY <2>6 DEF TransferChairmanship
  <2>7. Tick \/ UNCHANGED chain => UNCHANGED <<votings, nextVotingId>>
    BY DEF Tick, chain
  <2>. QED
    BY <2>1, <2>2, <2>3, <2>4, <2>5, <2>6, <2>7 DEF ChainNext
<1>. QED
  BY <1>1, <1>2, <1>3 DEF Passed, Executed, Approved, TotalVotes

(* A voting that passes did not before, and its suggestion was applied.       *)
LEMMA ExecutionPasses ==
  ASSUME IInv, NEW v \in Ids, ExecuteVoting(v)
  PROVE  /\ votings[v].suggestion \in Suggestions
         /\ votings'[v].suggestion = votings[v].suggestion
         /\ ~Passed(v) /\ (Passed(v)' <=> Approved(v))
         /\ Approved(v) => /\ ApplyError(matricies, votings[v].suggestion) = NoError
                           /\ matricies' = Applied(matricies, votings[v].suggestion, now)
         /\ ~Approved(v) => matricies' = matricies
         /\ \A u \in Ids : u # v => ~ExecuteVoting(u)
<1>1. VotingExists(v) /\ votings[v].state # "finalized"
  BY ExecutionMeetsQuorum DEF ExecuteVoting
<1>2. votings[v] \in Voting
  BY <1>1 DEF IInv, ChainTypeOK
<1>. DEFINE old == votings[v]
            new == [old EXCEPT !.state = "finalized"]
<1>3. /\ new.suggestion = old.suggestion /\ new.for = old.for /\ new.against = old.against
      /\ new.params = old.params /\ new.state = "finalized"
  BY <1>2 DEF Voting
<1>. HIDE DEF new
<1>4. votings'[v] = new /\ nextVotingId' = nextVotingId
  BY DEF ExecuteVoting, new, IInv, ChainTypeOK
<1>5. Approved(v)' <=> Approved(v)
  BY <1>3, <1>4 DEF Approved, TotalVotes
<1>6. Passed(v)' <=> Approved(v)
  BY <1>1, <1>3, <1>4, <1>5 DEF Passed, Executed, VotingExists
<1>7. ASSUME NEW u \in Ids, u # v PROVE ~ExecuteVoting(u)
  <2>1. votings'[u] = votings[u]
    BY <1>7 DEF ExecuteVoting, IInv, ChainTypeOK
  <2>. SUFFICES ASSUME ExecuteVoting(u) PROVE FALSE
    OBVIOUS
  <2>2. votings'[u].state = "finalized" /\ votings[u].state # "finalized"
    <3>1. votings[u] \in Voting
      BY ExecutionMeetsQuorum DEF ExecuteVoting, IInv, ChainTypeOK
    <3>. QED
      BY <3>1, ExecutionMeetsQuorum DEF ExecuteVoting, Voting, IInv, ChainTypeOK
  <2>. QED
    BY <2>1, <2>2
<1>8. ApplyError(matricies, votings[v].suggestion) = NoError \/ ~Approved(v)
  BY ExecutionMeetsQuorum DEF ExecuteVoting, ExecutionError, NoError
<1>. QED
  BY <1>1, <1>2, <1>3, <1>4, <1>6, <1>7, <1>8 DEF ExecuteVoting, Passed, Executed, Voting

(* What one cell is, given the votings.                                       *)
OneCellComes(k, x, y) ==
  /\ matricies.organs[<<k, x, y>>] = NoOrgan <=> Writers(k, x, y) = {}
  /\ \A v \in Writers(k, x, y) : votings[v].suggestion.organ = matricies.organs[<<k, x, y>>]
  /\ matricies.categories[<<x, y>>] =
       {votings[v].suggestion.value :
          v \in {u \in Writers("CATEGORICAL", x, y) : votings[u].suggestion.type = "Category"}}

CellsInv == Placed /\ \A k \in Kinds, x \in Xs, y \in Ys : OneCellComes(k, x, y)

LEMMA CellsUntouched ==
  ASSUME CellsInv, matricies' = matricies,
         \A v \in Ids : (Passed(v)' <=> Passed(v)) /\ (Passed(v) => votings'[v] = votings[v])
  PROVE  CellsInv'
<1>1. \A k \in Kinds, x \in Xs, y \in Ys : Writers(k, x, y)' = Writers(k, x, y)
  BY DEF Writers
<1>2. \A k \in Kinds, x \in Xs, y \in Ys : \A v \in Writers(k, x, y) : votings'[v] = votings[v]
  BY DEF Writers
<1>. SUFFICES ASSUME NEW k \in Kinds, NEW x \in Xs, NEW y \in Ys
              PROVE  OneCellComes(k, x, y)'
  BY DEF CellsInv, Placed
<1>3. OneCellComes(k, x, y)
  BY DEF CellsInv
<1>4. "CATEGORICAL" \in Kinds
  BY DEF Kinds
<1>. DEFINE W == Writers(k, x, y)
            C == Writers("CATEGORICAL", x, y)
<1>5. W' = W /\ C' = C /\ \A v \in W \cup C : votings'[v] = votings[v]
  BY <1>1, <1>2, <1>4
<1>. QED
  BY <1>3, <1>5 DEF OneCellComes

LEMMA CellsWritten ==
  ASSUME IInv, Bindings, CellsInv, NEW v \in Ids, ExecuteVoting(v), Approved(v),
         \A u \in Ids \ {v} : (Passed(u)' <=> Passed(u)) /\ (Passed(u) => votings'[u] = votings[u])
  PROVE  CellsInv'
<1>. DEFINE t == votings[v].suggestion
            addressed(k, x, y) == WritesCell(t) /\ k = KindOf(t) /\ x = t.x /\ y = t.y
<1>1. /\ t \in Suggestions /\ votings'[v].suggestion = t /\ ~Passed(v) /\ Passed(v)'
      /\ ApplyError(matricies, t) = NoError /\ matricies' = Applied(matricies, t, now)
  BY ExecutionPasses
<1>. HIDE DEF t
<1>2. matricies'.organs = IF WritesCell(t) THEN [matricies.organs EXCEPT ![CellOf(t)] = t.organ]
                          ELSE matricies.organs
  BY <1>1, AppliedBinds
<1>3. matricies'.categories =
        IF t.type = "Category" THEN [matricies.categories EXCEPT ![PlaceOf(t)] = @ \cup {t.value}]
        ELSE matricies.categories
  BY <1>1, AppliedPlaces
<1>4. WritesCell(t) => /\ KindOf(t) \in Kinds /\ t.x \in Xs /\ t.y \in Ys
                       /\ t.organ \in Organs /\ t.organ # NoOrgan
                       /\ matricies.organs[CellOf(t)] \in {NoOrgan, t.organ}
  <2>. SUFFICES ASSUME WritesCell(t)
                PROVE  /\ KindOf(t) \in Kinds /\ t.x \in Xs /\ t.y \in Ys
                       /\ t.organ \in Organs /\ t.organ # NoOrgan
                       /\ matricies.organs[CellOf(t)] \in {NoOrgan, t.organ}
    OBVIOUS
  <2>1. KindOf(t) \in Kinds
    BY DEF KindOf, Kinds, WritesCell
  <2>2. t.organ \in Organs /\ t.organ # NoOrgan /\ t.x \in Xs /\ t.y \in Ys
    BY <1>1 DEF WritesCell, IsOrganGoverned
  <2>3. matricies.organs[CellOf(t)] \in {NoOrgan, t.organ}
    BY <1>1, WriteOfItsOrgan DEF BoundElsewhere
  <2>. QED
    BY <2>1, <2>2, <2>3
<1>5. Placed'
  BY <1>3 DEF CellsInv, Placed
<1>6. ASSUME NEW k \in Kinds, NEW x \in Xs, NEW y \in Ys
      PROVE  /\ Writers(k, x, y)' = Writers(k, x, y) \cup (IF addressed(k, x, y) THEN {v} ELSE {})
             /\ \A u \in Writers(k, x, y) : u # v /\ votings'[u] = votings[u]
  <2>1. \A u \in Ids : u # v => (u \in Writers(k, x, y)' <=> u \in Writers(k, x, y))
    BY DEF Writers
  <2>2. v \notin Writers(k, x, y)
    BY <1>1 DEF Writers
  <2>3. v \in Writers(k, x, y)' <=> addressed(k, x, y)
    BY <1>1 DEF Writers
  <2>4. Writers(k, x, y) \subseteq Ids /\ Writers(k, x, y)' \subseteq Ids
    BY DEF Writers
  <2>5. \A u \in Writers(k, x, y) : Passed(u)
    BY DEF Writers
  <2>. HIDE DEF addressed
  <2>. QED
    BY <2>1, <2>2, <2>3, <2>4, <2>5
<1>7. ASSUME NEW k \in Kinds, NEW x \in Xs, NEW y \in Ys
      PROVE  matricies'.organs[<<k, x, y>>] =
               IF addressed(k, x, y) THEN t.organ ELSE matricies.organs[<<k, x, y>>]
  BY <1>2, <1>4 DEF Bindings, Cells, CellOf
<1>8. ASSUME NEW x \in Xs, NEW y \in Ys
      PROVE  matricies'.categories[<<x, y>>] =
               matricies.categories[<<x, y>>]
               \cup (IF t.type = "Category" /\ addressed("CATEGORICAL", x, y) THEN {t.value} ELSE {})
  <2>1. t.type = "Category" => WritesCell(t) /\ KindOf(t) = "CATEGORICAL"
    BY DEF WritesCell, KindOf
  <2>. QED
    BY <1>3, <1>4, <2>1 DEF CellsInv, Placed, PlaceOf
<1>. SUFFICES ASSUME NEW k \in Kinds, NEW x \in Xs, NEW y \in Ys
              PROVE  OneCellComes(k, x, y)'
  BY <1>5 DEF CellsInv
<1>9. OneCellComes(k, x, y) /\ "CATEGORICAL" \in Kinds
  BY DEF CellsInv, Kinds
<1>10. /\ matricies'.organs[<<k, x, y>>] = NoOrgan <=> Writers(k, x, y)' = {}
       /\ \A u \in Writers(k, x, y)' : votings'[u].suggestion.organ = matricies'.organs[<<k, x, y>>]
  <2>1. CASE addressed(k, x, y)
    <3>1. \A u \in Writers(k, x, y) : votings'[u].suggestion.organ = t.organ
      BY <1>4, <1>6, <1>9, <2>1 DEF OneCellComes, CellOf
    <3>. QED
      BY <1>1, <1>4, <1>6, <1>7, <2>1, <3>1
  <2>2. CASE ~addressed(k, x, y)
    BY <1>6, <1>7, <1>9, <2>2 DEF OneCellComes
  <2>. QED
    BY <2>1, <2>2
<1>11. matricies'.categories[<<x, y>>] =
         {votings'[u].suggestion.value :
            u \in {w \in Writers("CATEGORICAL", x, y)' : votings'[w].suggestion.type = "Category"}}
  <2>. DEFINE W == Writers("CATEGORICAL", x, y)
  <2>1. W' = W \cup (IF addressed("CATEGORICAL", x, y) THEN {v} ELSE {})
    BY <1>6, <1>9
  <2>2. \A u \in W : u # v /\ votings'[u] = votings[u]
    BY <1>6, <1>9
  <2>3. matricies.categories[<<x, y>>] =
          {votings[u].suggestion.value : u \in {w \in W : votings[w].suggestion.type = "Category"}}
    BY <1>9 DEF OneCellComes
  <2>. HIDE DEF W, addressed
  <2>4. {votings'[u].suggestion.value : u \in {w \in W' : votings'[w].suggestion.type = "Category"}}
        = {votings[u].suggestion.value : u \in {w \in W : votings[w].suggestion.type = "Category"}}
          \cup (IF t.type = "Category" /\ addressed("CATEGORICAL", x, y) THEN {t.value} ELSE {})
    BY <1>1, <2>1, <2>2
  <2>. QED
    BY <1>8, <2>3, <2>4 DEF W
<1>. QED
  BY <1>10, <1>11 DEF OneCellComes

LEMMA CellsStep ==
  ASSUME IInv, Bindings, CellsInv, [ChainNext]_chain
  PROVE  CellsInv'
<1>1. \A v \in Ids : ~ExecuteVoting(v)
        => (Passed(v)' <=> Passed(v)) /\ (Passed(v) => votings'[v] = votings[v])
  BY OnlyExecutionPasses
<1>2. ASSUME NEW v \in Ids, ExecuteVoting(v)
      PROVE  CellsInv'
  <2>1. \A u \in Ids \ {v} : (Passed(u)' <=> Passed(u)) /\ (Passed(u) => votings'[u] = votings[u])
    BY <1>1, <1>2, ExecutionPasses
  <2>2. CASE Approved(v)
    BY <1>2, <2>1, <2>2, CellsWritten
  <2>3. CASE ~Approved(v)
    <3>1. ~Passed(v) /\ ~Passed(v)' /\ matricies' = matricies
      BY <1>2, <2>3, ExecutionPasses
    <3>. QED
      BY <2>1, <3>1, CellsUntouched
  <2>. QED
    BY <2>2, <2>3
<1>3. CASE \A v \in Ids : ~ExecuteVoting(v)
  <2>1. matricies' = matricies
    BY <1>3 DEF ChainNext, CreateVoting, CastVote, SetThreshold, TransferChairmanship, Tick, chain
  <2>. QED
    BY <1>1, <1>3, <2>1, CellsUntouched
<1>. QED
  BY <1>2, <1>3

LEMMA CellsInit == ChainInit => CellsInv
<1>. SUFFICES ASSUME ChainInit PROVE CellsInv
  OBVIOUS
<1>1. \A k, x, y : Writers(k, x, y) = {}
  BY DEF Writers, Passed, Executed, VotingExists, ChainInit
<1>2. matricies = EmptyMatricies
  BY DEF ChainInit
<1>3. /\ matricies.organs = [cell \in Cells |-> NoOrgan]
      /\ matricies.categories = [place \in Xs \X Ys |-> {}]
  BY <1>2 DEF EmptyMatricies
<1>. QED
  BY <1>1, <1>3 DEF CellsInv, Placed, OneCellComes, Cells

LEMMA CellsHold == ChainSpec => []CellsInv
<1>1. IInv /\ Bindings /\ CellsInv /\ [ChainNext]_chain => CellsInv'
  BY CellsStep
<1>. QED
  BY <1>1, CellsInit, InvHolds, BindingsHold, PTL DEF ChainSpec

(* Whatever is proposed, voted and executed in whatever order, a cell is      *)
(* bound to the organ of every passed voting that wrote it and to none        *)
(* otherwise, and its categories are those that passed.                       *)
(* (Matricies.sol addValue, addCategory, setDecimals)                         *)
THEOREM CellsComeHolds == ChainSpec => []CellsComeFromVotings
<1>1. CellsInv => CellsComeFromVotings
  BY DEF CellsInv, CellsComeFromVotings, OneCellComes
<1>. QED
  BY <1>1, CellsHold, PTL
=============================================================================
