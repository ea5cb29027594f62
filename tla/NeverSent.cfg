\* One press of one call and one sweep; the answer of the provider is lost.
SPECIFICATION Spec
CONSTANTS
  Requests = {r1}
  vote = vote
  voting = voting
  thresholds = thresholds
  organ = organ
  Ops = {vote}
  MaxCalls = 1
  NumCalls <- MCNumCalls
  Organs = {organ}
  OrganOf <- MCOrganOf
  NoOrgan = NoOrgan
  Sweeps = {s1}
  SweepsBesideHandlers = FALSE
  Free = Free
  NoOp = NoOp
  NoNonce = NoNonce
  NoOutcome = NoOutcome
  MaxNonce = 2
INVARIANTS
  NeverSentIsOffChain
