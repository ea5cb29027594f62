\* One threshold configuration of two calls, a sweep beside it, a worker that stops crashing.
SPECIFICATION LiveSpec
CONSTANTS
  Requests = {r1}
  vote = vote
  voting = voting
  thresholds = thresholds
  organ = organ
  Ops = {thresholds}
  MaxCalls = 2
  NumCalls <- MCNumCalls
  Organs = {organ}
  OrganOf <- MCOrganOf
  NoOrgan = NoOrgan
  Sweeps = {s1}
  SweepsBesideHandlers = TRUE
  Free = Free
  NoOp = NoOp
  NoNonce = NoNonce
  NoOutcome = NoOutcome
  MaxNonce = 2
INVARIANTS
  RepliesTellHowFar
  CallsMinedInOrder
PROPERTIES
  ImplementsWriteLedger
  EveryPressEnds
