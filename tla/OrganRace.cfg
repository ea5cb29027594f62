\* Two presses of operations on one organ; no sweep is needed.
SPECIFICATION Spec
CONSTANTS
  Requests = {r1, r2}
  vote = vote
  voting = voting
  thresholds = thresholds
  organ = organ
  Ops = {voting}
  MaxCalls = 1
  NumCalls <- MCNumCalls
  Organs = {organ}
  OrganOf <- MCOrganOf
  NoOrgan = NoOrgan
  Sweeps = {}
  SweepsBesideHandlers = FALSE
  Free = Free
  NoOp = NoOp
  NoNonce = NoNonce
  NoOutcome = NoOutcome
  MaxNonce = 2
INVARIANTS
  OneWriter
