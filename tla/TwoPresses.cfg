\* Two presses, with and without an organ to resolve, and a sweep beside them.
SPECIFICATION Spec
CONSTANTS
  Requests = {r1, r2}
  vote = vote
  voting = voting
  thresholds = thresholds
  organ = organ
  Ops = {vote, voting}
  MaxCalls = 1
  NumCalls <- MCNumCalls
  Organs = {organ}
  OrganOf <- MCOrganOf
  NoOrgan = NoOrgan
  Sweeps = {s1}
  SweepsBesideHandlers = TRUE
  Free = Free
  NoOp = NoOp
  NoNonce = NoNonce
  NoOutcome = NoOutcome
  MaxNonce = 2
SYMMETRY MCSymmetry
INVARIANTS
  PostedIsRecorded
  HashedIsAccepted
  ConfirmedIsMined
  RefusalSentNothing
  OneWriterWithoutOrgans
PROPERTIES
  OnlySweepsRelease
