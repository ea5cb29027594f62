\* Two forms of any operation, for organs of every scope.
SPECIFICATION Spec
CONSTANTS
  Forms = {f1, f2}
  NoOrgan = NoOrgan
  Organs <- MCOrgans
  VotingIds = {1, 2}
  SubjectCodes <- MCSubjectCodes
  Good <- MCGood
  Bad <- MCBad
  Scales = {0, 1, 2}
  MaxU8 = 9
  MaxU64 = 255
  MaxSafe = 500
  MaxU256 = 900
  SimpleMajority <- MCMajority
SYMMETRY MCSymmetry
INVARIANTS
  FormsMeanWhatTheySay
  OneFormPerProposal
  
CHECK_DEADLOCK FALSE
