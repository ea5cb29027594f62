\* One form, for a local organ or the congress, returned unedited or not.
SPECIFICATION Spec
CONSTANTS
  Forms = {f1}
  NoOrgan = NoOrgan
  Organs <- MCScopes
  VotingIds = {1}
  SubjectCodes <- MCSubjectCodes
  Good <- MCGood
  Bad <- MCBad
  Scales = {0, 1, 2}
  MaxU8 = 9
  MaxU64 = 255
  MaxSafe = 500
  MaxU256 = 900
  SimpleMajority <- MCMajority
INVARIANTS
  RecordsBind
CHECK_DEADLOCK FALSE
