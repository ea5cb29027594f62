\* Three votings of one wallet on one cell of each matrix.
SPECIFICATION ChainSpec
CONSTANTS
  Xs = {1}
  Ys = {1}
  NoOrgan = NoOrgan
  NoText = NoText
  member = member
  FirstChairman = member
  Wallets = {member}
  organ = organ
  rival = rival
  text = text
  Organs = {organ, rival}
  Chairperson = Chairperson
  Founders <- MCFounders
  Suggestions <- MCSuggestions
  Settings <- MCSettings
  SimpleMajority <- MCMajority
  Durations = {0}
  MaxVotings = 3
  MaxTime = 1
INVARIANTS
  VotesAddUp
  CellsComeFromVotings
PROPERTIES
  TerminalIsForever
  VotingsSettle
