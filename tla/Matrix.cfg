\* One coordinate of both matrices, windows of two blocks, one confirmation.
SPECIFICATION Spec
CONSTANTS
  Xs = {1}
  Ys = {1}
  NoOrgan = NoOrgan
  NoText = NoText
  organ = organ
  rival = rival
  text = text
  other = other
  Past <- MCPast
  Suggestions <- MCSuggestions
  Asked <- MCAsked
  MaxTransactions = 2
  MaxBlocks = 5
  MaxBusy = 4
  Confirmations = 1
  MaxBlocksPerScan = 2
INVARIANTS
  IndexIsStorage
  CoordinatesSurvive
  OutageIsNotEmpty
  EveryVotingIsDiscovered
  WarningsForetell
