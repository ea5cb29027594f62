\* Three forks, three requests, one restart allowed; the application may quit, so it may stop.
SPECIFICATION LiveSpec
CONSTANTS
  MaxForks = 3
  Callers = {c1, c2, c3}
  MaxRestartAttempts = 1
  StartsAgain = TRUE
  NoWorker = NoWorker
INVARIANTS
  OneWorkerLives
  StoppedForGood
  MissingWorkerShows
  RepliesMatch
PROPERTIES
  EveryRequestSettles
CHECK_DEADLOCK FALSE
