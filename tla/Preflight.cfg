\* One voting of two wallets, read at two moments while the chain moves.
SPECIFICATION Spec
CONSTANTS
  Xs = {1}
  Ys = {1}
  NoOrgan = NoOrgan
  NoText = NoText
  founder = founder
  chairman = chairman
  FirstChairman = chairman
  Wallets = {founder, chairman}
  organ = organ
  rival = rival
  text = text
  Organs = {organ, rival}
  Chairperson = Chairperson
  Founders <- MCFounders
  Suggestions <- MCSuggestions
  Settings <- MCSettings
  SimpleMajority <- MCMajority
  Durations = {1}
  MaxVotings = 1
  MaxTime = 2
  Askers = {founder}
  MaxMoments = 2
INVARIANTS
  ExactWhenStill
  OnlyMembershipGoesStale
  ReadinessHolds
  CreationMirrored
