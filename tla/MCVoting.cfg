SPECIFICATION MCSpec
CONSTANTS
  NoName = NoName
  Voters = {a, x}
  Producers = {a, x}
  Proxies = {x}
  RexOwners = {a}
  Factor <- MCFactor
  MaxVotes = 2
  Decays = {1, 2}
  Boosts = {0, 1}
  EvmVotes = {0, 1}
  UINT64 = 2
  MaxStake = 1
  MaxOff = 2
  FirstDecay = 1
  MaxChanges = 2
INVARIANT VotesAreTallied
INVARIANT VotesFollowStake
CONSTRAINT OffBounded
CHECK_DEADLOCK FALSE
