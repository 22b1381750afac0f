SPECIFICATION MCSpec
CONSTANTS
  NoName = NoName
  Voters = {a}
  Producers = {a, p}
  Proxies = {}
  RexOwners = {}
  Factor <- MCFactor
  MaxVotes = 2
  Decays = {1}
  Boosts = {0}
  EvmVotes = {0, 1, 2}
  UINT64 = 8
  MaxStake = 1
  MaxOff = 8
  FirstDecay = 1
  MaxChanges = 2
PROPERTY EvmVotesApplied
CHECK_DEADLOCK FALSE
