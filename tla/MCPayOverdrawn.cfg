SPECIFICATION Spec
CONSTANTS
  rolling_window_size = 2
  PruneMax = 1
  BatchSizes = {1}
  Gaps = {2}
  Producers <- MCProducers
  MAX_PRODUCERS = 2
  Votes = {0, 1}
  Fills <- MCFills
  ClaimPeriod = 4
  Endowment = 14
  MaxBlocks = 2
  MaxChanges = 0
INVARIANT BucketNotOverdrawn
CHECK_DEADLOCK FALSE
