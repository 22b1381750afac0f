SPECIFICATION Spec
CONSTANTS
  rolling_window_size = 2
  PruneMax = 1
  BatchSizes = {1, 2, 3}
  Producers <- MCProducers
  MAX_PRODUCERS = 2
  Votes = {0, 1}
  Fills <- MCFills
  ClaimPeriod = 4
  Gaps = {2}
  Endowment = 14
  MaxBlocks = 6
  MaxChanges = 1
INVARIANT BpayIsAccounted
INVARIANT SharesAddUp
INVARIANT BatchesAreTrue
PROPERTY SplitWithinBucket
CHECK_DEADLOCK FALSE
