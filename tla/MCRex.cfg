SPECIFICATION RexSpec
CONSTANTS
  dist_interval = 1
  total_intervals = 2
  bucket_interval = 1
  Maximum = 20
  MaxTime = 7
  Users = {1, 2}
  b1 = 3
  rex_account = 0
  rex_ratio = 2
  init_total_rent = 1
  UnlentShare = 2
  seconds_per_day = 1
  num_of_maturity_buckets = 2
  RunMax = 1
  FirstOwners = {{}, {2}, {1, 2}}
  FirstPurchase = 6
  Funds = 6
  Staked = 1
  Amounts = {6}
  RexAmounts = {5, 12}
  Fees = {5}
  Rents = {1}
  LoanFunds = {1}
  Keepers = {2}
  Renters = {2}
  Receivers = {1}
  RexexecMax = {2}
  MaxOps = 4
INVARIANT RexIsBacked
INVARIANT PoolAgrees
INVARIANT OrdersAreCovered
INVARIANT YoungRexIsHeld
INVARIANT RexStakeIsVoted
INVARIANT OrdersWaitOneLoan
INVARIANT ReturnsAreOwed
INVARIANT PaidInFull
PROPERTY ValueNeverFalls
CHECK_DEADLOCK FALSE
