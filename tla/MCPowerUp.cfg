SPECIFICATION Spec
CONSTANTS
  Users = {1, 2}
  reserve_account = 0
  Natives = {0, 2}
  RamBuyers = {2}
  Borrowers = {2}
  Loans = {1}
  Handled = {0, 2}
  FixedLimits = {3}
  powerup_frac = 8
  default_target = 1
  default_days = 2
  QueueMax = 1
  int64_max = 40
  Unset = Unset
  Configs <- MCConfigs
  Fracs = {0, 3}
  ExecMax = {1}
  MaxTime = 4
  MaxOps = 5
INVARIANT MarketIsAccounted
INVARIANT LimitsFollowTotals
INVARIANT OrdersPaidTheCurve
CHECK_DEADLOCK FALSE
