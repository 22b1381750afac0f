CONSTANTS
    alice = alice  bob = bob
    Accounts <- MCAccounts
    REFUND_DELAY = 2
    Never = Never
    Supply = 2
SPECIFICATION StakingSpec
INVARIANT StakeIsBacked
INVARIANT VotingStakeIsDelegated
INVARIANT TotalsAreDelegations
PROPERTY RefundsWait
PROPERTY ImplementsTimeLock
