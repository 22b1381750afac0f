SPECIFICATION MCSpec
CONSTANTS
    alice = alice
    bob = bob
    aliceActive = aliceActive
    aliceOps = aliceOps
    bobActive = bobActive
    Accounts = {alice, bob}
    Proposers = {alice}
    Names = {n1}
    Levels = {aliceActive, aliceOps, bobActive}
    ActorOf <- MCActorOf
    Trxs <- MCTrxs
    Requests <- MCRequests
    Hashes <- MCHashes
    Authorities <- MCAuthorities
    MaxTime = 2
    MaxSent = 1
    NoRow = NoRow
    NoHash = NoHash
    Owners = {a1, a2}
    Codes = {c1, c2}
    Precisions = {0, 4}
    Amounts = {0, 1, 2}
SYMMETRY Symmetry
INVARIANTS
    CountedApprovalsAreCurrent
    SupplyIsHeld
    RowsMatchToken
PROPERTIES
    ExecutionIsConsented
