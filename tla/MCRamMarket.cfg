SPECIFICATION Spec
CONSTANTS
    Accounts = {alice, bob}
    MaxRam0 = 12
    Quote0 = 6
    Tokens0 = 8
    RamCap = 16
    Word = 4
    GiftBytes = 1
    Rates = {0, 3}
    Quants = {1, 3, 8}
    ByteCounts = {1, 4}
    RamSizes = {15, 16}
    MaxSlot = 2
SYMMETRY AccountSymmetry
INVARIANTS
    MarketMatchesCounters
    SellersCanBePaid
    QuotasAreHonoured
    NeverMoreThanDue
