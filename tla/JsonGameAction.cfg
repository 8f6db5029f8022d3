CONSTANTS
    w1 = w1
    w2 = w2
    Wallets = {w1, w2}
    Keys = {k1, k2}
    Variants = {f1, f2}
    Plans <- MCPlans
    Amounts <- MCAmounts
    Opening = 2
    MaxEpoch = 2
    None = None
    ExactCents <- MCExactCents
    MaxMoves = 1
    MaxFailures = 2
SPECIFICATION Spec
SYMMETRY Interchangeable
INVARIANTS
    AllOrNothing
    RecoveryNeverDiverges
    LedgerAccountsForWallets
    OnlyWholeDataIsServed
PROPERTIES
    ImplementsPromise
CHECK_DEADLOCK FALSE
