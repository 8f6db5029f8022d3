CONSTANTS
    Players = {p1, p2}
    Keys = {k1, k2}
    Amounts <- MCAmounts
    Opening = 1
    None = None
    CompactAfter = 3
    MaxEvents = 3
    MaxFailures = 2
SPECIFICATION FairSpec
INVARIANTS
    ExactlyOneRow
    RecoveryNeverDiverges
    LedgerAccountsForWallets
    AnswersAreDurable
PROPERTIES
    ImplementsPromise
    PendingIsProjected
CHECK_DEADLOCK FALSE
