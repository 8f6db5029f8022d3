CONSTANTS
    w1 = w1
    w2 = w2
    Wallets = {w1, w2}
    Keys = {k1}
    Variants = {f1, f2}
    Plans <- MCPlans
    Amounts <- MCAmounts
    Opening = 2
    MaxEpoch = 2
    None = None
    Sessions = {s1, s2}
    MaxMoves = 1
    JsonKeys = {k1}
    JsonVariants = {f1, f2}
    JsonPlans <- MCJsonPlans
    JsonEpochs = 1
    ExactCents <- MCExactCents
    MaxFailures = 2
SPECIFICATION ProviderFairSpec
INVARIANTS
    ReadyIsWhole
PROPERTIES
    ImplementsPromise
    OutcomesAreReached
CHECK_DEADLOCK FALSE
