CONSTANTS
    Workers = {p1, p2}
    Actions = {a1, a2}
    Wager = 2
    Opening = 2
    HistoryLimit = 1
    MaxRounds = 2
    Amounts = {2}
    MaxMoves = 1
    MaxFailures = 1
    None = None
SPECIFICATION FairSpec
INVARIANTS
    MoneyMatchesRounds
PROPERTIES
    PreparedIsFinished
CHECK_DEADLOCK FALSE
