SPECIFICATION FairSpec
CONSTANTS
    None = None
    Workers = {p1, p2}
    Tables <- AllTables
    MaxActions <- Actions23
    MaxDeals <- Deals12
    MaxFailures = 1
    Opening <- Balances
    Streets = 2
INVARIANTS
    MoneyMatchesTables
PROPERTIES
    TerminalIsFinal
    TablesAreFreed
