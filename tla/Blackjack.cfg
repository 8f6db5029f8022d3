CONSTANTS
    Workers = {p1, p2}
    Wager = 10
    Opening = 30
    InsuranceAmounts = {5}
    RuleSets <- FewRules
    Deals <- FewDeals
    Halves = {"pair"}
    Results = {"win", "loss"}
    MaxRounds = 1
    MaxIds = 3
    MaxFailures = 1
    None = None
SPECIFICATION FairSpec
INVARIANTS
    TypeOK
    MoneyMatchesHands
PROPERTIES
    TableIsFreed
CHECK_DEADLOCK FALSE
