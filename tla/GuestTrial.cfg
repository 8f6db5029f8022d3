\* Two rounds, a reused request id with another stake, two crashes.
SPECIFICATION FairSpec
CONSTANTS
  Rounds = {a, b}
  Workers = {w1, w2}
  Stakes = {1, 2}
  Multiples <- ModelMultiples
  Opening = 2
  RecentLimit = 1
  MaxCrashes = 2
  None = None
INVARIANTS OneOutcome PublishedIsPaid WalletMatchesRounds AdoptedIsSpared
PROPERTIES TeardownEndsOrIsLate
