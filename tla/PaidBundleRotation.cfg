SPECIFICATION FairSpec
CONSTANTS
  Peers = {p1, p2}
  Versions = {v1, v2}
  ExplicitIds = {x}
  MaxBundles = 1
  Nothing = Nothing
  Torn = Torn
INVARIANTS NothingLost OpenSpendKeepsQuote
PROPERTIES Resumes RecoveryNeverStrands SuccessLeavesNoLock
