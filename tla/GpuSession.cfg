SPECIFICATION FairSpec
CONSTANTS
  Sessions = {s1, s2}
  First = first
  NoSession = NoSession
  NoRecord = NoRecord
  PromptProvider = TRUE
INVARIANTS UnwatchedIsOnRecord StoppedIsStopped SettlementTrue
PROPERTIES RunEnds ImplementsSessionAccounting ClosesWhatWasAttested
CHECK_DEADLOCK FALSE
