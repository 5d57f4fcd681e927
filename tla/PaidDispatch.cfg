SPECIFICATION Spec
CONSTANTS
  Workers = {w1, w2}
  NoWorker = NoWorker
  NoReq = NoReq
  NoResponse = NoResponse
  Reqs <- MCReqs
  Phases <- MCPhases
  Bound <- MCBound
  Responses <- MCResponses
  EntryIds <- MCEntryIds
  Amounts <- MCAmounts
  Descriptions <- MCDescriptions
  HardStops <- MCHardStops
SYMMETRY WorkerSymmetry
INVARIANTS AtMostOnePaidAttempt SpendCovered AttemptLeavesTrace PhaseRunsToCompletion
PROPERTIES EvidenceKept
