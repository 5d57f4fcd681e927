SPECIFICATION LedgerSpec
CONSTANTS
  Procs = {p1, p2}
  NoProc = NoProc
  NoRequest = NoRequest
  EntryIds <- MCEntryIds
  Amounts <- MCAmounts
  Descriptions <- MCDescriptions
  HardStops <- MCHardStops
  Requests <- MCRequests
INVARIANTS CapsRespected OneUseGrants
PROPERTIES NoLostUpdate ImplementsCostLedger
