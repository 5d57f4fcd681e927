CONSTANTS
  g1 = g1  g2 = g2  j1 = j1  j2 = j2  h1 = h1  h2 = h2  a1 = a1  a2 = a2
  Nothing = Nothing
  Generators = {g1, g2}
  Judges = {j1}
  Hosts = {h1, h2}
  Approvals = {a1, a2}
  TableCount = 2
  Environment <- MCEnvironment
  BatchCount = 2
  Values = {1}
  Unknown = Unknown
  Malformed = Malformed
  Answered <- MCAnswered
  Cells <- MCCells
INIT Init
NEXT Next
SYMMETRY MCSymmetry
CONSTRAINT MCTurns
ACTION_CONSTRAINT MCEarlyApproval
INVARIANTS NoMixedPhase ClosedPhaseLoads ThresholdsFirst ReleaseIsWhole
CHECK_DEADLOCK FALSE
