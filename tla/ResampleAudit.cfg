CONSTANTS
  g1 = g1  g2 = g2  h1 = h1  h2 = h2
  Nothing = Nothing  Unknown = Unknown  Malformed = Malformed
  Generators = {g1, g2}
  Hosts = {h1, h2}
  AnchorCount = 1
  PerStage = 1
  Microbatch = 2
  Values = {1}
  Answered <- MCAnswered
  Classified <- MCClassified
  MinimumValid = 1
  MinimumPairs = 1
  MaximumGap = 50
  MinimumOverall = 50
INIT Init
NEXT Next
SYMMETRY MCSymmetry
CONSTRAINT MCTurns
INVARIANT AuditIsNamed
CHECK_DEADLOCK FALSE
