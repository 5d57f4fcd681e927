CONSTANTS
  a1 = a1  a2 = a2  a3 = a3  a4 = a4  v1 = v1  v2 = v2
  Unknown = Unknown
  Anchors <- MCAnchors
  ClassOf <- MCClassOf
  DirectionOf <- MCDirectionOf
  Whole = 60
  Rope = 6
  MinimumDivergent = 2
  TracesPerDirection = 2
  MinimumRate = 60
  PairCount = 2
  RolloutCount = 3
  Studies <- MCStudies
  Ends <- MCEnds
SPECIFICATION Spec
INVARIANTS LensNeedsAssociation
PROPERTIES CriteriaSurvive ConclusionSurvives
CHECK_DEADLOCK FALSE
