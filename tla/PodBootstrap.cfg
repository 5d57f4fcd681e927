SPECIFICATION BootFairSpec
CONSTANTS
  Runs = {r1, r2}
  Nobody = Nobody
INVARIANT OneArming
PROPERTY FailureStops
CHECK_DEADLOCK FALSE
