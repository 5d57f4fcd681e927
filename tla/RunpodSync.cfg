SPECIFICATION Spec
CONSTANTS
  Attempts = {a1, a2}
  Sessions = {s1, s2}
  Original = Original
  Nothing = Nothing
INVARIANTS OneTransfer InstalledKept StopIsTold
PROPERTIES SuccessIsInstalled
SYMMETRY Symmetry
VIEW StillRead
CHECK_DEADLOCK FALSE
