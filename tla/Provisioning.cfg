CONSTANTS
  Sessions = {s1, s2}
  Contents = {"good", "odd"}
  MaxRuns = 4
  MaxDamage = 1
SYMMETRY MCSymmetry
SPECIFICATION Spec
INVARIANTS
  TypeOK
  LauncherIsTrusted
  CompleteIsReused
  NothingLeftBehind
PROPERTIES
  AloneLeavesItComplete
CHECK_DEADLOCK FALSE
