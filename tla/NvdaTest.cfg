CONSTANTS
  Dialogs = {d1, d2}
  Addons = {"demo"}
  Baseline <- MCBaseline
  Paths <- MCPaths
  MaxTests = 2
  MaxDialogSteps = 3
  MaxSteps = 2
  MaxLate = 1
  MaxDisturbances = 1
SYMMETRY MCSymmetry
SPECIFICATION Spec
INVARIANTS
  TypeOK
  GuardedStepsSeeDialogs
  LeakIsFreed
  LeftoverAddonIsReported
PROPERTIES
  ImplementsJobQueue
  CleanStart
  KeysReachTheDialog
CHECK_DEADLOCK FALSE
