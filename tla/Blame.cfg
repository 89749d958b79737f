CONSTANTS
  Dialogs = {d1, d2}
  Addons = {"demo"}
  Baseline <- MCBaseline
  Paths <- MCPaths
  MaxTests = 2
  MaxDialogSteps = 1
  MaxSteps = 1
  MaxLate = 1
  MaxDisturbances = 0
SYMMETRY MCSymmetry
SPECIFICATION Spec
PROPERTIES
  ErrorsAreOwn
CHECK_DEADLOCK FALSE
