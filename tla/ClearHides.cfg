CONSTANTS
  Capacity = 2
  MaxActions = 1
  MaxIndex = 2
  MaxQueue = 1
  MaxStarts = 1
SPECIFICATION Spec
INVARIANT ClearKeepsHearing
