CONSTANTS
  Capacity = 1
  MaxActions = 2
  MaxIndex = 2
  MaxQueue = 2
  MaxStarts = 2
SPECIFICATION FairSpec
INVARIANTS
  TypeOK
  OwnSpeechIsHeard
  BlockIsCovered
  SettledLeavesNoGesture
PROPERTY
  ImplementsJobQueue
  WaitsEnd
