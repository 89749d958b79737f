CONSTANTS
  Capacity = 1
  MaxUtterances = 2
  MaxCancellations = 1
  MaxRecords = 1
  Methods = {"unknown", "exec", "speech_index", "speech_since", "speech_clear", "log_since", "log_clear", "braille_since", "braille_clear"}
SPECIFICATION SpySpec
INVARIANTS
  SpyTypeOK
  CancelledWithinCount
  LogIsNewestHistory
  InertWhenDown
  AnnouncedIsCapturing
PROPERTIES
  AuthErrorMeansToken
  ImplementsHistory
CHECK_DEADLOCK FALSE
