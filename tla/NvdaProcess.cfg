CONSTANT
  MaxProcesses = 4
SPECIFICATION FairSpec
INVARIANTS
  TypeOK
  ChildrenHeldOrDead
  HandshakeIsOwn
PROPERTIES
  HandshakeIsFresh
  DeadChildEndsStart
  QuitReturns
\* The session ends, and every NVDA with it.
CHECK_DEADLOCK FALSE
