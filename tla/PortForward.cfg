SPECIFICATION FairSpec
CONSTANTS
  a1 = a1
  a2 = a2
  None = None
  Attempts <- MCAttempts
  PipeCap = 1
  InitialBackoff = 1
  MaxBackoff = 3
  FailCap = 2
  Doubled <- MCDoubled
INVARIANTS
  TypeOK
  OneChild
  ReadyClosedOnce
  BackoffSchedule
PROPERTIES
  NoFalseReady
  StopTerminates
  ScannersEnd
  KeepsRestarting
  ImplementsSupervisor
CHECK_DEADLOCK FALSE
