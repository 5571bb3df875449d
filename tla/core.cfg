SPECIFICATION FairSpec
CONSTANTS
  r1 = r1
  NoRequest = NoRequest
  Requests <- OneRequest
  Timed <- AnyTimeout
  MaxSessions = 2
  MaxAwaits = 3
  MaxControls <- Restart
INVARIANTS
  TypeOK
  RequestInOnePlace
PROPERTIES
  TimeoutKept
  StageFollowsLifecycle
  WaitsEnd
CHECK_DEADLOCK FALSE
