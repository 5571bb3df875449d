SPECIFICATION FairSpec
CONSTANTS
  r1 = r1
  NoRequest = NoRequest
  Requests <- OneRequest
  Timed <- AlwaysTimed
  MaxSessions = 1
  MaxAwaits = 1
  MaxControls <- OneCycle
PROPERTY StoppingEnds
CHECK_DEADLOCK FALSE
