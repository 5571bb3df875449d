SPECIFICATION FairSpec
CONSTANTS
  c1 = c1
  c2 = c2
  Clients <- OneClient
  Keys <- PrimaryKey
  MaxCalls = 3
  MaxVersion = 3
  MaxFaults = 1
PROPERTY RetrySucceeds
CHECK_DEADLOCK FALSE
