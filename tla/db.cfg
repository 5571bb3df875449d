SPECIFICATION FairSpec
CONSTANTS
  c1 = c1
  c2 = c2
  Clients <- TwoClients
  Keys <- AnyKey
  MaxCalls = 3
  MaxVersion = 3
  MaxFaults = 2
INVARIANTS
  TypeOK
  OneWriteBack
  NeverAhead
PROPERTIES
  GivesUpOnMismatch
  WriteBackEnds
CHECK_DEADLOCK FALSE
