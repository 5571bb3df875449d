SPECIFICATION FairSpec
CONSTANTS
  w1 = w1
  w2 = w2
  c1 = c1
  s1 = s1
  None = None
  Main = Main
  Services <- OneService
  Workers <- MCWorkers
  Clients <- MCClients
  MaxSends = 3
  NDEBUG = TRUE
INVARIANTS
  TypeOK
  MutualExclusion
  NoLostWakeup
  NoMissedNotify
  NoSleeperAfterStop
PROPERTIES
  ActorSpec
  EveryMessageTaken
  WorkersEnd
CHECK_DEADLOCK FALSE
