SPECIFICATION FairSpec
CONSTANTS
  w1 = w1
  w2 = w2
  c1 = c1
  s1 = s1
  None = None
  Main = Main
  Services <- OneService
  Workers <- OneWorker
  Clients <- MainOnly
  MaxSends = 4
  NDEBUG = TRUE
PROPERTY ExitedIsDestroyed
CHECK_DEADLOCK FALSE
