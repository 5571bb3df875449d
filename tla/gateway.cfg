SPECIFICATION FairSpec
CONSTANTS
  Conns = {c1, c2}
  MaxPackets = 2
  MaxLogins = 1
  MaxResets = 1
  MaxMail = 3
INVARIANTS
  AnswersToAsker
PROPERTIES
  SessionEnds
CHECK_DEADLOCK FALSE
