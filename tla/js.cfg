SPECIFICATION FairSpec
CONSTANTS
  MaxCalls = 2
  MaxSessions = 3
  MaxSegments = 3
  SegmentKinds <- AllSegmentKinds
INVARIANTS
  AwaitsPending
  AnswerMatchesPromise
  ResultReturned
PROPERTIES
  EveryCallEnds
CHECK_DEADLOCK FALSE
