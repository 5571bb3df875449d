SPECIFICATION FairSpec
CONSTANTS
  t1 = t1
  t2 = t2
  SlotCount = 2
  CircleCount = 3
  Tasks <- TwoTasks
  Delays <- BinaryDelays
  MaxBatch = 2
INVARIANTS
  TypeOK
  TaskInOnePlace
  FiresOnTime
PROPERTY EveryTaskFires
CHECK_DEADLOCK FALSE
