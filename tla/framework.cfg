SPECIFICATION FairSpec
CONSTANTS
  Modules = {"agent", "config", "db", "jssvr"}
  Bootstrap <- NoBootstrap
  Workers = {w1}
  MaxSent = 1
INVARIANTS
  ComponentsExist
  LookupsFind
PROPERTIES
  StopEnds
CHECK_DEADLOCK FALSE
