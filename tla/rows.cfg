SPECIFICATION RowSpec
CONSTANTS
  Clients = {c1, c2}
  Tables <- SomeTables
  MaxOps = 6
  MaxFaults = 1
SYMMETRY Sym
INVARIANTS
  CleanFieldsAgree
  SameVersionSameRow
  ReadBack
  RowLoads
CHECK_DEADLOCK FALSE
