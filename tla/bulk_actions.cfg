CONSTANTS
  Guest = {1, 2, 3}
  Container = {2}
  HaManaged = {1}
  StartOrder <- Orders
  Run = {r1}
  Kind <- Kinds
  MaxWorkers = 2
  MaxChanges = 1
SPECIFICATION FairSpec
INVARIANTS
  TypeOK
  ReportIsExact
  ReportIsHonest
PROPERTIES
  RunsInBatches
  RunsEnd
CHECK_DEADLOCK FALSE
