CONSTANTS
  Content = {a, b}
  Torn = Torn
  Gone = Gone
  NoValue = NoValue
  MaxCalls = 2
  MaxRefreshes = 2
SPECIFICATION Spec
INVARIANTS
  TypeOK
  ContentIsFresh
  ExistenceIsFresh
  NoAssignmentLost
  UncommittedIsWrittenLast
  ListenersAreInformed
CONSTRAINT NoRaceYet
SYMMETRY Contents
CHECK_DEADLOCK FALSE
