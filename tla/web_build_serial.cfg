CONSTANTS
  MaxBuilds = 3
  MaxConfigWrites = 0
  MaxSessionCalls = 0
  Plugin = {p1}
  Broken = Broken
  Missing = Missing
  NoBundle = NoBundle
  AllowRevert = FALSE
  Page = {pg}
SPECIFICATION PagesSpec
INVARIANTS
  PagesAreOfOneBuild
PROPERTIES
  EveryBuildSettles
  ImplementsSerialBuilds
  PagesArrive
CHECK_DEADLOCK FALSE
