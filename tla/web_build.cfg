CONSTANTS
  MaxBuilds = 3
  MaxConfigWrites = 1
  MaxSessionCalls = 1
  Plugin = {p1}
  Broken = Broken
  Missing = Missing
  NoBundle = NoBundle
  AllowRevert = FALSE
SPECIFICATION Spec
INVARIANTS
  TypeOK
  BuildsDoNotOverlap
  CanceledNeverResolves
  ServedFilesAreOwn
  DevServerReopened
  ServedPluginsAreConfigured
  NodeModulesAreInstalled
CHECK_DEADLOCK FALSE
