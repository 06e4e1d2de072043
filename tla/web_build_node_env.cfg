CONSTANTS
  MaxBuilds = 2
  MaxConfigWrites = 0
  MaxSessionCalls = 1
  Plugin = {p1}
  Broken = Broken
  Missing = Missing
  NoBundle = NoBundle
  AllowRevert = FALSE
SPECIFICATION Spec
INVARIANT NodeEnvIsResetForStaticBuilds
CHECK_DEADLOCK FALSE
