CONSTANTS
  Modulus = 8
  Costs = {1, 3}
  Thresholds = {0, 2, 4}
  Modules <- MCRepositoryModules
SPECIFICATION Spec
PROPERTIES
  ExitReturnsAsNormal
CHECK_DEADLOCK FALSE
