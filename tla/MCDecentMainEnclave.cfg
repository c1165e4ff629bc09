CONSTANTS
  Modulus = 8
  Costs = {2}
  Thresholds = {4}
  Modules <- MCModules
  PlainModules <- MCPlainModules
  InstrumentedModules <- MCInstrumentedModules
  Repeat = 2
SPECIFICATION MainSpec
INVARIANTS
  SuccessMeansEnclaveMeasured
CHECK_DEADLOCK FALSE
