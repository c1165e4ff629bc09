CONSTANTS
  Modulus = 8
  Costs = {1, 3}
  Thresholds = {0, 2, 4}
  Modules <- MCAllModules
SPECIFICATION FairSpec
INVARIANTS
  TypeOK
  BudgetRespected
  ReportIsExact
  NoResultFromFailedInstance
PROPERTIES
  ImplementsBudgetedCall
  CallCompletes
CHECK_DEADLOCK FALSE
