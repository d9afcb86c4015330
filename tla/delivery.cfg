CONSTANTS
  Workers = {w1, w2}
  JobCount = 2
  Outputs <- TwoOutputs
  Failures <- TwoFailures
  Batches = {2}
  Budgets = {2, 5}
  Page = 2
  MaximumAttempts <- TwoAttempts
  MaxGen = 2
  MaxHints = 2
  MaxFaults = 1
SPECIFICATION Spec
SYMMETRY WorkerSymmetry
CHECK_DEADLOCK FALSE
INVARIANTS
  TypeOK
  BudgetConserved
  ReceiptBacked
  
  ErrorsExplained
