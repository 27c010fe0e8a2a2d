SPECIFICATION Spec
CONSTANTS
  a = a
  b = b
  c = c
  d = d
  z = z
  TxnOf <- MCTxnOf
  PoolSets <- MCPoolSets
  Branches <- MCBranches
  BlockSizeLimit = 9
  Reserve = 1
  HeaderMemory = 4
  BlockMemory = 2
  Budgets <- MCBudgets
CHECK_DEADLOCK FALSE
INVARIANTS
    TemplateSound
    TemplateMinable
    
