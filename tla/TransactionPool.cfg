SPECIFICATION Spec
CONSTANTS
  a = a
  b = b
  c = c
  d = d
  e = e
  r = r
  s = s
  x = x
  TxnOf <- MCTxnOf
  Coins = {"o1", "o2"}
  Sets <- MCSets
  BlockTxns <- MCBlockTxns
  Subscriber = {"m"}
  FeeAt <- MCFeeAt
  SizeForFee = 2
  SetSizeLimit = 4
  BlockLimit = 2
  MaxAge = 2
  FeeDepth = 2
  Branches <- MCBranches
  Budgets <- MCBudgets
CHECK_DEADLOCK FALSE
INVARIANTS
    PoolSound
    FollowsConsensus
    

    
