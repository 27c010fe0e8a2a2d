SPECIFICATION FairSpec
CONSTANTS
  a = a
  b = b
  d1 = d1
  d2 = d2
  r1 = r1
  w1 = w1
  Account = {a, b}
  DepositOf <- MCDepositOf
  WithdrawalOf <- MCWithdrawalOf
  MaxRisk = 1
  MaxBalance = 2
  MaxHeight = 1
  MaxCrashes = 1
CHECK_DEADLOCK FALSE
INVARIANTS
    
    SavedOnFile
PROPERTIES
    DepositsSaved
