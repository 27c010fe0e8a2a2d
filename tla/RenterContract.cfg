SPECIFICATION Spec
CONSTANTS
    Funds = 6
    Collateral = 1
    MaxNum = 7
    Amounts = {1, 2}
    Price <- MCPrice
    Budgets <- MCBudgets
CHECK_DEADLOCK FALSE
INVARIANTS
    SidesAgree
    PaymentsExact
    CommittedKept
    SectorsCounted
