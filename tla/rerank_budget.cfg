SPECIFICATION Spec
CONSTANTS
 None = None
 Requests = {r1, r2, r3}
 Amount = 2
 Budget = 5
INVARIANTS IInv BudgetCovers
CHECK_DEADLOCK FALSE
