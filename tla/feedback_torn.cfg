SPECIFICATION Spec
CONSTANTS
 Candidates = {"one", "two"}
 Term <- Terms
 Limit = 2
 MaxEvents = 5
 MaxTears = 1
INVARIANTS TornTailRepaired
CHECK_DEADLOCK FALSE
