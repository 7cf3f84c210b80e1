SPECIFICATION Spec
CONSTANTS
 Proposed <- StackProposed
 Fields = {"title", "owner"}
 Values = {"u", "w"}
 Edited = {}
 MaxTasks = 2
 MaxEpoch = 2
 MaxReviews = 4
 MaxEvents = 3
 SlowReviewer = FALSE
INVARIANTS BindingClaimed StackWellFormed
PROPERTIES UndoRestores
CHECK_DEADLOCK FALSE
