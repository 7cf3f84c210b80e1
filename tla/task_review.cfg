SPECIFICATION Spec
CONSTANTS
 Proposed <- VariantProposed
 Fields = {"title", "owner"}
 Values = {"u", "w"}
 Edited = {"owner"}
 MaxTasks = 1
 MaxEpoch = 1
 MaxReviews = 3
 MaxEvents = 2
 SlowReviewer = TRUE
INVARIANTS IInv AuditedHistory Provenance
PROPERTIES WrittenAsPreviewed ApprovedOnCurrentSources
CHECK_DEADLOCK FALSE
