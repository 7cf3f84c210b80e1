SPECIFICATION FairSpec
CONSTANTS
 Clients = {c1}
 Budgets = {2, 6}
 MaxRuns = 2
 Workspaces <- Three
INVARIANTS IInv PublishedAsChecked AnsweredBeforePublished StepBudget
PROPERTIES ResultsKept Settles
