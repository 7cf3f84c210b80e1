SPECIFICATION FairSpec
CONSTANTS
 Protocol = "proposal"
 Fallback = FALSE
 MaxRequests = 2
 MaxSteps = 2
 MaxCalls = 3
 MaxOrd = 2
 ToolOutcomes = {"ok", "fail", "fatal"}
 PreOutcomes = {"invalid"}
 Faults = {"lost", "ambiguous", "trace", "artifact", "adapter"}
 MaxFaults = 2
 MaxCrashes = 2
INVARIANTS HInv ProviderAtMostOnce ExecutorAtMostOnce BudgetsHold ResultsBeforeProgress CompletedIsSettled
PROPERTIES JournalSpec Quiescence HistoryKept
CHECK_DEADLOCK FALSE
