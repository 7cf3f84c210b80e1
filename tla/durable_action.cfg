SPECIFICATION FairSpec
CONSTANTS
 Protocol = "action"
 Fallback = TRUE
 MaxRequests = 3
 MaxSteps = 3
 MaxCalls = 3
 MaxOrd = 1
 ToolOutcomes = {"ok", "empty", "fail"}
 PreOutcomes = {"fatal"}
 Faults = {"lost", "ambiguous", "artifact", "adapter"}
 MaxFaults = 2
 MaxCrashes = 2
PROPERTIES NoEffectAfterTermination
CHECK_DEADLOCK FALSE
