SPECIFICATION Spec
CONSTANTS
 None = None
 NoFile = NoFile
 Unreadable = Unreadable
 Requests = {r1, r2}
 Targets = {"revision"}
 Supports = {{"identity"}, {"identity", "revision", "dates"}}
 MaxCapabilities = 1
 MaxPosts = 3
 MaxEvents = 1
 MaxFaults = 1
 MaxCrashes = 1
INVARIANTS IInv OneCommitment RetryHonoured
PROPERTIES ReceiptOnLiveProof
CHECK_DEADLOCK FALSE
SYMMETRY Symmetry
