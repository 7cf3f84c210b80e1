SPECIFICATION Spec
CONSTANTS
 None = None
 Removed = Removed
 Candidates = {"old", "new"}
 Claim <- OpenClaims
 Sources = {"s", "t"}
 Versions = {"v1", "v2"}
 Forever = 4
 MaxChanges = 3
INVARIANTS UpdatesInvalidate
