SPECIFICATION Spec
CONSTANTS
 None = None
 Removed = Removed
 Candidates = {"first", "again", "bounded", "aside"}
 Claim <- Claims
 Sources = {"s", "t"}
 Versions = {"v1", "v2"}
 Forever = 4
 MaxChanges = 2
INVARIANTS IInv OneVersionAtATime RestsOnSource
PROPERTIES NoRevival
