SPECIFICATION FairSpec
CONSTANTS
 None = None
 Closers = {"closer"}
 Versions = {"parsed", "unparsed"}
 Length <- Lengths
INVARIANTS IInv ClosedIsQuiet FollowedThrough CompleteIsReviewed BusyIsOwned
PROPERTIES CloseEnds
