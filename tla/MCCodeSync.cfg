\* Two indexes, four steps of the user, one request that fails.
SPECIFICATION FairSpec
CONSTANTS
    Indexes = {"i", "j"}
    Config = "config"
    Schemas = {"s", "t", "u"}
    Pruned <- Prune
    Mess = "mess"
    First = "s"
    Nothing = Nothing
    MaxMoves = 4
    MaxFails = 1
    MaxPreviews = 2
CHECK_DEADLOCK FALSE
INVARIANTS
    TypeOK
    QuietAgrees
PROPERTIES
    AppliedIsCurrent
    Settles
