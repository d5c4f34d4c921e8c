\* A parse reply that comes after the switch to another index.
SPECIFICATION Spec
CONSTANTS
    Indexes = {"i", "j"}
    Config = "config"
    Schemas = {"s", "t", "u"}
    Pruned <- Prune
    Mess = "mess"
    First = "s"
    Nothing = Nothing
    MaxMoves = 4
    MaxFails = 0
    MaxPreviews = 1
CHECK_DEADLOCK FALSE
PROPERTY NothingCrosses
