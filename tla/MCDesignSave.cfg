\* Two indexes, one with a path of its own: two changes, a review, a save that may fail half way and be made again.
SPECIFICATION Spec
CONSTANTS
    Names = {"a","b","new"}
    CustomPaths = {"p"}
    NewIndex = "new"
    Config = "config"
    ConfigPath = "flusso.toml"
    NoReview = NoReview
    Idle = Idle
    InitialRows <- TwoRows
    Unreadable = {}
    HistoryLimit = 1
    MaxRows = 2
    MaxChanges = 2
    MaxSaves = 2
    MaxFails = 1
CHECK_DEADLOCK FALSE
INVARIANTS
    TypeOK
    SnapshotIsOnDisk
    RenamesCarrySchemas
PROPERTIES
    UncheckedEditsStayDirty
