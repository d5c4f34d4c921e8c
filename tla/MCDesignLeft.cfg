\* The deployment saved, the file of a row that it moves or renames unchecked.
SPECIFICATION Spec
CONSTANTS
    Names = {"a","b","new"}
    CustomPaths = {"p"}
    NewIndex = "new"
    Config = "config"
    ConfigPath = "flusso.toml"
    NoReview = NoReview
    Idle = Idle
    InitialRows <- TwoRows
    Unreadable = {}
    HistoryLimit = 1
    MaxRows = 3
    MaxChanges = 2
    MaxSaves = 2
    MaxFails = 1
CHECK_DEADLOCK FALSE
INVARIANT SnapshotFollowsConfig
