\* Removing a row from the middle of the index table.
SPECIFICATION Spec
CONSTANTS
    Names = {"a", "b", "new"}
    CustomPaths = {"p"}
    NewIndex = "new"
    Config = "config"
    ConfigPath = "flusso.toml"
    NoReview = NoReview
    Idle = Idle
    InitialRows <- TwoRows
    Unreadable = {}
    HistoryLimit = 1
    MaxRows = 3
    MaxChanges = 2
    MaxSaves = 0
    MaxFails = 0
CHECK_DEADLOCK FALSE
INVARIANT RowsKeepTheirSchemas
