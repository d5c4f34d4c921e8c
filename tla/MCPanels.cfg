\* One index with a mistyped relation; diffs of up to four short lines and of four
\* files; three index names and four moves; lists of two entries.
SPECIFICATION Spec
CONSTANTS
    Catalog <- Tables
    ForeignKeys <- Links
    Junctions <- Through
    InitialTable = "t"
    InitialFields <- Loaded
    Kinds = {"sum", "object", "has_many"}
    Types = {"boolean"}
    Renames <- Names
    ByHand = "z"
    MaxEdits = 2
    Responses <- AllResponses
    Redone <- Second
    PathOrder <- Order
    Queries <- SomeQueries
    MaxRedos = 1
    MaxSteps = 3
    Indexes = {"a", "b", "c"}
    LoadedIndexes <- OnDisk
    Landings <- Routes
    RecentCap = 2
    MaxEntries = 4
    MaxMoves = 4
    Editors = {"sinks", "option", "filters", "variants", "options", "order_by",
               "soft_delete", "key", "box", "wizard"}
    ArrayKeys <- Indices
    SinkTexts = {"", "sink2", "m", "2", "7"}
    Words = {"", "a", "b"}
    SinkKinds <- Adapters
    OptionNames = {"boost", "option1", "option2", "2", "7"}
    MaxItems = 2
CHECK_DEADLOCK FALSE
INVARIANTS
    PanelTypes
    SelectionFollows
    PreviewIsWhatIsComplete
    CanvasShowsSchema
    TypeWarningsAgree
    ReviewShowsTheDiff
    UrlMirrorsView
    MainIsNeverBlank
    ShownIsHeld
PROPERTIES
    TravelKeepsHistory
    FormKeepsTheRest
