\* A sink lane: its engine holds one delivery at a time.
SPECIFICATION Spec
CONSTANTS
    Capacity = 2
    Handles = {h1}
    MaxItems = 5
    NoDelivery = NoDelivery
INVARIANTS
    AckedIsCumulative
PROPERTIES
    LaneIsLog
