\* The request lane: the ingest engine may hold three deliveries at once.
SPECIFICATION FairSpec
CONSTANTS
    Capacity = 2
    Handles = {h1,h2,h3}
    MaxItems = 4
    NoDelivery = NoDelivery
INVARIANTS
    NothingLost
    NoOrphan
    InOrder
PROPERTIES
    EventuallyProcessed
