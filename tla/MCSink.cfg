\* Two rows, two rebuilds, three failures, and a deleted generation; every
\* failure is followed by a restart.
SPECIFICATION FairSpec
CONSTANTS
    Rows = {r1, r2}
    MaxReindexes = 2
    MaxFaults = 3
    MaxDrops = 1
INVARIANTS
    WritesGoToActive
    SeededIsServed
PROPERTIES
    ReadersNeverRegress
    SinkIsTwoCopies
    GenerationsAreFresh
    EventuallySeeded
