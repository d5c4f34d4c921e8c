\* More sinks than the request lane has room for: staging waits for a consumer
\* that starts only after staging.
SPECIFICATION FairSpec
CONSTANTS
    Sinks = {s1, s2}
    Docs = {d1}
    Values = {v1}
    Absent = Absent
    Capacity = 1
    MaxWrites = 0
    MaxFaults = 0
    MaxReindexes = 0
    MaxLosses = 0
    SlotLossAt = {}
CHECK_DEADLOCK FALSE
PROPERTY EverySinkRuns
