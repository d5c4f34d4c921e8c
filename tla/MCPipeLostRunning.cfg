\* The slot is lost while the daemon runs.
SPECIFICATION Spec
CONSTANTS
    Sinks = {s1}
    Docs = {d1}
    Values = {v1}
    Absent = Absent
    Capacity = 1
    MaxWrites = 1
    MaxFaults = 0
    MaxReindexes = 0
    MaxLosses = 1
    SlotLossAt = {"running"}
INVARIANT Recoverable
