\* The slot is lost before the index is seeded.
SPECIFICATION Spec
CONSTANTS
    Sinks = {s1}
    Docs = {d1}
    Values = {v1}
    Absent = Absent
    Capacity = 2
    MaxWrites = 1
    MaxFaults = 2
    MaxReindexes = 1
    MaxLosses = 1
    SlotLossAt = {"seeding"}
INVARIANT Recoverable
