\* One sink, the smallest lanes: whatever fails, it is seeded and catches up.
SPECIFICATION FairSpec
CONSTANTS
    Sinks = {s1}
    Docs = {d1}
    Values = {v1}
    Absent = Absent
    Capacity = 1
    MaxWrites = 1
    MaxFaults = 2
    MaxReindexes = 1
    MaxLosses = 1
    SlotLossAt = {"running", "seeding", "seeded"}
PROPERTIES
    EventuallySynced
    SinksAreTwoCopies
