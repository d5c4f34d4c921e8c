\* Two sinks, one document: two failures, a write, a rebuild and a lost slot, at any point.
SPECIFICATION Spec
CONSTANTS
    Sinks = {s1, s2}
    Docs = {d1}
    Values = {v1}
    Absent = Absent
    Capacity = 2
    MaxWrites = 1
    MaxFaults = 2
    MaxReindexes = 1
    MaxLosses = 1
    SlotLossAt = {"seeded"}
SYMMETRY SinkSymmetry
INVARIANTS
    TypeOK
    Recoverable
    NoForgottenBackfill
    QuietMeansSynced
