\* A transaction of two changes, confirmed after the first.
SPECIFICATION Spec
CONSTANTS
    MaxWal = 1
    MaxTxn = 2
    MaxFaults = 1
    MaxChanges = 2
CHECK_DEADLOCK FALSE
INVARIANT NoLostChange
