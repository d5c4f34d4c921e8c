\* Transactions of several changes, reopens and crashes.
SPECIFICATION FairSpec
CONSTANTS
    MaxWal = 2
    MaxTxn = 2
    MaxFaults = 2
    MaxChanges = 2
CHECK_DEADLOCK FALSE
INVARIANTS
    NoLostTransaction
    PositionsNameOneChange
PROPERTY EventuallyDurable
