\* One transaction, then keepalives behind its change and behind nothing.
SPECIFICATION FairSpec
CONSTANTS
    MaxWal = 2
    MaxTxn = 1
    MaxFaults = 0
    MaxChanges = 2
CHECK_DEADLOCK FALSE
PROPERTY IdleSlotAdvances
