\* A router and a machine; one thing goes wrong.
SPECIFICATION FairSpec
CONSTANTS
    Devices = {r, m}
    Seen = {r}
    MaxClicks = 4
    MaxFaults = 1
    Backlog = 0
    NoReport = NoReport
INVARIANTS TypeOK RecoveryUsed
 
CHECK_DEADLOCK FALSE
