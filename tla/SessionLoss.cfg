\* Run, a server that dies and is started again, Stop.
SPECIFICATION FairSpec
CONSTANTS
    Devices = {r, m}
    Seen = {r}
    MaxClicks = 4
    MaxFaults = 1
    Backlog = 0
    NoReport = NoReport
PROPERTY StopEndsAfterLoss
CHECK_DEADLOCK FALSE
