SPECIFICATION FairSpec
CONSTANTS
    None = None
    Addresses = {1, 2}
    Names = {n1}
    Ports = {80}
    Threads = {shell, web}
    Listener = listener
    MaxContainers = 2
    MaxServices = 1
    MaxScale = 2
    MaxRestarts = 1
    Reserved = 2
INVARIANTS TypeOK 
PROPERTY ComesBack
CHECK_DEADLOCK FALSE
