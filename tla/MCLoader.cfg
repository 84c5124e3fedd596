SPECIFICATION Spec
CONSTANTS
    Kind <- KindOf
    Nets = {"a", "b", "c", "d"}
    Topologies <- Both
    MaxAttempts = 4
    MaxFaults = 2
    None = None
INVARIANTS TypeOK InItsSubnet 
CHECK_DEADLOCK FALSE
