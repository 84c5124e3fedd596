\* A command of a start that fails: what is left of the topology.
SPECIFICATION Spec
CONSTANTS
    Kind <- KindOf
    Nets = {"a", "b", "c", "d"}
    Topologies <- Both
    MaxAttempts = 4
    MaxFaults = 2
    None = None
INVARIANT FailedIsClean
CHECK_DEADLOCK FALSE
