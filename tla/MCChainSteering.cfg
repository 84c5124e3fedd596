SPECIFICATION FairSpec
CONSTANTS
    a = a b = b f1 = f1 f2 = f2 None = None
    Hosts = {a, b, f1, f2}
    Pairs <- BothWays
    Ids = {c1}
    ListsOf <- OneOfTwo
    MaxCommands = 4
    MaxFaults = 1
INVARIANT NoDanglingPath
PROPERTIES  Released
CHECK_DEADLOCK FALSE
