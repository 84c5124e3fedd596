SPECIFICATION Spec
CONSTANTS
    f1 = f1 f2 = f2 NoFunction = NoFunction
    Functions = {f1}
    Pairs = {p1}
    Threads = {shell, rest}
    MaxChains = 2
    MaxStream = 2
INVARIANTS TypeOK  
PROPERTY ControllerKeepsBook
CHECK_DEADLOCK FALSE
