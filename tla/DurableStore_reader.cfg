SPECIFICATION Spec
CONSTANTS
    Clients = {c1, c2}
    Requests = {r1}
    None = None
    MaxEvents = 2
    MaxFaults = 1
    MaxCrashes = 0
    MaxTears = 0
SYMMETRY Symmetry
PROPERTY ReadersFindTheTask
CHECK_DEADLOCK FALSE
