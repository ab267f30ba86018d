SPECIFICATION FairSpec
CONSTANTS
    Clients = {c1}
    Requests = {r1}
    None = None
    MaxEvents = 2
    MaxFaults = 0
    MaxCrashes = 1
    MaxTears = 1
PROPERTY HostComesBack
CHECK_DEADLOCK FALSE
