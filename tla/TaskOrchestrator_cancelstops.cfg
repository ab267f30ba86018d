SPECIFICATION Spec
CONSTANTS
    Requests = {q1}
    MaxRuns = 1
    MaxCrashes = 0
    MaxFaults = 0
    Cancellable = {1}
    None = None
CHECK_DEADLOCK FALSE
PROPERTY CancelStops
