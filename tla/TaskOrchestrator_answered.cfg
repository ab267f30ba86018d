SPECIFICATION Spec
CONSTANTS
    Requests = {q1, q2}
    MaxRuns = 2
    MaxCrashes = 1
    MaxFaults = 0
    Cancellable = {}
    None = None
CHECK_DEADLOCK FALSE
INVARIANT AnsweredTurnExists
