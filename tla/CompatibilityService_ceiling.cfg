SPECIFICATION Spec
CONSTANTS
    c1 = c1
    c2 = c2
    q1 = q1
    q2 = q2
    Conversations = {c1, c2}
    Requests = {q1, q2}
    MayAsk <- OneEach
    Prompts = {p1}
    Modes = {0, 1}
    None = None
    MaxSaveFaults = 0
    MaxCallFaults = 0
    MaxCrashes = 0
CHECK_DEADLOCK FALSE
PROPERTY CeilingNotExpanded
