SPECIFICATION Spec
CONSTANTS
    c1 = c1
    c2 = c2
    q1 = q1
    q2 = q2
    Conversations = {c1, c2}
    Requests = {q1, q2}
    MayAsk <- TwoAndOne
    Prompts = {p1}
    Modes = {0, 1}
    None = None
    MaxSaveFaults = 1
    MaxCallFaults = 1
    MaxCrashes = 1
CHECK_DEADLOCK FALSE
INVARIANT TypeOK
INVARIANT FilesConsistent
 
 
 
 
