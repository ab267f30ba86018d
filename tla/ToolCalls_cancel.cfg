SPECIFICATION Spec
CONSTANTS
    Calls = {c1}
    Requests = {q1}
    Instructions = {i1}
    None = None
    MaxEdits = 0
CHECK_DEADLOCK FALSE
PROPERTY CancelEndsTheTree
