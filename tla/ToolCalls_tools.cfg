SPECIFICATION FairSpec
CONSTANTS
    Calls = {c1, c2}
    Requests = {q1}
    Instructions = {i1, i2}
    None = None
    MaxEdits = 1
CHECK_DEADLOCK FALSE
INVARIANT OneProcessPerRequest
PROPERTY FinalStatusStays
INVARIANT StopIsOrderly
INVARIANT OutcomeIsTrue
PROPERTY ExclusiveReplacesNothing
PROPERTY StopEnds
