SPECIFICATION FairSpec
CONSTANTS
    Requests = {q1, q2}
    MaxRuns = 3
    MaxCrashes = 1
    MaxFaults = 1
    Cancellable = {}
    None = None
CHECK_DEADLOCK FALSE
INVARIANT TypeOK
INVARIANT AnswersAgree
INVARIANT StatusMatchesTurns
INVARIANT OneThreadPerTask
PROPERTY TurnsSettle
