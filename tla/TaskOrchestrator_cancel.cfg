SPECIFICATION Spec
CONSTANTS
    Requests = {q1, q2}
    MaxRuns = 2
    MaxCrashes = 1
    MaxFaults = 1
    Cancellable = {1}
    None = None
CHECK_DEADLOCK FALSE
SYMMETRY Symmetry
INVARIANT WorkerRunsWhatIsExecuted
INVARIANT DispatchedOnceOnRecord
INVARIANT LiveTurnIsExecuted
INVARIANT ReceiptMatchesRun
PROPERTY NeverReplayedAfterRestart
PROPERTY TerminalIsFinal
