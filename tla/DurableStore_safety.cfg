SPECIFICATION FairSpec
CONSTANTS
    Clients = {c1, c2}
    Requests = {r1}
    None = None
    MaxEvents = 2
    MaxFaults = 3
    MaxCrashes = 1
    MaxTears = 1
INVARIANT TypeOK
INVARIANT LogContiguous
INVARIANT RecoveryNeverRefused
INVARIANT SnapshotIsReplayOfLog
INVARIANT AckedSurvives
INVARIANT ReservedOnce
PROPERTY ReadsAreFresh
PROPERTY ImplementsTaskLog
PROPERTY EveryCallEnds
PROPERTY HostComesBackIntact
CHECK_DEADLOCK FALSE
