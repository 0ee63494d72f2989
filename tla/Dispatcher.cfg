SPECIFICATION FairSpec
CONSTANTS
    MaxOps = 2
    FirstUploads <- MCFirstUploads
    MaxAttempts = 2
    AuthDelay = 4
    MaxFaults = 1
INVARIANTS TypeOK RetryBudget AuthStopsTheQueue FreshInOrder
PROPERTIES QueueSpec EveryOpEnds
