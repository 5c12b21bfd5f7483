SPECIFICATION FairSpec
CONSTANTS
    r1 = r1
    p1 = p1
    p2 = p2
    Ids = {r1}
    Pumps = {p1, p2}
    MaxAttempts = 2
    MaxOccurrences <- TwoOccurrences
    Interval = 2
    Lease = 1
    RetryDelay = 1
    BatchSize = 20
    MaxTime = 3
    MaxFaults = 1
    MaxRetries = 1
INVARIANT TypeOK
INVARIANT NoSkippedOccurrence
PROPERTY EveryReminderSettles
