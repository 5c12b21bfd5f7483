SPECIFICATION FairSpec
CONSTANTS
    r1 = r1
    p1 = p1
    p2 = p2
    Ids = {r1}
    Pumps = {p1}
    MaxAttempts = 2
    MaxOccurrences <- OneOccurrence
    Interval = 1
    Lease = 1
    RetryDelay = 1
    BatchSize = 20
    MaxTime = 3
    MaxFaults = 1
    MaxRetries = 0
PROPERTY ExpiredLeaseReclaimed
