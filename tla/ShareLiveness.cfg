SPECIFICATION FairSpec
CONSTANTS
    Shares = {s1}
    BlobIds = {}
    Requests = {r1, r2, r3}
    NoReq = NoReq
    MaxCrashes = 1
CHECK_DEADLOCK FALSE
PROPERTY EventuallyPurged
