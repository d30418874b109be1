SPECIFICATION Spec
CONSTANTS
    Shares = {s1}
    BlobIds = {b1}
    Requests = {r1, r2, r3, r4}
    NoReq = NoReq
    MaxCrashes = 0
SYMMETRY RequestSymmetry
INVARIANTS TypeOK NoOrphanDir RecordedIsWhole PublishedIsServed RevokedIsGone
CHECK_DEADLOCK FALSE
