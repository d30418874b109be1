SPECIFICATION BlobSpec
CONSTANTS
    None = None
    Chunk = 2
    IndexLimit = 3
    FileSizes = {3, 4}
    MaxPushes = 2
INVARIANT SavedIsWhole
CHECK_DEADLOCK FALSE
