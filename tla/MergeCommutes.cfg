SPECIFICATION MergeSpec
CONSTANTS
    None = None
    MDevices = {1, 2}
    MProviders = {1, 2}
    MFirst = {1, 2}
    MaxSkew = 1
    Offsets = {0}
    MaxClock = 3
    MaxEdits = 3
    MaxUnlocks = 2
    RowIds = {}
    MaxRowClock = 1
INVARIANT MergeCommutes
CHECK_DEADLOCK FALSE
