CONSTANTS
    None = None
    Chunk = 2
    IndexLimit = 3
    FileSizes = {0, 2, 3}
    MaxPushes = 4
    MDevices = {1, 2}
    MProviders = {1, 2, 3}
    MFirst = {1, 2}
    MaxSkew = 1
    Offsets = {0, 1, 2}
    MaxClock = 3
    MaxEdits = 2
    MaxUnlocks = 2
    RowIds = {1, 2}
    MaxRowClock = 2
    MvProviders = {1, 2}
    MvRefs = {1, 2, 3}
    MvSessions = 2
    Joiners = {"j1", "j2"}
    EnTries = 1
    EnFaults = 1
    EnSaves = 1
    VaDevices = {1, 2, 3}
    VaEnrolled = 2
    VaSlots = 3
    VaPasskeys = {1}
    VaMaxOps = 2
    VaMaxThrows = 1
    JProviders = {1, 2}
    JTables = {"files", "sqlite_master"}
    JAllowed = {"files"}
    JMaxEntries = 2
    JMaxFaults = 1
SPECIFICATION MCSpec
CHECK_DEADLOCK FALSE
INVARIANTS BlobInv AgreesWithOneShot ManifestInv OrderIrrelevant MoveInv EnrolInv AccessInv AccessLinear JournalInv
PROPERTY UnlockKeepsBlob
