SPECIFICATION MCSpec
CONSTANTS
  None = None
  Drives = {"gdrive", "dropbox", "onedrive", "box", "pcloud", "s3", "dav-nc", "dav-tus", "dav-put", "dav-buffer"}
  Jobs = {1, 2}
  Scenarios <- MCScenarios
  FlushAt = 3
  RangeSize = 2
  MaxFaults = 2
INVARIANT CloudInv
PROPERTIES ImplementsStore JobsEnd
