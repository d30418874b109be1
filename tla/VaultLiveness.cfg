SPECIFICATION FairSpec
CONSTANTS
    Providers = {p1}
    Primary = p1
    Logged = {m1}
    Trash = {}
    Direct = {d1}
    Remote = {}
    Deletes = {}
    Edits = {}
    MaxSessions = 2
PROPERTY SavedEventually
CHECK_DEADLOCK FALSE
