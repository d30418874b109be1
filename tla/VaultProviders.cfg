SPECIFICATION ProvidersSpec
CONSTANTS
    Providers = {p1, p2}
    Primary = p1
    Logged = {m1}
    Trash = {}
    Direct = {}
    Remote = {}
    Deletes = {}
    Edits = {e1, e2}
    MaxSessions = 2
INVARIANTS TypeOK DurableAcked UnsavedIsScheduled EditDurable
CHECK_DEADLOCK FALSE
