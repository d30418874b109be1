SPECIFICATION Spec
ACTION_CONSTRAINT OwnOrShared
CONSTANTS
    Providers = {p1}
    Primary = p1
    Logged = {m1, m2}
    Trash = {t1}
    Direct = {d1}
    Remote = {r1}
    Deletes = {t1}
    Edits = {}
    MaxSessions = 2
INVARIANTS DurableAcked UnsavedIsScheduled
PROPERTY BodyKeepsRows
CHECK_DEADLOCK FALSE
