SPECIFICATION Spec
CONSTANTS
    e1 = e1  e2 = e2  d1 = d1  p1 = p1
    Edits = {e1, e2}
    DirectEdits = {}
    OneShot = {}
    Peers = {}
    Sessions <- RestoreSession
    MaxLost = 0
    MaxRevision = 3
    None = None
INVARIANTS EditAfterRestoreKept
CHECK_DEADLOCK FALSE
