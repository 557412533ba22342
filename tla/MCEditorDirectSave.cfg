SPECIFICATION FairSpec
CONSTANTS
    e1 = e1  e2 = e2  d1 = d1  p1 = p1
    Edits = {e1, e2}
    DirectEdits = {d1}
    OneShot = {}
    Peers = {p1}
    Sessions <- DirectSaveSession
    MaxLost = 0
    MaxRevision = 3
    None = None
CHECK_DEADLOCK FALSE
INVARIANTS NothingLost
