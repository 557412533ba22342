SPECIFICATION FairSpec
CONSTANTS
    e1 = e1  e2 = e2  d1 = d1  p1 = p1
    Edits = {e1}
    DirectEdits = {}
    OneShot = {e1}
    Peers = {}
    Sessions <- NewNodeSession
    MaxLost = 1
    MaxRevision = 3
    None = None
PROPERTIES QueueDrains
CHECK_DEADLOCK FALSE
