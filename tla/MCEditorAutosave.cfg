SPECIFICATION FairSpec
CONSTANTS
    e1 = e1  e2 = e2  d1 = d1  p1 = p1
    Edits = {e1, e2}
    DirectEdits = {d1}
    OneShot = {}
    Peers = {p1}
    Sessions <- MCSessions
    MaxLost = 1
    MaxRevision = 3
    None = None
INVARIANTS TypeOK PendingOrStored SavedMeansStored StoredInOrder QueueIsScheduled
PROPERTIES OwnEditsStay QueueDrains
CHECK_DEADLOCK FALSE
