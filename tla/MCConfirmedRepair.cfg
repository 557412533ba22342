SPECIFICATION MCSpec
CONSTANTS
    n1 = n1  n2 = n2  n3 = n3  n4 = n4  made = made  e1 = e1  e2 = e2  e3 = e3
    NodeIds = {n1, n2}
    EdgeIds = {e1, e2}
    Roles = {"flow-step", "flow-decision", "flow-note"}
    Places = {1, 2}
    EdgeKinds = {"flows-to", "depends-on", "references"}
    Allowed <- ProcessRules
    Starts <- MCStarts
    Absent = Absent
    MaxWrites = 3
    a = a  b = b  join = join  r1 = r1  r2 = r2  h1 = h1  h2 = h2
    Views = {"process"}
    Boxes = {n1, n2, n3, n4, made}
    MadeUp = made
    Arrows = {e1, e2, e3}
    Infers <- MCInfers
    CopyOf <- MCCopyOf
    ProcessStarts <- MCProcessStarts
    Sessions <- MCSessions
    MaxChanges = 2
    Entities <- MCEntities
    Relations <- MCRelations
    Drawn = {r1, r2}
    JoinOf <- MCJoinOf
    HalvesOf <- MCHalvesOf
    ErdStarts <- MCErdStarts
    MaxEdits = 2
INVARIANT ConfirmedRepairIsStored
CHECK_DEADLOCK FALSE
