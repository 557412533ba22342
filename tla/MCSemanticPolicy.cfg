SPECIFICATION Spec
CONSTANTS
    flow = flow  tree = tree  erd = erd  unset = unset
    edge = edge  kind = kind  odd = odd  start = start  path = path  table = table
    r1 = r1  r2 = r2  r3 = r3
    Requests = {r1, r2, r3}
    Mixes <- MCMixes
    Types <- MCTypes
    Marks <- MCMarks
    Edges <- MCEdges
    Rules <- MCRules
    Drawn <- MCDrawn
    Starts <- MCStarts
    MaxFailures = 1
    None = None
INVARIANTS TypeOK ViolationsAreAccounted EventsTellTheTruth
PROPERTIES PatchesAreLostOnlyInRaces StoredUnderAPolicyOfItsTime
CHECK_DEADLOCK FALSE
