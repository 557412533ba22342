SPECIFICATION MCSpec
CONSTANTS
    Parts = {"snapshot", "events", "imports"}
    Commands = {c1}
    Replacements = {p1, p2}
    MaxEvents = 2
    MaxBucket = 1
    MaxFailures = 2
    MaxRestarts = 1
    Schemas = {a, b}
    NSteps = 2
    MaxTombstones = 1
    MaxImports = 4
    MaxFaults = 1
    None = None
INVARIANTS
    TypeOK
    OneWinnerPerRevision
    AnswersAreTruthful
    ConflictTellsNewerRevision
    EventsAreTold
    EvaluationsTakeTurns
    TracesAreWhole
PROPERTIES
    GuardedWriteKeepsRow
    ImplementsRegister
    NobodyIsForgotten
CHECK_DEADLOCK FALSE
