SPECIFICATION FairSpec
CONSTANTS
    lib = lib
    note = note
    o1 = o1
    o2 = o2
    Actions = {lib, note}
    Steps = {1, 2}
    ActionOf <- OneEach
    TargetOf <- SameObject
    Notes = {note}
    NoAction = NoAction
    Faults = {"throw", "partial", "resume"}
    MaxFaults = 2
    MaxEdits = 1
    MaxUndos = 1
    MaxRestarts = 1
INVARIANTS RevertedMeansRestored InFlightHasOwner
PROPERTY ActionsSettle
CHECK_DEADLOCK FALSE
