SPECIFICATION Spec
CONSTANTS
    lib = lib
    note = note
    o1 = o1
    o2 = o2
    Actions = {lib, note}
    Steps = {1, 2, 3}
    ActionOf <- BatchAndNote
    TargetOf <- SharedNote
    Notes = {note}
    NoAction = NoAction
    Faults = {"db", "throw"}
    MaxFaults = 1
    MaxEdits = 1
    MaxUndos = 2
    MaxRestarts = 1
INVARIANTS TypeOK WindowExclusive FailedMeansUntouched RevertedMeansRestored
PROPERTIES ErasesNoLiveChange UndoSparesEdits
CHECK_DEADLOCK FALSE
