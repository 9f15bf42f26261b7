SPECIFICATION Spec
CONSTANTS
    lib = lib
    note = note
    o1 = o1
    o2 = o2
    Actions = {lib, note}
    Steps = {1, 2, 3}
    ActionOf <- BatchAndNote
    TargetOf <- SharedNote
    Notes = {note}
    NoAction = NoAction
    Faults = {"partial"}
    MaxFaults = 0
    MaxEdits = 0
    MaxUndos = 2
    MaxRestarts = 1
INVARIANT FailedMeansUntouched
CHECK_DEADLOCK FALSE
