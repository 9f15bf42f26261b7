SPECIFICATION Spec
CONSTANTS
    d1 = d1
    d2 = d2
    None = None
    Now = Now
    Docs = {d1, d2}
    MaxFile = 1
    MaxAttempts = 2
    Races = {}
    MaxChanges = 1
    MaxReads = 1
    MaxBusy = 0
    MaxStarts = 1
INVARIANT NoForeignBackoff
CHECK_DEADLOCK FALSE
