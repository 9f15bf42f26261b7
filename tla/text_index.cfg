SPECIFICATION Spec
CONSTANTS
    d1 = d1
    d2 = d2
    None = None
    Now = Now
    Docs = {d1}
    MaxFile = 2
    MaxAttempts = 1
    Races = {"grace", "error"}
    MaxChanges = 2
    MaxReads = 1
    MaxBusy = 1
    MaxStarts = 2
INVARIANTS TypeOK StatTellsText NothingForgotten NoGhosts
PROPERTY ParkedStaysParked
CHECK_DEADLOCK FALSE
