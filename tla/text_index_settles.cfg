SPECIFICATION FairSpec
CONSTANTS
    d1 = d1
    d2 = d2
    None = None
    Now = Now
    Docs = {d1, d2}
    MaxFile = 1
    MaxAttempts = 2
    Races = {}
    MaxChanges = 1
    MaxReads = 0
    MaxBusy = 0
    MaxStarts = 2
INVARIANTS QueueWatched
PROPERTY EventuallyIndexed
CHECK_DEADLOCK FALSE
