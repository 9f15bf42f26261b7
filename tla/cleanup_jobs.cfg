SPECIFICATION FairSpec
CONSTANTS
    c1 = c1
    s1 = s1
    s2 = s2
    Conv = {c1}
    Session = {s1, s2}
    SessionOf <- OneChat
    Claude = {s1, s2}
    MaxEnqueue <- TwiceOnce
    Slot = {1}
    Faults = {"provider", "attempt", "query"}
INVARIANTS TypeOK OneOperationPerSession OperatesOnDueRow ClaudeOpHoldsLock
           JobsWatched OkMeansResolved
PROPERTY RowsSettle
