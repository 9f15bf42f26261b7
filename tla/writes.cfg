SPECIFICATION Spec
CONSTANTS
    c1 = c1
    t1 = t1
    t2 = t2
    w1 = w1
    NoTarget = NoTarget
    Conv = {c1}
    Turn = {t1,t2}
    Writer = {w1}
    ConvOf <- TwoTurns
    MaxId = 2
    LaneMax = 2
    MaxCrash = 1
    Faults = {}
    UnreadableRow = FALSE
INVARIANTS TurnFence NoWriteAfterDelete
PROPERTIES NoWriteIntoPendingDeletion NoWriteAcrossDecision
