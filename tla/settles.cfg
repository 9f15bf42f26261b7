SPECIFICATION FairSpec
CONSTANTS
    c1 = c1
    t1 = t1
    t2 = t2
    w1 = w1
    NoTarget = NoTarget
    Conv = {c1}
    Turn = {t1}
    Writer = {w1}
    ConvOf <- OneTurn
    MaxId = 1
    LaneMax = 2
    MaxCrash = 1
    Faults = {"delete", "cleanup", "withdraw"}
    UnreadableRow = TRUE
PROPERTIES EveryDecisionSettles ChatComesBack
