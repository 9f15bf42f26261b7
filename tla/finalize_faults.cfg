SPECIFICATION Spec
CONSTANTS
    c1 = c1
    t1 = t1
    t2 = t2
    w1 = w1
    NoTarget = NoTarget
    Conv = {c1}
    Turn = {t1}
    Writer = {}
    ConvOf <- OneTurn
    MaxId = 2
    LaneMax = 2
    MaxCrash = 1
    Faults = {"insert", "withdraw", "verify", "delete", "cleanup", "select"}
    UnreadableRow = FALSE
INVARIANTS ConversationFence NoFrozenLeak
PROPERTIES KeepsPromise UndoIsFinal LoneUndoRestoresRows MarkerPrecedesRows
