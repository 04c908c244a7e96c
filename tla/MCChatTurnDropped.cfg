SPECIFICATION Spec
CONSTANTS
    Msgs = {m1, m2}
    NoMsg = NoMsg
    MaxActs = 2
    MaxCrashes = 1
CHECK_DEADLOCK FALSE
INVARIANT StaysQueuedIfBusy
