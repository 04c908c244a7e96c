SPECIFICATION Spec
CONSTANTS
    Chats = {c1}
    Msgs = {m1, m2}
    Sessions = {k1}
    NoValue = NoValue
    MaxCalls = 4
    MaxTime = 1
    MaxCrashes = 1
SYMMETRY MsgSymmetry
INVARIANTS
    ChatsSurvive
    SessionsSurvive
CHECK_DEADLOCK FALSE
