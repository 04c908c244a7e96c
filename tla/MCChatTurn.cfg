SPECIFICATION Spec
CONSTANTS
    Msgs = {m1, m2}
    NoMsg = NoMsg
    MaxActs = 2
    MaxCrashes = 1
INVARIANTS
    OneTurnAtATime
    PromptedOnce
    RefusedIsNotQueued
PROPERTIES
    LeavesByItsOwnEnd
    AskIsAnswered
CHECK_DEADLOCK FALSE
