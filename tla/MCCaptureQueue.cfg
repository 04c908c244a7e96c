SPECIFICATION Spec
CONSTANTS
  Chats = {chat}
  Numbers = {1, 2, 3}
  Policies = {asked, moved}
  PerChat = 2
  Total = 2
  History = 1
  MaxStops = 2
  NoRun = NoRun
  NoJob = NoJob
INVARIANTS
  LearnsOnce
  WithinLimits
  InFlightIsOwned
  InFlightIsOldest
  BlockedChatIsIdle
PROPERTIES
  TakenUnderOwnPolicies
  OutcomeIsFinal
  NewTurnIsRecorded
  ImplementsContract
  EveryCaptureSettles
CHECK_DEADLOCK FALSE
