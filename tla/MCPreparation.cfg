SPECIFICATION Spec
CONSTANTS
  MaxEdits = 2
  MaxReopens = 2
  MaxStops = 2
INVARIANTS
  StagesInOrder
  OneOwner
  BootsWhatWasShown
  EndedNeverBoots
PROPERTIES
  NothingFreshAfterStop
  StopReturns
CHECK_DEADLOCK FALSE
