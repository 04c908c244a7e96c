SPECIFICATION Spec
CONSTANTS
  row1 = row1
  row2 = row2
  fresh = fresh
  first = first
  Twice = Twice
  None = None
  Sidebars <- SomeSidebars
  First <- Start
  Commands = {send}
  MaxChanges = 1
  MaxMounts = 2
  MaxFaults = 2
INVARIANTS
  PatchesFit
PROPERTIES
  SentWhileAwaited
  SidebarCatchesUp
CHECK_DEADLOCK FALSE
