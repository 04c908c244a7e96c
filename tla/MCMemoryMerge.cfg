SPECIFICATION Spec
CONSTANTS
  Texts = {prefer_tabs}
  Scopes = {project}
  None = None
  Born = {"active"}
  MaxId = 3
  Marks = {FALSE}
  MaxVersion = 1
  MaxEvents = 9
PROPERTIES
  RevertUndoesTheAcceptance
CHECK_DEADLOCK FALSE
