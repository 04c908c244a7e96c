SPECIFICATION Spec
CONSTANTS
  Texts = {prefer_tabs, prefer_spaces}
  Scopes = {project}
  None = None
  Born = {"candidate", "active"}
  MaxId = 1
  Marks = {TRUE, FALSE}
  MaxVersion = 2
  MaxEvents = 6
INVARIANT LiveMemoryCanBeArchived
CHECK_DEADLOCK FALSE
