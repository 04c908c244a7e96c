SPECIFICATION Spec
CONSTANTS
  Texts = {prefer_tabs, prefer_spaces}
  Scopes = {project}
  None = None
  Born = {"candidate", "active"}
  MaxId = 2
  Marks = {TRUE, FALSE}
  MaxVersion = 2
  MaxEvents = 5
SYMMETRY TextSymmetry
INVARIANTS
  DismissedNeverLive
  SensitiveErased
  HistoryDescribesRow
PROPERTIES
  AcceptReplacesWhatWasReviewed
  SensitiveTombstonePermanent
CHECK_DEADLOCK FALSE
