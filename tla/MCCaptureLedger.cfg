SPECIFICATION Spec
CONSTANTS
  Calls = {prompt, branch, tool}
  Abortable = {prompt, branch}
  Branches = {branch}
  prompt = prompt
  branch = branch
  tool = tool
  a = a
  b = b
  other = other
  Obs = {a, b}
  Texts = {a, b, other}
  Batches <- MCBatches
  Rank <- MCRank
  Initial <- MCInitial
  MaxId = 4
  MaxVersion = 2
  MaxMoves = 1
  MaxLedgers = 2
  Unrecorded = Unrecorded
  NoMemory = NoMemory
INVARIANTS
  ObservedOnce
  DuplicatesAreDurable
PROPERTIES
  VerdictsBind
  WaitersResume
CHECK_DEADLOCK FALSE
