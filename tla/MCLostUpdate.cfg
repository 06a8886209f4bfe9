SPECIFICATION Spec
CONSTANTS
  c1 = c1
  c2 = c2
  measure = measure
  table = table
  reversed = reversed
  Calls = {c1, c2}
  Definitions <- MCDefinitions
  Edits <- MCEdits
  Edited <- MCEdited
  DiffSees <- MCDiffSees
  Requests <- MCRequests
  PollBudget = 1
  MaxOutside = 0
  NoDefinition = NoDefinition
INVARIANT NoSilentOverwrite
CHECK_DEADLOCK FALSE
