SPECIFICATION FairSpec
CONSTANTS
  c1 = c1
  c2 = c2
  measure = measure
  table = table
  reversed = reversed
  Calls = {c1}
  Definitions <- MCDefinitions
  Edits <- MCEdits
  Edited <- MCEdited
  DiffSees <- MCDiffSees
  Requests <- MCRequests
  PollBudget = 2
  MaxOutside = 3
  NoDefinition = NoDefinition
INVARIANTS
  TypeOK
  SubmitsEditOfExpected
  NotAppliedIsFinal
  RetryableIsUnambiguous
  CompletedWasLive
PROPERTIES
  ExpectedWasLive
  CallEnds
CHECK_DEADLOCK FALSE
