SPECIFICATION Spec
CONSTANTS
  Names <- MCNames
  Models <- MCModels
  Changes <- MCChanges
  MaxChanges = 1
  None = None
INVARIANTS
  DiffShowsEveryChange
CHECK_DEADLOCK FALSE
