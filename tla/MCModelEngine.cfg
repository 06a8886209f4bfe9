SPECIFICATION Spec
CONSTANTS
  Names <- MCNames
  Models <- MCModels
  Changes <- MCChanges
  MaxChanges = 3
  None = None
INVARIANTS
  TypeOK
  BindingsKept
CHECK_DEADLOCK FALSE
