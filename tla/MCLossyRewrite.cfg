SPECIFICATION Spec
CONSTANTS
  Model = Model
  plain = plain
  derived = derived
  group = group
  x = x
  y = y
  Names = {plain, derived, group, x, y}
  Paths = {"model.bim", "definition.pbism", "definition/", "layout", "report"}
  Definitions <- MCDefinitions
  Changes <- MCChanges
INVARIANTS
  NoFieldIsDropped
CHECK_DEADLOCK FALSE
