SPECIFICATION Spec
CONSTANTS
  walked = walked
  other = other
  w1 = w1
  w2 = w2
  w3 = w3
  o1 = o1
  o2 = o2
  n1 = n1
  n2 = n2
  Items = {w1, w2, w3, o1, o2, n1, n2}
  Collections = {walked, other}
  Contents <- MCContents
  Limits = {1, 2}
  MaxPages = 2
  MaxChanges = 2
  MaxFailures = 1
INVARIANTS
  TypeOK
  ListsTheCollection
  NoRepeats
  NoGaps
CHECK_DEADLOCK FALSE
