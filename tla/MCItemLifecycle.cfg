SPECIFICATION Spec
CONSTANTS
  c1 = c1
  c2 = c2
  m = m
  n = n
  sales = sales
  draft = draft
  sqlA = sqlA
  sqlB = sqlB
  connA = connA
  connB = connB
  Calls = {c1, c2}
  Ids = {m, n}
  Texts = {sales, draft}
  Sources = {sqlA, sqlB}
  DetailsOf <- MCDetails
  InitialItems <- MCInitialItems
  Requests <- MCRequests
  MaxOutside = 1
  Unused = Unused
  Deleted = Deleted
  Same = Same
  None = None
INVARIANTS
  NotAppliedIsFinal
  CompletedWasShown
  MismatchMeansInterference
PROPERTIES
  DeleteIsConfirmed
  BindMatchesSource
CHECK_DEADLOCK FALSE
