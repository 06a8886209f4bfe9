SPECIFICATION SearchSpec
CONSTANTS
  m1 = m1
  m2 = m2
  m3 = m3
  t1 = t1
  t2 = t2
  Measures = {m1, m2, m3}
  column = column
  OtherNames = {column}
  Tables = {t1, t2}
  Expressions <- MCExpressions
SYMMETRY Interchangeable
INVARIANTS
  CyclesAreReported
  ReportsAreCycles
CHECK_DEADLOCK FALSE
