SPECIFICATION Spec
CONSTANTS
  t1 = t1
  t2 = t2
  c1 = c1
  c2 = c2
  ann = ann
  bob = bob
  Threads <- MCThreads
  Cursors = {c1}
  first = first
  second = second
  Names <- MCNames
  Grades <- MCGrades
  Absent = Absent
  Null = Null
  GivenIds <- MCGivenIds
  Values <- MCValues
  Selections <- MCSelections
  MaxId = 3
  MaxWrites = 3
CHECK_DEADLOCK FALSE
PROPERTIES FailedAddsNothing
