SPECIFICATION MoreFairSpec
CONSTANTS
  main = main
  worker = worker
  dfl = dfl
  ours = ours
  crash_more = crash_more
  owner1 = owner1
  owner2 = owner2
  owner3 = owner3
  Threads <- MCThreads
  Main <- main
  N = 3
  NullStore <- MCSegv
  Dispositions <- MCDispositions
  Dfl <- dfl
  Ours <- ours
  Orig <- MCOrig
  Abrt = 1
  Faulty <- MCFaulty
  MaxRegister = 2
  MaxAsync = 0
  More <- crash_more
  MoreTable <- MCTable
  MaxInit = 1
CHECK_DEADLOCK FALSE
INVARIANTS OneStranger SegvPassedOn
PROPERTIES CrashesUnlessKnotted
