SPECIFICATION FairSpec
CONSTANTS
  main = main
  worker = worker
  dfl = dfl
  ours = ours
  owner1 = owner1
  owner2 = owner2
  owner3 = owner3
  Threads <- MCThreads
  Main <- main
  N = 2
  NullStore <- MCSlot2
  Dispositions <- MCDispositions
  Dfl <- dfl
  Ours <- ours
  Orig <- MCOrig
  Abrt = 1
  Faulty <- MCNone
  MaxRegister = 2
  MaxAsync = 0
CHECK_DEADLOCK FALSE
PROPERTIES TestCrashCrashes
