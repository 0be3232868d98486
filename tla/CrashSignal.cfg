SPECIFICATION Spec
CONSTANTS
  main = main
  worker = worker
  dfl = dfl
  ours = ours
  owner1 = owner1
  owner2 = owner2
  owner3 = owner3
  Threads <- MCThreads
  Main <- main
  N = 3
  NullStore <- MCSlots23
  Dispositions <- MCDispositions
  Dfl <- dfl
  Ours <- ours
  Orig <- MCOrig3
  Abrt = 1
  Faulty <- MCSlot2
  MaxRegister = 2
  MaxAsync = 2
CHECK_DEADLOCK FALSE
INVARIANTS NoCrossWiring Restored PassedOn
