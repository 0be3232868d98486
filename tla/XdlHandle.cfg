SPECIFICATION FairSpec
CONSTANTS
  t1 = t1
  t2 = t2
  Threads <- MCThreads
  Libs <- MCLibs
  NameOf <- MCNameOf
  Separators <- MCSeparators
  Fixed <- MCFixed
  Dynamic <- MCDynamic
  Exports <- MCExports
  Symbols <- MCSymbols
  Filenames <- MCFilenames
  Blocks <- MCBlocks
  MaxLoads = 2
CHECK_DEADLOCK FALSE
INVARIANTS OwnsMemory UndefinedOnlyIf
PROPERTIES RightAnswer NoneMissed CallsReturn
