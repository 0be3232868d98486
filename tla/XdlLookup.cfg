SPECIFICATION LookupSpec
CONSTANTS
  W = 8
  ElfclassBits = 8
  NULL = NULL
  Pending = Pending
  Names <- MCNames
  Hash <- MCHash
  Sections <- MCSections
INVARIANTS InsideTables Correct
PROPERTIES Implements
