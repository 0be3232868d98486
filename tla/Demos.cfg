SPECIFICATION SpecParts
CONSTANTS
  opening = opening
  closing = closing
  Junk = junk
  Texts <- MCTexts
  MaxCalls = 3
  Frames = 4
  Limit = 2
  READ = 2
  MaxFiles = 4
  MaxUnits = 3
  MaxZlib = 1
  Buffer = 2
  MaxChanges = 2
  Areas <- MCAreas
  FilePath <- MCFilePath
  Numbers = {0, 1, 63, 64, 65}
  MaxEpoch = 1
  Lengths <- MCLengths
  Mtus = {25, 30, 58}
  Expansion = 13
  MAX_BUFFERED_HS = 3
  MAX_BUFFERING = 36
CHECK_DEADLOCK FALSE
INVARIANTS TextsInOrder NoneSkipped NeverTwice NoneRefused Whole
PROPERTIES Test1Returns WalkEnds AllArrive
