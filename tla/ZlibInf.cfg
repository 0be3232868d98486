SPECIFICATION FairSpec
CONSTANTS
  Byte = {1, 2, 3, 4, 5}
  Sources <- MCSources
  CHUNK = 2
CHECK_DEADLOCK FALSE
INVARIANTS SoundIsAccepted
PROPERTIES Decompresses Returns
