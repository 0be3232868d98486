SPECIFICATION FairSpec
CONSTANTS
  Confs <- Configurations
  MAX_BUFFERED_HS = 4
  MaxTimeout = 2
INVARIANTS NeverFails NothingForgotten OneHandshake
PROPERTIES Completes GivesUp
CHECK_DEADLOCK FALSE
