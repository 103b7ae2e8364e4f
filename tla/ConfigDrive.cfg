SPECIFICATION FairSpec
CONSTANTS
  Drives <- AllDrives
  Sizes = {0, 1, 64, 65, 130, 2200}
CHECK_DEADLOCK FALSE
INVARIANTS TypeOK GeometryFits ReadsBack RefusedOnlyIfFull
PROPERTIES ResizedOnce Terminates
