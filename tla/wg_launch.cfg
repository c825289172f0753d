CONSTANTS
  Cores   = 2
  Byte    = 4
  MaxSize = 5
SPECIFICATION FairSpec
CHECK_DEADLOCK FALSE
INVARIANTS IInv GroupsOnce AllGroupsRun
PROPERTIES LauncherEnds
