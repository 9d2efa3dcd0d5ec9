\* A put of the directory breaks off and is tried again.
SPECIFICATION FairSpec
CONSTANTS
  All = All
  WorldSize = 2
  Writers = {0}
  Configs <- SingleFolder
  RelativeDir = FALSE
  AutoResume = TRUE
  SaveFreq = 1
  TotalSteps = 2
  MaxCrashes = 0
  MaxTasks = 2
INVARIANTS CopiedToItsPlace
CHECK_DEADLOCK FALSE
