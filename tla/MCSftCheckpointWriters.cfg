\* Both ranks save a dataloader, as two data-parallel ranks of CheckpointHandler do.
SPECIFICATION FairSpec
CONSTANTS
  All = All
  WorldSize = 2
  Writers = {0, 1}
  Configs <- AllKept
  RelativeDir = FALSE
  AutoResume = TRUE
  SaveFreq = 1
  TotalSteps = 2
  MaxCrashes = 1
  MaxTasks = 0
INVARIANTS DataloadersAgree
CHECK_DEADLOCK FALSE
