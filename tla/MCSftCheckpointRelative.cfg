\* default_local_dir is relative, as in the default configuration.
SPECIFICATION FairSpec
CONSTANTS
  All = All
  WorldSize = 2
  Writers = {0}
  Configs <- SingleFolder
  RelativeDir = TRUE
  AutoResume = TRUE
  SaveFreq = 1
  TotalSteps = 2
  MaxCrashes = 0
  MaxTasks = 2
PROPERTIES NothingChangesUnderUploads
CHECK_DEADLOCK FALSE
