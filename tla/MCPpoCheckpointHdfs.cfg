\* default_hdfs_dir is set, and the job dies after its first upload.
SPECIFICATION FairSpec
CONSTANTS
  All = All
  Roles <- ActorAndCritic
  Keep <- KeepSome
  HdfsChoices = {TRUE}
  EsiMayExpire = FALSE
  SaveFreq = 1
  TotalSteps = 2
  MaxCrashes = 1
  MaxTasks = 4
  MaxFailures = 1
INVARIANTS RestartComesUp
CHECK_DEADLOCK FALSE
