\* Actor and critic with their own rotation, with HDFS and without.
SPECIFICATION FairSpec
CONSTANTS
  All = All
  Roles <- ActorAndCritic
  Keep <- KeepSome
  HdfsChoices = {TRUE, FALSE}
  EsiMayExpire = TRUE
  SaveFreq = 2
  TotalSteps = 3
  MaxCrashes = 1
  MaxTasks = 8
  MaxFailures = 1
INVARIANTS LocalResumable
PROPERTIES ResumesFromLastSave LastStepCopied JobEnds
CHECK_DEADLOCK FALSE
