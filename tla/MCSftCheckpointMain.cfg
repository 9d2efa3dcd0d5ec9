\* CheckpointHandler, fsdp_sft_trainer and a job without HDFS; absolute directory, one
\* dataloader state, two ranks, three saves, crashes anywhere.
SPECIFICATION FairSpec
CONSTANTS
  All = All
  WorldSize = 2
  Writers = {0}
  Configs <- AllTrainers
  RelativeDir = FALSE
  AutoResume = TRUE
  SaveFreq = 2
  TotalSteps = 5
  MaxCrashes = 2
  MaxTasks = 6
INVARIANTS TrackerResumable RemoteComplete DataloadersAgree
PROPERTIES NothingChangesUnderUploads ResumesFromLastSave JobFinishes
CHECK_DEADLOCK FALSE
