\* The driver process: one training thread, a pool of two, one directory and
\* one file to upload, one retry, and the shutdown of the finally block.
SPECIFICATION FairSpec
CONSTANTS
  main = main
  w1 = w1
  w2 = w2
  ckpt = ckpt
  tracker = tracker
  All = All
  Callers = {main}
  Closers = {main}
  Workers = {w1, w2}
  Paths = {ckpt, tracker}
  Dirs = {ckpt}
  RetryCount = 1
  FinalWaits = {TRUE, FALSE}
  Timeouts = {FALSE, TRUE}
  MaxTasks = 2
INVARIANTS InflightExact UnfinishedExact FinalShutdownLosesNothing
PROPERTIES WaitCoversUploads ServiceSpec EveryUploadSettles
CHECK_DEADLOCK FALSE
