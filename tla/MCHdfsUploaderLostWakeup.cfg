\* One worker and one upload are enough for wait_for_all to sleep for ever.
SPECIFICATION FairSpec
CONSTANTS
  main = main
  w1 = w1
  w2 = w2
  ckpt = ckpt
  tracker = tracker
  All = All
  Callers = {main}
  Closers = {main}
  Workers = {w1}
  Paths = {tracker}
  Dirs = {}
  RetryCount = 0
  FinalWaits = {TRUE}
  Timeouts = {FALSE}
  MaxTasks = 1
PROPERTIES WaitForAllReturns
CHECK_DEADLOCK FALSE
