\* Two samples with one worker or two, two replicas, two batches; tools and interactions; and
\* the SGLang rollout of one batch.
SPECIFICATION FairRollout
CONSTANTS
  BatchSize = 2
  MaxWorkers = 2
  Servers <- TwoServers
  CacheSize = 2
  PromptLength = 2
  ResponseLength = 4
  MaxUserTurns = 1
  MaxAssistantTurns = 2
  Interactive = TRUE
  LogProbs = TRUE
  MaxObservation = 2
  MaxRounds = 2
  MaxFailures = 1
  Options <- MCOptions
INVARIANTS RowsAligned LimitsHold EnginesQuiet
PROPERTIES OneServer KeepsContract
CHECK_DEADLOCK FALSE
