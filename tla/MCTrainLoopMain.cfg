CONSTANTS
  Ranks = {0, 1, 2}
  Setups <- MCSetups
  Jobs <- MCJobs
  StudentTop <- MCStudentTop
  TeacherTops <- MCTeacherTops
SPECIFICATION Spec
CHECK_DEADLOCK FALSE
INVARIANT RolloutsFromLatest
INVARIANT OneModelOnGpu
INVARIANT TrainerStreamKept
INVARIANT RatioSameTokens
INVARIANT StepsComplete
INVARIANT ScoresEachTokenOnce
INVARIANT RewardsFinite
PROPERTY WorkerSpec
PROPERTY FitReturns
