SPECIFICATION Spec
CONSTANTS
  PromptLength = 2
  ResponseLength = 3
  Configs <- MCConfigs
  Shapes <- MCShapes
  Divergence <- MCDivergence
  Outcome <- MCOutcome
  GreedyOutcome <- MCGreedyOutcome
  TokenReward <- MCTokenReward
  Value <- MCValue
  Gamma <- MCHalf
  Lam <- MCHalf
INVARIANT ColumnsAligned
INVARIANT RatioAligned
INVARIANT SharesBalanced
INVARIANT SelectedOfStep
INVARIANT EveryRowTrained
INVARIANT NoRankWaitsAlone
INVARIANT WeightsOfMiniBatch
INVARIANT CreditIsDue
