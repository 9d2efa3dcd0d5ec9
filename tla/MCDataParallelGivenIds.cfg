SPECIFICATION Spec
CONSTANTS
  PromptLength = 2
  ResponseLength = 3
  Configs <- GivenIdsConfigs
  Shapes <- MCShapes
  Divergence <- MCDivergence
  Outcome <- MCOutcome
  GreedyOutcome <- MCGreedyOutcome
  TokenReward <- MCTokenReward
  Value <- MCValue
  Gamma <- MCHalf
  Lam <- MCHalf
INVARIANT GivenIdsFit
