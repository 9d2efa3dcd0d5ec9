SPECIFICATION Spec
CONSTANTS
  PromptLength = 2
  ResponseLength = 3
  Configs <- SharesConfigs
  Shapes <- MCShapes
  Divergence <- MCDivergence
  Outcome <- MCOutcome
  GreedyOutcome <- MCGreedyOutcome
  TokenReward <- MCTokenReward
  Value <- MCValue
  Gamma <- MCHalf
  Lam <- MCHalf
INVARIANT DpSharesSimilar
