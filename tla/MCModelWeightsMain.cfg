SPECIFICATION Spec
CONSTANTS
  Configs <- MCConfigs
  TwoFilesFrom = 7
INVARIANTS RanksHoldTheirShare ModelComesOut
