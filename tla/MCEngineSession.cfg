SPECIFICATION Spec
CONSTANTS
  Configs <- MCBestOf3
  MaxScore = 4
  MaxResults = 3
INVARIANTS
  TypeOK
  GamesInOrder
  PromptIsConfirmable
  CarefulMatchIsSound
CHECK_DEADLOCK FALSE
