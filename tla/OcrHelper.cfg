\* No symmetry: it is not sound for liveness.
SPECIFICATION FairSpec
CONSTANTS
  None = None
  Broken = Broken
  Cap = 200000
  Screens <- MCScreens
  Looks <- MCLooks
  PriceTexts <- MCPriceTexts
  Titles <- MCTitles
  TitleKey <- MCTitleKey
  TitleScore <- MCTitleScore
  Truth <- MCTruth
INVARIANTS
  CellsHoldPrices
  AnswersMatch
  MisreadIsNoticed
  PriceChecked
  HelperEnded
PROPERTIES
  WaitEnds
