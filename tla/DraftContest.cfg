SPECIFICATION ContestSpec
CONSTANTS
  a = a  b = b  c = c  x = x  y = y
  Heirs <- ThreeHeirs
  Items <- TwoItems
  Nobody = Nobody
  Stage <- OneStage
  RankTopN = 5
  TypedCounters = {}
  MaxRound = 2
INVARIANTS PickDiscipline OneItemPerRound CounterIsLedger LossesShared
PROPERTIES ContestsGoToTheUnlucky
SYMMETRY FullSymmetry
CHECK_DEADLOCK FALSE
