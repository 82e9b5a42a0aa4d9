SPECIFICATION PhasesSpec
CONSTANTS
  a = a  b = b  c = c  x = x  y = y
  Heirs <- TwoHeirs
  Items <- TwoItems
  Nobody = Nobody
  Stage <- OneStage
  RankTopN = 5
  TypedCounters = {2}
  MaxRound = 2
INVARIANTS TypeOK RoundsInOrder AwardsRecorded 
PROPERTIES LedgerAppendOnly TurnsRotate KeepsPromise
SYMMETRY FullSymmetry
CHECK_DEADLOCK FALSE
