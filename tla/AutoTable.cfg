SPECIFICATION TableSpec
CONSTANTS
  a = a  b = b  u = u  x = x  y = y  z = z  captain = captain
  Heirs <- TwoHeirs
  Items <- TwoItems
  Nobody = Nobody
  Stage <- OneStage
  RankTopN = 5
  TypedCounters = {}
  MaxRound = 3
  Administrators <- Captain
  Interval = 1
  MaxStreak = 1
INVARIANTS AutoTypeOK EngineStandsAside
PROPERTIES OnePauseStops
SYMMETRY FullSymmetry
CHECK_DEADLOCK FALSE
