SPECIFICATION StrandedSpec
CONSTANTS
  a = a  b = b  u = u  x = x  y = y  z = z  captain = captain
  Heirs <- TwoHeirs
  Items <- TwoItems
  Nobody = Nobody
  Stage <- OneStage
  RankTopN = 5
  TypedCounters = {}
  MaxRound = 4
  Administrators <- NoCaptain
  Interval = 2
  MaxStreak = 4
PROPERTIES UnattendedSettles
CHECK_DEADLOCK FALSE
