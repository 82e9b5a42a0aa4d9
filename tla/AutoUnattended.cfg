SPECIFICATION UnattendedSpec
CONSTANTS
  a = a  b = b  u = u  x = x  y = y  z = z  captain = captain
  Heirs <- TwoHeirs
  Items <- FourItems
  Nobody = Nobody
  Stage <- OneStage
  RankTopN = 5
  TypedCounters = {}
  MaxRound = 5
  Administrators <- NoCaptain
  Interval = 1
  MaxStreak = 2
PROPERTIES UnattendedSettles
CHECK_DEADLOCK FALSE
