SPECIFICATION EscalationSpec
CONSTANTS
  a = a  b = b  c = c  x = x  y = y
  Heirs <- TwoHeirs
  Items <- TwoItems
  Nobody = Nobody
  Stage <- OneStage
  RankTopN = 5
  TypedCounters = {}
  MaxRound = 2
INVARIANTS NoRoundStuck
SYMMETRY FullSymmetry
CHECK_DEADLOCK FALSE
