SPECIFICATION MCSpec
CONSTANTS
  ann = ann  bob = bob  cat = cat
  Ids <- ThreePeople
  Nobody = Nobody
  MaxLinks = 1
PROPERTIES RankingUnderMandate
SYMMETRY IdSymmetry
CHECK_DEADLOCK FALSE
