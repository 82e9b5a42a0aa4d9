SPECIFICATION MCSpec
CONSTANTS
  ann = ann  bob = bob  cat = cat
  Ids <- ThreePeople
  Nobody = Nobody
  MaxLinks = 1
INVARIANTS EstateTypeOK TrusteeNeverDrafts
PROPERTIES SeatsMoveTogether PassphraseOpensForAdmins
SYMMETRY IdSymmetry
CHECK_DEADLOCK FALSE
