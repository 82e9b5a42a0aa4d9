SPECIFICATION MCSpec
CONSTANTS
  a = a  b = b  x = x  y = y  z = z
  heirlooms = heirlooms  tools = tools  jewelry = jewelry  books = books  clock = clock  vase = vase
  Heirs <- OneHeir
  Items <- TwoItems
  Nobody = Nobody
  Groupings <- TwoGroups
  Heirloom = heirlooms
  NoGrouping = NoGrouping
  MaxChanges = 4
  Labels <- TwoLabels
  AppraisalRule <- JewelryRule
  NoLabel = NoLabel
  Captain = Captain
  Alike <- AllAlike
  MaxGroups = 2
  MaxCalls = 1
  Origins <- TwoOrigins
  NoOrigin = NoOrigin
  Contents <- TwoContents
  MaxBatches = 2
INVARIANTS EvaluationTypeOK NoOrphanAppraisal GroupsCanBeResolved UndoneInOrder OneItemPerOrigin
PROPERTIES ModelYields
SYMMETRY OriginSymmetry
CHECK_DEADLOCK FALSE
