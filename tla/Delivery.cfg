SPECIFICATION MCSpec
CONSTANTS
  clock = clock  dora = dora  eve = eve  ann = ann  tom = tom  box = box  crate = crate
  Items <- OneItem
  Persons <- TwoHeirs
  Unassigned = Unassigned
  Owners <- OneOwner
  Caretakers = {}
  Trustees <- OneTrustee
  Unshipped = Unshipped
  MaxSignings = 2
  Packages <- TwoPackages
  MaxSends = 2
INVARIANTS DeliveryTypeOK NoPhantomHeir VersionsHaveBundles SentMeansMailed CarriedIsFinal ExportedIsCurrent
SYMMETRY DeliverySymmetry
CHECK_DEADLOCK FALSE
