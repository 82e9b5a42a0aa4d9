SPECIFICATION MCSpec
CONSTANTS
  ann = ann  bob = bob  cat = cat  ring = ring  dora = dora  eve = eve
  Emails <- ThreeOfUs
  Bootstrap = Bootstrap
  Nobody = Nobody
  MaxAssistants = 1
  MaxLinks = 2
  MaxMail = 4
  Things <- OneThing
  Family <- TwoHeirs
  Undecided = Undecided
  MaxVersion = 2
INVARIANTS MemorandumTypeOK LinksSignInOnce OneOwnerBySignIn CoupleHasPartner PaperMatchesRecord DraftOnTop
PROPERTIES StandingOnlyRises KeepsPapers
SYMMETRY EmailSymmetry
CHECK_DEADLOCK FALSE
