SPECIFICATION FairSpec
CONSTANTS
  Parents = {p, q}
  NoParent = NoParent
  Units = {0, 1}
  MaxPlugs = 3
  MaxRestarts = 1
INVARIANTS NoClash HostSeesCatalog
PROPERTIES CatalogFollowsKernel ReplugIsSeen
CHECK_DEADLOCK FALSE
