SPECIFICATION Spec
CONSTANTS
  N = 2
  Tiers <- MCTiers
  Filters <- MCFilters
  Visible = 1
  Fetched = 2
  MaxRev = 4
  Loaded <- MCLoaded
INVARIANTS TypeOK
PROPERTIES CopiedIsShown IndexCatchesUp
