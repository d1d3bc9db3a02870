SPECIFICATION ExploreSpec
CONSTANTS
  Null = Null
  MaxCandidates = 2
  Urls <- MCUrls
  Seed = seed
  seed = seed
  p = p
  q = q
  Depth = 2
  MaxPages = 2
  Attempts = 2
  MaxMoves = 1
  Pages <- MCPages
  Options <- MCOptions
SYMMETRY Linked
INVARIANTS
  ExcludedIsRight
  ConfirmedIsOne
  VerifiedIsVisited
  TabsAreClosed
