SPECIFICATION ExploreSpec
CONSTANTS
  Null = Null
  MaxCandidates = 2
  Urls = {seed}
  Seed = seed
  seed = seed
  p = p
  q = q
  Depth = 1
  MaxPages = 2
  Attempts = 2
  MaxMoves = 1
  Pages <- Crowded
  Options <- MCOptions
INVARIANTS
  ConfirmedIsSole
