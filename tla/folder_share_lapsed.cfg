SPECIFICATION MCSpec
CONSTANTS
  o = o
  v = v
  w = w
  c1 = c1
  c2 = c2
  c3 = c3
  r = r
  NoOwner = NoOwner
  NoPath = NoPath
  Users = {o, v, w}
  Owners = {o}
  Askers = {v}
  Cids = {c1, c2, c3}
  Paths <- MCPaths
  Trash = ".trash"
  ShareMask = {r}
  Rank <- MCRank
  Bits <- MCBits
  OwnerBits <- MCBits
  Masks <- MCMasks
  Durations <- MCDurations
  MaxUint = 9
  MaxBlock = 2
  MaxCopies = 2
  PathsOf <- MCPathsOf
  Picks <- MCPicks
  MaxNonce = 0
  MaxWallet = 2
CHECK_DEADLOCK FALSE
INVARIANT InheritorsSeeTheFolder
