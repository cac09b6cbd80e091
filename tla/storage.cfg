SPECIFICATION Spec
CONSTANTS
  u1 = u1
  u2 = u2
  c1 = c1
  c2 = c2
  Users = {u1, u2}
  Cids = {c1, c2}
  NoOwner = NoOwner
  NoCid = NoCid
  PromptVerify = TRUE
  OwnFoldersOnly = TRUE
INVARIANT TypeOK
INVARIANT StoredUnlessExposed
PROPERTY OnlyCrossingExposes
SYMMETRY StorageSymmetry
