SPECIFICATION Spec
CONSTANTS
  Users = {u1, u2}
  Cids = {c1, c2}
  NoOwner = NoOwner
  NoCid = NoCid
  PromptVerify = TRUE
  OwnFoldersOnly = FALSE
INVARIANT RegisteredIsStored
