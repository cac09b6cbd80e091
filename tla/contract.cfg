SPECIFICATION Spec
CONSTANTS
  u1 = u1
  u2 = u2
  u3 = u3
  c1 = c1
  p1 = p1
  r = r
  NoOwner = NoOwner
  NoPath = NoPath
  Users = {u1, u2, u3}
  Cids = {c1}
  Paths = {p1}
  Bits <- MCBits
  OwnerBits <- MCBits
  Masks <- MCMasks
  Durations <- MCDurations
  MaxUint = 3
  MaxBlock = 2
  MaxCopies = 2
SYMMETRY UserSymmetry
INVARIANT TypeOK
INVARIANT PendingQueueExact
INVARIANT DeadFilesAreClean
INVARIANT MirrorLists
INVARIANT RequestersExact
INVARIANT AccessAccountedFor
CONSTRAINT Followed
