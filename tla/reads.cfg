SPECIFICATION ReadsSpec
CONSTANTS
  u1 = u1
  u2 = u2
  c1 = c1
  p1 = p1
  p2 = p2
  r = r
  d = d
  NoOwner = NoOwner
  NoPath = NoPath
  NoCid = NoCid
  Unknown = Unknown
  Users = {u1, u2}
  Cids = {c1}
  Paths = {p1, p2}
  Trash = {p2}
  Download = d
  Bits <- MCBits
  OwnerBits <- MCBits
  Masks <- MCMasks
  Durations <- MCDurations
  MaxUint = 3
  MaxBlock = 2
  MaxCopies = 2
SYMMETRY UserSymmetry
INVARIANT ListedOnce
INVARIANT ShownAsLapsedIsOver
INVARIANT GreyedOutMayAsk
INVARIANT RecipientsAreComplete
INVARIANT ShownRequestsAreOpen
INVARIANT MailsAreTrue
INVARIANT DownloadIsEntitled
PROPERTY RequestsAreAboutLapsedGrants
PROPERTY ApprovalGrantsAccess
CONSTRAINT Followed
