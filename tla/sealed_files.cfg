SPECIFICATION Spec
CONSTANTS
  Threads = {t1, t2}
  Requests = {q1, q2}
  Values = {s1, s2}
  Missing = Missing
  Empty = Empty
  Nobody = Nobody
  TTL = 1
  MaxAge = 1
  MaxTime = 2
  MaxTokens = 1
INVARIANT TypeOK
INVARIANT SealedIsReadable
INVARIANT KeyUnusableOnlyAfterCut
INVARIANT TokensHold
INVARIANT BrokenPreviewOnlyAfterCut
PROPERTY LockIsReleased
