SPECIFICATION Spec
CONSTANTS
  Users = {u1, u2, u3}
  Cids = {c1, c2}
  NoOwner = NoOwner
  NoCid = NoCid
INVARIANT TypeOK
INVARIANT SlotsExact
PROPERTY DeletesFinish
PROPERTY ImplementsPendingSet
