SPECIFICATION Spec
CONSTANTS
  Handlers = {h1, h2}
  Addresses = {a1, a2}
  NoAddress = NoAddress
  NoTx = NoTx
  Prices = {1, 2}
  Treasury = 2
  MaxTx = 3
CHECK_DEADLOCK FALSE
INVARIANT TypeOK
INVARIANT RecordedWasFunded
INVARIANT OneDripUndisturbed
