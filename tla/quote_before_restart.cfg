SPECIFICATION Spec
CONSTANT MaxKey = 2
INVARIANT QuoteBindsServedCert
