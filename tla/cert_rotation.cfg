SPECIFICATION Spec
CONSTANT MaxKey = 4
INVARIANT TypeOK
INVARIANT LivePairIntact
INVARIANT TornPromoteCanBeRepeated
PROPERTY AlarmOnlyAcrossRenewal
