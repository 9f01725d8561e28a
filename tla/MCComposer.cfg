SPECIFICATION Spec
CONSTANTS
  Baselines <- Hosts
  MaxFragments = 3
  BytesMax = 100
INVARIANTS
  ReplayAgrees
  CheckedIsFresh
  LedgerExact
  PredictionIsSound
  ProtectedUntouched
PROPERTY RestartsAddDependency
