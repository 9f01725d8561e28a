SPECIFICATION Spec
CONSTANTS
  Baselines <- Incidental
  MaxFragments = 2
  BytesMax = 100
INVARIANT AnyOrderAgrees
