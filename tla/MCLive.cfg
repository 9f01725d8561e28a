SPECIFICATION Spec
CONSTANTS
  BytesMax = 16
  Probe = "guest"
  InitHost <- MCInit
  Order <- MCOrder
  MaxOutside = 2
  MaxMinor = 2
  MaxFaults = 1
CHECK_DEADLOCK FALSE
INVARIANTS NativeHitsOwn ScopeIsReviewed GoalIsReal
PROPERTIES VerifiedIsReal
