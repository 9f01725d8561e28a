SPECIFICATION Spec
CONSTANTS
  BytesMax = 16
  Probe = "native"
  InitHost <- MCInit
  Order <- MCOrder
  MaxOutside = 0
  MaxMinor = 2
  MaxFaults = 0
CHECK_DEADLOCK FALSE
INVARIANTS RecipeIsSupported
