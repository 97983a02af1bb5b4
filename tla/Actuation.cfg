SPECIFICATION StreetSpec
CONSTANTS
  period = 3
  HalfPeriod = 3
  MaxBlock = 2
  MmuTimeout = 7
INVARIANTS
  NoConflictingIndication
  NoNuisanceTrip
PROPERTIES
  FlashKeepsBlinking
  DeadTrainOpensRelay
