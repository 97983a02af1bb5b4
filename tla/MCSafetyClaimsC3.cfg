SPECIFICATION ClaimSpec
CONSTANTS
  Never = Never
  TimingChoices <- Shipped
  MajorChoices = {"NS"}
  MAX_GREEN_S = 8
  ALL_RED_S = 1
  SanityGreenS = 5
  SanityYellowS = 3
  PollGap = 1
  MaxAge = 10
PROPERTIES
  GreensMediatedByAmber
