SPECIFICATION StatusSpec
CONSTANTS
  Never = Never
  TimingChoices <- Scaled
  MajorChoices = {"NS"}
  MAX_GREEN_S = 4
  ALL_RED_S = 2
  SanityGreenS = 3
  SanityYellowS = 2
  MaxBlock = 3
  MaxAge = 8
  CameraTimeout = 3
PROPERTIES
  HeadsNeverJump
