SPECIFICATION StatusFairSpec
CONSTANTS
  Never = Never
  TimingChoices <- Varied
  MajorChoices = {"NS"}
  MAX_GREEN_S = 4
  ALL_RED_S = 2
  SanityGreenS = 3
  SanityYellowS = 2
  MaxBlock = 1
  MaxAge = 6
  CameraTimeout = 3
INVARIANTS
  ModeAgreement
  HeadsNotFrozen
  StatusTellsMode
PROPERTIES
  HeadsKeepPromise
  OutageServesEveryApproach
