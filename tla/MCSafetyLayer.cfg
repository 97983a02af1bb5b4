SPECIFICATION FairSpec
CONSTANTS
  Never = Never
  TimingChoices <- AllTimings
  MajorChoices = {"NS", "EW", "UNKNOWN"}
  MAX_GREEN_S = 8
  ALL_RED_S = 1
  SanityGreenS = 5
  SanityYellowS = 3
  PollGap = 1
  MaxAge = 10
INVARIANTS
  NoFrozenPhase
  FlashOnlyIfCorrupt
PROPERTIES
  KeepsPromise
  TargetLocked
  RingServesEveryApproach
  CommittedGreenServed
  CorruptRingEndsInFlash
