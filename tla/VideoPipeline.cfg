SPECIFICATION FairSpec
CONSTANTS
  Captures = {c1, c2, c3}
  None = None
INVARIANTS
  ReadsOpenCapture
  TriggerNeverWaits
  NothingSurvives
PROPERTIES
  CameraComesBack
