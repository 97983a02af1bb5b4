SPECIFICATION FairSpec
CONSTANTS
  capacity = 2
  failure_threshold = 2
  recovery_streak = 2
  silence_timeout = 3
  max_age = 1
  max_future_skew = 0
  ttl = 2
  MaxBlock = 1
  MaxBurst = 2
  MaxSeq = 1
PROPERTIES
  CommandsAfterReconnect
