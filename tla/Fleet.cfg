SPECIFICATION FairSpec
CONSTANTS
  p1 = p1
  p2 = p2
  Pods <- TwoPods
  Skew <- Drifted
  TTL = 3
  MaxLatency = 1
  MaxCrashes = 1
  Horizon <- NobodysFuture
  NoOwner = NoOwner
INVARIANTS OneLiveHolder
PROPERTIES RetentionContinues
CHECK_DEADLOCK FALSE
