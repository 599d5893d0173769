SPECIFICATION FairSpec
CONSTANTS
  p1 = p1
  p2 = p2
  f = f
  Pods <- TwoPods
  AutoPods <- OnePod
  Families <- OneFamily
  Flushes <- SmallFlushes
  Never = Never
  NewRule = TRUE
  EveryRule = TRUE
  NewFamilyWindow = 1
  CacheTTL = 1
  CacheMax = 1
  MaxTime = 2
  MaxRequests = 1
  MaxFaults = 1
  Window = 1
  Cooldown = 1
  MaxFamilies = 1
  MaxPending = 3
  LastSeenMayFall = FALSE
  MaxFlushes = 2
INVARIANTS  CooldownKept PagedOrLost
PROPERTIES DiagnosedOncePerWindow NoteExplained BacklogDrains
CHECK_DEADLOCK FALSE
