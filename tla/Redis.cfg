SPECIFICATION FairSpec
CONSTANTS
  api = api
  web = web
  Pods = {p1}
  Entries = {1, 2, 3, 4, 5}
  Kept = {1, 2}
  Tags = {api, web}
  TagsOf <- SharedTags
  Limit = 2
  ScanMultiple = 2
  KeptLonger = 4
  MaxFailures = 1
INVARIANTS CountsCover DrainedIsDrained
PROPERTIES RetentionConverges
CHECK_DEADLOCK FALSE
