SPECIFICATION Spec
CONSTANTS
  a = a
  b = b
  c = c
  d = d
  x = x
  y = y
  Ids = {a, b, c, d}
  Buckets = {0, 1}
  BucketOf <- MCBucketOf
  RecordSets <- MCRecordSets
  Targets = {2, 4}
  PackageLimit = 3
  MaxCalls = 3
  MaxManifests = 1
  MaxFaults = 1
INVARIANTS
  RestoresWhole
  CommittedRestores
  PartsAgreeWithWhole
CHECK_DEADLOCK FALSE
