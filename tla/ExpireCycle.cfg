CONSTANTS
  a = a
  b = b
  c = c
  Key = {a, b, c}
  HashBits = 2
  HashFunctions <- SomeHashes
  INITIAL_EXP = 0
  MIN_FILL = 2
  force_resize_ratio = 2
  empty_visits = 2
  KEYS_PER_LOOP = 1
  ACCEPTABLE_STALE = 10
  BUCKETS_PER_KEY = 1
  SAMPLE_FILL = 3
SPECIFICATION FairSpec
INVARIANTS CycleTypeOK LookupFindsAll CycleInv ScanMissesNothing
PROPERTIES EntriesLeaveByName DueKeysGo CronReturns
