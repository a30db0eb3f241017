SPECIFICATION FairSpec
CONSTANTS
  MaxChanges = 4
INVARIANTS
  TypeOK
  CacheConverges
PROPERTIES
  CacheNeverGoesBack
  CacheCatchesUp
CHECK_DEADLOCK FALSE
