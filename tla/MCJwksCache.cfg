SPECIFICATION CacheSpec
CONSTANTS
  Key <- MCKey
  Documents <- MCDocuments
  Token <- MCToken
  Call = {c1, c2}
  MaxTime = 1
  MaxRestarts = 1
INVARIANTS
  CacheTypeOK
  AcceptedIsGenuine
  RejectedForCause
PROPERTIES
  KeysOnlyGrow
  CachedNeverWaits
CHECK_DEADLOCK FALSE
