SPECIFICATION FairSpec
CONSTANTS
  c1 = c1
  c2 = c2
  c3 = c3
  fabric = fabric
  powerbi = powerbi
  Calls <- MCCalls
  Audiences <- MCAudiences
  AudienceOf <- MCAudienceOf
  RefreshOffset = 1
  Lifetimes = {0, 2}
  MaxTime = 2
  MaxEpoch = 1
  NoCall = NoCall
  NoToken = NoToken
INVARIANTS
  SingleFlight
  NoAbandonedPromise
  ReturnedTokenWasValid
  ClearForgets
PROPERTIES
  CacheServesUnexpired
  WaitersAnswered
CHECK_DEADLOCK FALSE
