SPECIFICATION Spec
CONSTANTS
  k1 = k1
  k2 = k2
  Keys = {k1, k2}
  NoOwner = NoOwner
  Owners <- ApiOwners
  Role <- ApiRole
  KeySeq <- ApiKeySeq
  Ttl <- ApiTtl
  SingleKey = k2
  KeyList <- MCKeyList
  Ms = 1
  MaxExact = 100
  DefaultTtl = 1
  GivenTtl = 3
  CallApi <- MCCallApi
  MaxAttempts = 2
  MaxNow = 3
INVARIANTS
  GuardsExclude
  TtlAsAsked
  AttemptsAsPromised
PROPERTIES
  NoneIsContention
CHECK_DEADLOCK FALSE
