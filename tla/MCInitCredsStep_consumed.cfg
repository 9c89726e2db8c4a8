CONSTANTS
  NULL = NULL
  Realms <- MCRealms
  HomeRealm = "A"
  ClientName = "u"
  CanonName = "U"
  Enterprise = FALSE
  Now = 50
  ClockSkew = 5
  SyncKdcTime = FALSE
  Int32Max = 100
  Int32Min <- MCInt32Min
  MAX_IN_TKT_LOOPS = 4
  PrepareTypes = {2, 16}
  TryAgainTypes = {16}
  PasswordTypes = {2}
  KdcHints <- MCKdcHints
  PreferredPreauth <- MCPreferred
  Services <- MCServices
  StartTimes = {0, 10}
  RenewLifes = {0, 20}
  TktLifes = {20}
  PreauthLists <- MCPreauthLists
  KdcMaxLife = 30
  Canonicalize = {FALSE, TRUE}
  Nonce = 1
  OtherNonce = 2
  KdcBudget = 4
  MaxGetCalls = 1
SPECIFICATION Spec
PROPERTY LocallyConsumedErrors
