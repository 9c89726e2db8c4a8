CONSTANTS
  NULL = NULL
  Realms <- MCRealms
  HomeRealm = "A"
  ClientName = "u"
  CanonName = "U"
  Enterprise = FALSE
  Now = 50
  ClockSkew = 5
  SyncKdcTime = FALSE
  Int32Max = 100
  Int32Min <- MCInt32Min
  KdcHints <- MCKdcHints
  KdcMaxLife = 30
  OtherNonce = 2
  MAX_IN_TKT_LOOPS = 3
  KRB5_REFERRAL_MAXHOPS = 1
  ObtainTypes = {2, 16}
  PasswordTypes = {2}
  PreferredPreauth <- MCPreferred
  Calls <- MCCalls
SPECIFICATION Spec
INVARIANT RequestsBounded
