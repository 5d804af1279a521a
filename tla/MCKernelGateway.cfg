SPECIFICATION Spec
CONSTANTS
  t1 = t1
  t2 = t2
  k1 = k1
  k2 = k2
  NoTrade = NoTrade
  Trades = {t1, t2}
  Keys = {k1, k2}
  Amounts = {0, 1, 2}
  PerTrade = 2
  Windows = {1, 2}
  Cap <- MCCap
  MaxTime = 3
SYMMETRY Symmetry
INVARIANTS
  CapHolds
  SentIsRecorded
  OneSignaturePerKey
  ConfirmedIsCounted
  FailedIsReleased
PROPERTIES
  ImplementsSettlement
CHECK_DEADLOCK FALSE
