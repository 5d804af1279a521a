SPECIFICATION Spec
CONSTANTS
  t1 = t1
  t2 = t2
  k1 = k1
  k2 = k2
  NoTrade = NoTrade
  Trades = {t1}
  Keys = {k1, k2}
  Amounts = {1, 2}
  PerTrade = 2
  Windows = {1, 2}
  Cap <- MCCap
  MaxTime = 0
INVARIANTS
  ConfirmedNotUnwound
CHECK_DEADLOCK FALSE
