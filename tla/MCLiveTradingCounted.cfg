SPECIFICATION Spec
CONSTANTS
  k1 = k1
  k2 = k2
  q1 = q1
  q2 = q2
  c1 = c1
  c2 = c2
  h1 = h1
  NoKey = NoKey
  NoQuote = NoQuote
  Keys = {k1}
  Quotes = {q1}
  Calls = {c1, c2}
  Hosts = {h1}
  HostOf <- OneHost
  Limit = 1
  MaxAuths = 2
  FinalAt = "confirmed"
INVARIANTS
  LandedIsCounted
CHECK_DEADLOCK FALSE
