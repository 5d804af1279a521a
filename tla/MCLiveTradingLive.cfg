SPECIFICATION LaterSpec
CONSTANTS
  k1 = k1
  k2 = k2
  q1 = q1
  q2 = q2
  c1 = c1
  c2 = c2
  h1 = h1
  NoKey = NoKey
  NoQuote = NoQuote
  Keys = {k1, k2}
  Quotes = {q1, q2}
  Calls = {c1}
  Hosts = {h1}
  HostOf <- OneCall
  Limit = 1
  MaxAuths = 1
  FinalAt = "finalized"
PROPERTIES
  BroadcastSettles
CHECK_DEADLOCK FALSE
