SPECIFICATION Spec
CONSTANTS
  c1 = c1
  c2 = c2
  c3 = c3
  k1 = k1
  d1 = d1
  d2 = d2
  Conns = {c1, c2, c3}
  Devices = {d1, d2}
  Codes = {"x"}
  Tokens = {k1}
  NoConn = NoConn
  NoToken = NoToken
  NoSession = NoSession
  NoRequest = NoRequest
  HasRelay = TRUE
  MaxConcurrent = 3
PROPERTY FresherWaiterStays
