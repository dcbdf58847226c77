SPECIFICATION Spec
CONSTANTS
  t1 = t1
  t2 = t2
  x1 = x1
  x2 = x2
  x3 = x3
  Tokens = {t1, t2}
  Addrs = {x1, x2, x3}
  Fps = {"p", "q"}
  NoToken = NoToken
  NoAddr = NoAddr
  NoSession = NoSession
  NoDatagram = NoDatagram
  IdleTimeout = 1
  SweepInterval = 1
  MaxTime = 3
  MaxHellos = 4
SYMMETRY Symmetry
INVARIANTS TypeOK IndexIsInverse OnlyPartnersHear IdleSessionsGo
