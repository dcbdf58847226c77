SPECIFICATION FairSpec
CONSTANTS
  c1 = c1
  c2 = c2
  a1 = a1
  f1 = f1
  f2 = f2
  Bridges = {"jni", "frb"}
  Calls = {c1, c2}
  NoCall = NoCall
  Addrs = {a1}
  NoAddr = NoAddr
  Fps = {f1, f2}
  NoFp = NoFp
  Holders <- OneHolder
  MaxVisits = 1
  MaxMoves = 1
CHECK_DEADLOCK FALSE
INVARIANTS TypeOK SoleTransferIsActive PinIsKept ResultIsTrue
PROPERTY EveryCallReturns
