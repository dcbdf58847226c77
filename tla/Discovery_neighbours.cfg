SPECIFICATION FairSpec
CONSTANTS
  A = A
  B = B
  ra = ra
  rb = rb
  pa = pa
  a1 = a1
  b1 = b1
  b2 = b2
  NoEntry = NoEntry
  Devices = {A, B}
  Addrs = {a1, b1, b2}
  Prober = {pa}
  Host <- MCHost
  Subnet <- TwoSubnets
  Managers = {ra, rb, pa}
  Places <- EitherPlace
  EchoThrottle = 2
  StabilityWindow = 4
  FastBcast = 2
  SlowBcast = 3
  SweepEvery = 3
  PeerTtl = 4
  ProbeRounds = 2
  ProbePolls = 1
  PollEvery = 1
  RoundDelay = 0
  ProbeBackoff = 3
  MaxLoss = 1
  MaxMoves = 1
  MaxStarts = 2
INVARIANTS TypeOK RoundsMakeUpForLoss
PROPERTIES EchoesDie NeighboursKnowEachOther GonePeersGo
