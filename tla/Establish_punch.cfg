SPECIFICATION FairSpec
CONSTANTS
  A = A
  B = B
  sa = sa
  sb = sb
  Stranger = Stranger
  NoConn = NoConn
  Peers = {A, B}
  First = A
  Servers = {sa, sb}
  ServerA = sa
  Modes = {"rendezvous", "loopback", "lan"}
  Odd <- SameOrOdd
  Strangers = {TRUE, FALSE}
INVARIANTS TypeOK SymmetricIsNotPunched OneSession
PROPERTIES EstablishEnds
CHECK_DEADLOCK FALSE
