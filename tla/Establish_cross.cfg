SPECIFICATION Spec
CONSTANTS
  A = A
  B = B
  sa = sa
  sb = sb
  Stranger = Stranger
  NoConn = NoConn
  Peers = {A, B}
  First = A
  Servers = {sa, sb}
  ServerA = sa
  Modes = {"rendezvous"}
  Odd <- AllSame
  Strangers = {FALSE}
INVARIANT BothKeepTheFirst
CHECK_DEADLOCK FALSE
