SPECIFICATION Spec
CONSTANTS
  p1 = p1
  p2 = p2
  p3 = p3
  q1 = q1
  q2 = q2
  Procs = {p1, p2, p3}
  Peers = {q1, q2}
  Absent = Absent
  Torn = Torn
  NoProc = NoProc
  MaxDamage = 1
CHECK_DEADLOCK FALSE
INVARIANTS TypeOK NoRecordIsLost HistoryIsReadable IdentityIsOne PeersAreKept
SYMMETRY Symmetry
CONSTRAINT OneRace
