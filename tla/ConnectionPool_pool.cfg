SPECIFICATION FairSpec
CONSTANTS
  Threads = {t1, t2, t3}
  Conns = {c1, c2}
  MinConn = 1
  MaxConn = 2
  NoConn = NoConn
INVARIANTS
  CountAccounted
  WithinCapacity
  HandlesExclusive
  FlagsFollowLoans
PROPERTIES
  ImplementsLoans
  CallsEnd
