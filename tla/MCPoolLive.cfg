SPECIFICATION FairSpec
CONSTANTS
  Server = {s1}
  Caller = {g1, g2, g3}
  Id = {i1, i2}
  MaxIdle = 1
  MaxOpen = 1
  WaitTimeout = 1
  NoConn = NoConn
INVARIANTS NoLostWakeup
PROPERTIES GetReturns Drained
