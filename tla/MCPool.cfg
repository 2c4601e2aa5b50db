SPECIFICATION Spec
CONSTANTS
  Server = {s1}
  Caller = {g1, g2, g3, g4}
  Id = {i1, i2, i3, i4}
  MaxIdle = 2
  MaxOpen = 3
  WaitTimeout = 1
  NoConn = NoConn
SYMMETRY Symmetric
INVARIANTS TypeOK WithinLimits SlotsAccounted StatsAgree Exclusive NoLeak ClosedIsEmpty
PROPERTIES ExhaustedIsHonest OnlyBrokenDropped LeaseSpec
