SPECIFICATION FairSpec
CONSTANTS
  Server = {s1, s2}
  Caller = {c1, c2}
  Proc = {p1, p2}
  NoServer = NoServer
  NoProc = NoProc
INVARIANTS NoOrphan StopsWhatItSaw
PROPERTIES LifeSpec StopsReturn
