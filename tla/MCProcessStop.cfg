SPECIFICATION FairSpec
CONSTANTS
  Server = {s1}
  Caller = {c1}
  Proc = {p1}
  NoServer = NoServer
  NoProc = NoProc
PROPERTY StopIsBounded
