SPECIFICATION HSpec
CONSTANTS
  srv = srv
  Server = {srv}
  Caller = {g1, g2, g3}
  Conn = {c1, c2}
  ServerOf <- ToSrv
  MaxIdle = 1
  MaxOpen = 2
  MaxID = 4
  OthersID = {2}
  Absent = Absent
  Parked = Parked
  None = None
SYMMETRY Symmetric
INVARIANTS ReplyIsMine HubReplyIsMine
PROPERTIES NoReplyStolen
