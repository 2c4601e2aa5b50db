SPECIFICATION FairSpec
CONSTANTS
  Server = {s1, s2}
  Host = {h1, h2}
  Client = {c1}
  Listed = {s1}
  NoHost = NoHost
CHECK_DEADLOCK FALSE
INVARIANTS TypeOK NoDeadHostRegistered AttachmentsAgree ClientsCounted NothingLeftOpen
PROPERTIES HandlersLeave SendEnds RelayEnds
