SPECIFICATION Spec
CONSTANTS
  Server = {s1}
  Host = {h1, h2}
  Client = {c1}
  Listed = {s1}
  NoHost = NoHost
CHECK_DEADLOCK FALSE
INVARIANT ActiveHostsRegistered
