SPECIFICATION FairSpec
CONSTANTS
  a = a
  b = b
  l = l
  u = u
  Server = {a, b, l, u}
  codex = codex
  Target = {codex, plain}
  t1 = t1
  t2 = t2
  Tool = {t1, t2}
  VAR = VAR
  Name = {VAR}
  old = old
  new = new
  Value = {old, new}
  Command = {}
  NoCommand = NoCommand
  NoEnv = NoEnv
  Request = {r1, r2}
  Servers <- ToServers
CHECK_DEADLOCK FALSE
INVARIANTS TypeOK OnlyAllowedCalled
PROPERTIES Answered
