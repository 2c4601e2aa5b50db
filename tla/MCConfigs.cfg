SPECIFICATION Spec
CONSTANTS
  a = a
  b = b
  l = l
  cmd = cmd
  bin = bin
  wrapper = wrapper
  proxyBinary = proxyBinary
  VAR = VAR
  OPT = OPT
  token = token
  path = path
  tool = tool
  fi_mcp = fi_mcp
  AllTools = AllTools
  Server = {a, b, l}
  Target = {"codex", "kilocode", "vscode", "example_client"}
  Tool = {tool}
  Name = {VAR, OPT}
  Value = {token, path, bin}
  Command = {cmd, bin}
  NoCommand = NoCommand
  NoEnv = NoEnv
  Servers <- ToServers
  ResolveTokens <- ToPath
  Asked <- ToAsked
CHECK_DEADLOCK FALSE
INVARIANT EnvOfTarget
