SPECIFICATION Spec
CONSTANTS
  devbox = devbox
  git = git
  extra = extra
  Server = {devbox, git, extra}
  Caller = {g1}
  Initial <- Old
  Reloads <- Growing
  LocalOnly = {devbox}
  hubEnabled = TRUE
  failureThreshold = 2
  NoHealth = NoHealth
  NoCall = NoCall
INVARIANT RouteAnswers
