SPECIFICATION FairSpec
CONSTANTS
  devbox = devbox
  git = git
  extra = extra
  Server = {devbox, git}
  Caller = {g1, g2}
  Initial <- Old
  Reloads <- Shrinking
  LocalOnly = {devbox}
  hubEnabled = TRUE
  failureThreshold = 2
  NoHealth = NoHealth
  NoCall = NoCall
PROPERTIES RefusedOnlyInWindow Reopens
