SPECIFICATION GuardSpec
CONSTANTS
  cable = cable
  wifi = wifi
  Links = {cable, wifi}
  Terminal = FALSE
  Arrives = TRUE
  Drops = FALSE
  Fails = FALSE
  Crashes = {}
INVARIANT NothingWithoutCopy
