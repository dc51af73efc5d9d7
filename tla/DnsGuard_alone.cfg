SPECIFICATION GuardSpec
CONSTANTS
  cable = cable
  wifi = wifi
  Links = {cable, wifi}
  Terminal = FALSE
  Arrives = FALSE
  Drops = TRUE
  Fails = TRUE
  Crashes = {"none", "watch", "back", "aside", "give", "apply"}
INVARIANTS
  GuardTypeOK
  NothingWithoutCopy
  StopGivesBack
