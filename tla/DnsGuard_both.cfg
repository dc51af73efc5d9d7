SPECIFICATION GuardSpec
CONSTANTS
  cable = cable
  wifi = wifi
  Links = {cable, wifi}
  Terminal = TRUE
  Arrives = TRUE
  Drops = TRUE
  Fails = TRUE
  Crashes = {"restore"}
PROPERTY PointedAgain
