SPECIFICATION TufSpec
CONSTANTS
  Channels = {"stable"}
  Stable = "stable"
  Published = {1, 2}
  Unset = Unset
  PinValues = {Unset, 2}
  Installed = 1
  TufMinimum = 1
  MaxEvents = 2
PROPERTY UpdatesRun
CHECK_DEADLOCK FALSE
