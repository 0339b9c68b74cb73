CONSTANTS
    Actions = actions
    Subsystems = {actions}
    Callers = {c1, c2}
    Intervals = {5, 60}
    DefaultInterval = 60
    Revert = FALSE
    MaxHash = 1
    MaxPublishes = 0
    MaxCrashes = 0
    MaxFull = 0
    MaxChanges = 2
SPECIFICATION FairSpec
PROPERTY
    IntervalFollowsFlag
CHECK_DEADLOCK FALSE
