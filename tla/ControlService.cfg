CONSTANTS
    Actions = actions
    Subsystems = {actions, flags}
    Callers = {c1}
    Intervals = {5, 60}
    DefaultInterval = 60
    Revert = FALSE
    MaxHash = 2
    MaxPublishes = 1
    MaxCrashes = 1
    MaxFull = 1
    MaxChanges = 1
SPECIFICATION FairSpec
INVARIANT
    RememberedIsApplied
PROPERTIES
    NeverBackwards
    SkippedIsApplied
    Converges
    FullFetchHonoured
CHECK_DEADLOCK FALSE
