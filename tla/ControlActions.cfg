CONSTANTS
    Actions = actions
    Subsystems = {actions}
    Callers = {}
    Intervals = {5, 60}
    DefaultInterval = 60
    Revert = FALSE
    MaxHash = 2
    MaxPublishes = 1
    MaxCrashes = 1
    MaxFull = 3
    MaxChanges = 0
    full = full
    other = other
    unknown = unknown
    Ids = {full, other, unknown}
    Actors = {full, other}
    FullFetch = full
    ActionsOf <- MCActionsOf
    MaxUnrecorded = 1
    MaxUnreadable = 1
    MaxExpired = 1
SPECIFICATION AllFairSpec
INVARIANTS
    RememberedListIsDone
    PerformedOnce

    
    
    
CHECK_DEADLOCK FALSE
