CONSTANTS
    Keys = {k1}
    Values = {v1}
    Observers = {o1}
    Setters = {s1}
    MaxStarts = 2
    MaxWrites = 0
SPECIFICATION FairSpec
PROPERTY
    OverrideEnds
CHECK_DEADLOCK FALSE
