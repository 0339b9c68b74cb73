CONSTANTS
    Enrollments = {e1}
    Callers = {c1, c2}
    MaxRuns = 2
    MaxConfigs = 1
    MaxStandby = 2
SYMMETRY CallerSymmetry
SPECIFICATION Spec
INVARIANTS
    InstancesAccounted
    RestartNotLost
CHECK_DEADLOCK FALSE
