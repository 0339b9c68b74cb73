CONSTANTS
    Enrollments = {e1}
    Callers = {c1}
    MaxRuns = 1
    MaxConfigs = 1
    MaxStandby = 2
SPECIFICATION Spec
INVARIANT
    ShutdownStopsOsquery
CHECK_DEADLOCK FALSE
