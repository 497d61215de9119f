SPECIFICATION Spec
CONSTANTS
    Tags = {t1, t2, t3}
    Limit = 2
    MaxAlarmRetries = 2
    MaxRequests = 3
    MaxCrashes = 1
CHECK_DEADLOCK FALSE
SYMMETRY TagsAlike
INVARIANT NoPurgeLost
