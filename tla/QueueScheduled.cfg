SPECIFICATION Spec
CONSTANTS
    c1 = c1  c2 = c2  c3 = c3  c4 = c4
    id1 = id1  id2 = id2  id3 = id3
    home = home  blog = blog
    Alarm = Alarm
    None = None
    Calls = {c1, c2, c3}
    Ids <- ThreeIds
    Routes <- HomeAndBlog
    RouteOf <- RouteOfThree
    LastModified <- ModifiedThree
    MaxRevalidations = 3
    FirstRetry = 2
    RetryInterval = 2
    MaxRetries = 1
    DisableSQLite = FALSE
    TicksPerSecond = 4
    MaxTime = 4
    MaxRestarts = 0
CHECK_DEADLOCK FALSE
SYMMETRY CallsAlike
INVARIANT FailedIsScheduled
