SPECIFICATION FairSpec
CONSTANTS
    c1 = c1  c2 = c2  c3 = c3  c4 = c4
    id1 = id1  id2 = id2  id3 = id3
    home = home  blog = blog
    Alarm = Alarm
    None = None
    Calls = {c1, c2, c3}
    Ids <- TwoIds
    Routes <- HomeAndBlog
    RouteOf <- RouteOfTwo
    LastModified <- ModifiedTwo
    MaxRevalidations = 1
    FirstRetry = 1
    RetryInterval = 1
    MaxRetries = 1
    DisableSQLite = FALSE
    TicksPerSecond = 4
    MaxTime = 2
    MaxRestarts = 0
CHECK_DEADLOCK FALSE
INVARIANT WaiterNotStuck
INVARIANT OngoingIsRunning
INVARIANT MapBounded
PROPERTY WaitersServed
