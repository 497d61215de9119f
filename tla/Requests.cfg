SPECIFICATION MCSpec
CONSTANTS
    Tags = {t1, t2, t3}
    Limit = 2
    MaxAlarmRetries = 2
    MaxRequests = 3
    MaxCrashes = 1
    Isolates = {i1, i2}
    Sends = {m1, m2}
    Works = {w1, w2, w3, w4}
    Cookies = {"theirs", "ours"}
    GivenCookies <- MCGiven
    MaxCookies = 2
    MaxHeads = 2
    MaxRedirects = 2
CHECK_DEADLOCK FALSE
INVARIANT RequestsTypeOK
INVARIANT OwedIsBuffered
INVARIANT QuietOnlyAfterHead
INVARIANT CutOnlyWhenLate
INVARIANT RoutedHeadersSent
INVARIANT BranchSettled
INVARIANT CookiesSent
PROPERTY StrandedOnlyByRateLimit
PROPERTY ImplementsBuffer
PROPERTY TableDrains
PROPERTY StalePageRendered
