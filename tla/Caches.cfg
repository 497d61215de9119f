SPECIFICATION MCSpec
CONSTANTS
    page = page
    data = data
    raw = raw
    hard = hard
    soft = soft
    Keys <- MCKeys
    HardTags = {hard}
    SoftTags = {soft}
    TagsOf <- MCTagsOf
    SoftOf <- MCSoftOf
    PathOf <- MCPathOf
    Sets = {s1, s2}
    Revalidations = {r1, r2}
    Gets = {g1}
    Missing = Missing
    MaxInstant = 3
    MaxFaults = 1
    RegionalOps = {o1, o2}
    MaxEntries = 3
    MaxComposed = 3
    ComposedGets = {c1, c2}
    Instances = {i1, i2}
    TTL = 1
    MaxWrites = 2
    MaxTime = 3
    MaxRuns = 3
    Chunks = 1
    MaxVersions = 2
CHECK_DEADLOCK FALSE
SYMMETRY Alike
INVARIANT CachesTypeOK
INVARIANT StaleOnlyByOverlap
INVARIANT BehindOnlyByRace
INVARIANT StaleHitOnlyByRefill
INVARIANT OlderOnlyByOverlap
INVARIANT LocalStaleOnlyInInstant
INVARIANT RoutedToOwn
INVARIANT ForgottenOnlyByRace
INVARIANT LiveIsPopulated
PROPERTY RevalidationsKept
