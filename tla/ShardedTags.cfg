SPECIFICATION Spec
CONSTANTS
    Writers = {w1, w2}
    Lookups = {l1}
    Tags = {news}
    shard = shard
    Shards = {shard}
    ShardOf <- InOneShard
    Replicas = {r1, r2}
    None = None
    MaxWriteRetries = 1
    RegionalCache = TRUE
    PersistMissing = TRUE
    Ttl = 1
    MaxTime = 2
    Modified = {0}
CHECK_DEADLOCK FALSE
SYMMETRY Alike
INVARIANT NewestWriteWins
INVARIANT FinishedWritesSeen
INVARIANT AnswersAreWritten
INVARIANT StaleOnlyByRace
