SPECIFICATION MCSpec
CONSTANTS
    Functions = {f1, f2}
    Setups <- MCSetups
    MaxBuilds = 2
    MaxCommands = 4
    Requests = {r1, r2}
    Hosts = {h1, h2}
    None = None
CHECK_DEADLOCK FALSE
SYMMETRY Alike
INVARIANT FailsOnlyByTools
INVARIANT ShippedIsFresh
INVARIANT WorkerComplete
INVARIANT OutputResolves
INVARIANT CachingAgrees
INVARIANT OriginsKnown
INVARIANT CutOnlyByOthers
