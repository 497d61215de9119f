SPECIFICATION IsolateSpec
CONSTANTS
    Requests = {r1, r2}
    Hosts = {h1, h2}
    None = None
CHECK_DEADLOCK FALSE
INVARIANT PromisesAwaited
