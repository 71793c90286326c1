\* A put that cannot be persisted.
SPECIFICATION Spec
CONSTANTS
    Agents = {a1}
    Devices = {d1}
    Holds = {h1, h2}
    Keys = {k1, k2}
    Actions = {x}
    Deferreds = {q1}
    Verdicts = {"ALLOWED"}
    None = none
    Ttl = 1
    Timeout = 1
    MaxPending = 2
    MaxTime = 2
    MaxPosts = 1
    MaxWaits = 1
    MaxFailures = 1
    MaxBoots = 2
INVARIANT
    MemoryIsDisk
CHECK_DEADLOCK FALSE
