\* guard run twice: over two gate processes, or again under its key or another.
SPECIFICATION MCSpec
CONSTANTS
    Engines = {e1, e2}
    OwnerEngines = {}
    Agents = {a1}
    Keys = {k1, k2}
    Bodies = {b1, b2}
    Owned = {}
    Chains = {c1}
    Omitted = omitted
    HoldIds = {h1, h2}
    GrantIds = {g1}
    Boots = {x1}
    Roots = {r1}
    Rosters <- LongRoster
    Ttls = {1}
    GrantTtl = 2
    SweepWindow = 1
    MaxPending = 2
    BootSkew = 0
    None = none
    MaxTime = 2
    MaxRestarts = 1
    Invocations = {i1, i2}
    Nobody = nobody
    Action = b1
SYMMETRY Symmetry
INVARIANTS
    OneExecution
    ConsumptionIsTrue
    RefusedNeverRuns
CHECK_DEADLOCK FALSE
