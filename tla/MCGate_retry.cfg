\* One gate process: does every repeated request find its hold?
SPECIFICATION Spec
CONSTANTS
    Engines = {e1}
    OwnerEngines = {}
    Agents = {a1}
    Keys = {k1}
    Bodies = {b1}
    Owned = {}
    Chains = {c1}
    Omitted = omitted
    HoldIds = {h1, h2}
    GrantIds = {g1}
    Boots = {x1}
    Roots = {r1}
    Rosters <- LongRoster
    Ttls = {1}
    GrantTtl = 2
    SweepWindow = 1
    MaxPending = 2
    BootSkew = 0
    None = none
    MaxTime = 2
    MaxRestarts = 0
SYMMETRY Symmetry
INVARIANTS
    RetryFindsHold
CHECK_DEADLOCK FALSE
