\* One gate process: several holds, chains, keys and an effect-owned action.
SPECIFICATION SameSpec
CONSTANTS
    Engines = {e1}
    OwnerEngines = {e1}
    Agents = {a1}
    Keys = {k1, k2, k3}
    Bodies = {b1, b2}
    Owned = {b2}
    Chains = {c1}
    Omitted = omitted
    HoldIds = {h1, h2, h3}
    GrantIds = {g1}
    Boots = {x1}
    Roots = {r1}
    Rosters <- LongRoster
    Ttls = {1}
    GrantTtl = 2
    SweepWindow = 1
    MaxPending = 2
    BootSkew = 0
    None = none
    MaxTime = 2
    MaxRestarts = 1
SYMMETRY Symmetry
INVARIANTS
    PendingHoldsLimited
    NamedRetryFindsHold
PROPERTIES
    ReportedIsFinal
    EvidenceIsKept
CHECK_DEADLOCK FALSE
