\* Gate processes over one durable store: two that race, or one that restarts.
SPECIFICATION MCSpec
CONSTANTS
    Engines = {e1, e2}
    OwnerEngines = {}
    Agents = {a1}
    Keys = {k1}
    Bodies = {b1}
    Owned = {}
    Chains = {c1}
    Omitted = omitted
    HoldIds = {h1}
    GrantIds = {g1, g2}
    Boots = {x1, x2}
    Roots = {r1, r2}
    Rosters <- ShortRosters
    Ttls = {2}
    GrantTtl = 2
    SweepWindow = 1
    MaxPending = 1
    BootSkew = 1
    None = none
    MaxTime = 4
    MaxRestarts = 2
    Worker = e1
    Only = g1
INVARIANTS
    GrantsMatchApprovals
    ShownIsStored
    ReservedOnce
    UncertaintyAfterWindow
    ResolvedByItsRoot
    AuthorityWithinHold
PROPERTIES
    ImplementsAuthority
    SettledIsFinal
    DecidedAndSpentAtHome
CHECK_DEADLOCK FALSE
