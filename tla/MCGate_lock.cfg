\* Two gate processes: is the terminal report lock taken once?
SPECIFICATION Spec
CONSTANTS
    Engines = {e1, e2}
    OwnerEngines = {}
    Agents = {a1}
    Keys = {k1}
    Bodies = {b1}
    Owned = {}
    Chains = {c1}
    Omitted = omitted
    HoldIds = {h1}
    GrantIds = {g1, g2}
    Boots = {x1}
    Roots = {r1}
    Rosters <- LongRoster
    Ttls = {2}
    GrantTtl = 2
    SweepWindow = 1
    MaxPending = 1
    BootSkew = 0
    None = none
    MaxTime = 3
    MaxRestarts = 0
SYMMETRY Symmetry
PROPERTIES
    ReportedIsFinal
CHECK_DEADLOCK FALSE
