\* The sweeps of a gate whose wrappers may crash or lose every answer; a relay's long polls.
SPECIFICATION LiveSpec
CONSTANTS
    Engines = {e1}
    OwnerEngines = {}
    Agents = {a1}
    Keys = {k1}
    Bodies = {b1}
    Owned = {}
    Chains = {c1}
    Omitted = omitted
    HoldIds = {h1}
    GrantIds = {g1}
    Boots = {x1}
    Roots = {r1}
    Rosters <- ShortRoster
    Ttls = {1}
    GrantTtl = 2
    SweepWindow = 1
    MaxPending = 1
    BootSkew = 0
    None = none
    MaxTime = 3
    MaxRestarts = 0
    Invocations = {i1, i2}
PROPERTIES
    OverdueSettles
    ExecutionIsRecorded
    EveryWaitEnds
CHECK_DEADLOCK FALSE
