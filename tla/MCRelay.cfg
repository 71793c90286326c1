\* The parts of the relay, one at a time.  The two ids that may be exchanged are
\* the same values in every part.
SPECIFICATION MCSpec
CONSTANTS
    Keys = {u1, u2, u3}
    NoBucket = nobucket
    Capacity = 3
    Refill = 1
    IdleEviction = 2
    MaxBuckets = 2
    MaxTicks = 4
    None = none
    Agents = {a1, a2}
    Devices = {d1, d2}
    TwoHolds = {v1, v2}
    TwoKeys = {u1, u2}
    OneHold = h0
    OneKey = k0
    Action = x
    Deferred = q
    Tokens = {p1}
    DeviceTokens = {q1, q2}
    AgentIds = {u1, u2}
    DeviceIds = {v1, v2}
    Kid = kid
    Tenants = {t1, t2}
    Contents = {m1, m2}
    Delegation = g
SYMMETRY Symmetry
INVARIANTS
    WindowBound
    DecidedForThisHold
    AnswersAreDurable
    OnePerIndex
PROPERTIES
    DevicesStayBound
    ManifestsMoveForward
CHECK_DEADLOCK FALSE
