\* An effect owner that restarts and loses its ledger, or two owners over one store.
SPECIFICATION MCSpec
CONSTANTS
    pay = pay
    drain = drain
    stray = stray
    plain = plain
    acc1 = acc1
    acc2 = acc2
    acc3 = acc3
    c1 = c1
    c2 = c2
    a1 = a1
    r1 = r1
    Omitted = omitted
    None = none
    Alone = e0
    Owners = {e1, e2}
    Keys = {k1, k2}
    OneKey = k0
    OneHold = h0
    HoldIds = {h1, h2}
    GrantIds = {g1, g2}
    Boots = {x1, x2, x3}
SYMMETRY Symmetry
INVARIANTS
    CommittedIsAnswered
    MirrorIsTrue
PROPERTIES
    CommitImplementsAuthority
CHECK_DEADLOCK FALSE
