\* The processes that live by a file, one at a time.  The two pairs of ids that
\* may be exchanged are the same values in every part.
SPECIFICATION MCSpec
CONSTANTS
    Holds = {u1, u2}
    Params = {v1, v2}
    Lifetime = 3
    Windows = {1}
    Skew = 1
    MaxEntries = 2
    None = none
    MaxTime = 3
    MaxBoots = 2
    First = v1
    Second = v2
    Pay = pay
    Echo = echo
    Wipe = wipe
    Idle = idle
    Approver = ann
    Stranger = eve
    Pair = {u1, u2}
    Procs = {u1, u2, p3}
SYMMETRY Symmetry
INVARIANTS
    OneGrantPerApproval
    GrantIsApproved
    LogVerifies
    HeldRunsOnce
    RestartResumes
    OneWriter
PROPERTIES
    ImplementsDurableChains
CHECK_DEADLOCK FALSE
