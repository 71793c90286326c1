\* A session that is held twice at one sequence number: does the pending store still load?
SPECIFICATION Spec
CONSTANTS
    Sessions = {s1}
    Calls = {pay}
    Held = {pay}
    Refused = {}
    Approvers = {ann}
    Trusted = {ann}
    MaxReceipts = 5
    MaxRestarts = 1
    MaxScraps = 0
    MaxSessions = 1
    NoReceipt = 0
    Idle = idle
INVARIANTS
    LegitLogLoads
CHECK_DEADLOCK FALSE
