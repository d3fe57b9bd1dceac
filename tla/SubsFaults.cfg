SPECIFICATION FairSpec
CONSTANTS
    t1 = t1
    t2 = t2
    credit = credit
    legal = legal
    d1 = d1
    d2 = d2
    NoTask = NoTask
    Tasks = {t1, t2}
    Roles = {credit}
    Calls = {d1, d2}
    Slots = 1
    Interrupts = TRUE
    DbFails = TRUE
    MaxBoots = 0
INVARIANTS
    OneSubPerRole
PROPERTIES
    CancelEnds
    DispatchReturns
CHECK_DEADLOCK FALSE
