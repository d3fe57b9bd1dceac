SPECIFICATION Spec
CONSTANTS
    t1 = t1
    t2 = t2
    credit = credit
    legal = legal
    d1 = d1
    d2 = d2
    NoTask = NoTask
    Tasks = {t1, t2}
    Roles = {credit, legal}
    Calls = {d1, d2}
    Slots = 1
    Interrupts = TRUE
    DbFails = FALSE
    MaxBoots = 0
INVARIANTS
    EveryOutcomeIsTold
CHECK_DEADLOCK FALSE
