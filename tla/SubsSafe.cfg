SPECIFICATION AnsweringSpec
CONSTANTS
    t1 = t1
    t2 = t2
    credit = credit
    legal = legal
    d1 = d1
    d2 = d2
    NoTask = NoTask
    Tasks = {t1, t2}
    Roles = {credit, legal}
    Calls = {d1, d2}
    Slots = 1
    Interrupts = FALSE
    DbFails = FALSE
    MaxBoots = 1
INVARIANTS
    RegistryIsExact
    EveryOutcomeIsTold
    BoardIsTrue
PROPERTIES
    SpawnedIsTold
CHECK_DEADLOCK FALSE
