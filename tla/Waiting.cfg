SPECIFICATION WaitingSpec
CONSTANTS
    m1 = m1
    m2 = m2
    c1 = c1
    c2 = c2
    l1 = l1
    credit = credit
    legal = legal
    Events <- MCEvents
    Human <- MCHuman
    RoleOf <- MCRoleOf
    MaxQueue = 2
    Threads = {a, b, c}
    Nested = {a, b}
    PoolMax = 2
    MaxGen = 2
    Cards = {f1, f2}
    Requests = {q1, q2}
    OwnerOf <- SameOwner
    Foreign = {}
    Taken <- TakenNumbers
    MaxWording = 1
INVARIANTS
    QueueIsNeverStranded
    SlotsBalance
    FormIsWhole
PROPERTIES
    KeepsPromise
    HumanIsServed
    RoleIsHeard
    BorrowerReturns
    SubmissionEnds
CHECK_DEADLOCK FALSE
