SPECIFICATION Spec
CONSTANTS
    m1 = m1
    m2 = m2
    c1 = c1
    c2 = c2
    l1 = l1
    credit = credit
    legal = legal
    Events <- MCEvents
    Human <- MCHuman
    RoleOf <- MCRoleOf
    MaxQueue = 5
PROPERTIES
    MergeKeepsTheNewest
CHECK_DEADLOCK FALSE
