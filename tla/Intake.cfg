SPECIFICATION FairSpec
CONSTANTS
    c1 = c1
    c2 = c2
    k1 = k1
    k2 = k2
    e1 = e1
    e2 = e2
    e3 = e3
    e4 = e4
    v1 = v1
    v2 = v2
    b1 = b1
    b2 = b2
    income = income
    NoPayload = NoPayload
    NoConv = NoConv
    NoReceipt = NoReceipt
    Cases = {k1, k2}
    Ids = {e1, e2, e3, e4}
    Convs = {v1, v2}
    Calls = {c1, c2}
    Shadow = TRUE
    Payloads <- MCPayloads
    Missing <- MCMissing
INVARIANTS
    AnsweredIsRecorded
PROPERTIES
    KeepsPromise
    RequestEnds
