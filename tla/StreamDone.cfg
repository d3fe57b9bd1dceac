SPECIFICATION StreamSpec
CONSTANTS
    NoAmount = NoAmount
    DefaultThreshold = 5
    AutoMax = 10
    Assumptions <- ToyAssumptions
    Numeric <- ToyNumeric
    Rates <- ToyRates
    Text = Text
    NoRecord = NoRecord
    NoSegment = NoSegment
    SingleCap = 6
    GroupCap = 10
    SparkBuckets = 3
    TrendBucket = 2
    NoModel = NoModel
    Approvals = {1, 2, 3}
    Snapshots <- NoteSnapshots
    PageLimit = 1
    MaxNow = 1
    PromptKeys = {1, 2}
    Texts = {"t0", "t1"}
    RepositoryText <- FileTexts
    Admins = {w1, w2}
    Syncs = {s1}
    Readers = {r1}
    Ttl = 1
    MaxClock = 2
    Groups = {g1}
    Callers = {u1, u2}
    MaxTurns = 2
    MaxEvents = 1
    MaxRows = 2
    NoTenant = NoTenant
    DefaultTenant = DefaultTenant
    OtherTenant = OtherTenant
    Tabs = {b1}
    CanvasCards = {k1}
    TurnMax = 1
    ChunkMax = 3
    ConnMax = 2
    QueueMax = 2
    OpenMax = 2
    People = {"C001", "C901"}
    NoOne = NoOne
    SeedKind <- SeedKinds
    Minted = {"C901"}
    UserRows = {a1}
    PaperRows = {r1x}
    SeedRows = {n1}
    SeedOwner <- SeedOwners
    Sessions = {x1, x2}
PROPERTIES
    DoneShowsTheAnswer
CHECK_DEADLOCK FALSE
