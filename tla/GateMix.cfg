SPECIFICATION Spec
CONSTANTS
    c1 = c1
    c2 = c2
    op1 = op1
    op2 = op2
    mid = mid
    linked = linked
    foreign = foreign
    v1 = v1
    v2 = v2
    app = app
    app2 = app2
    loan = loan
    NoAmount = NoAmount
    DefaultThreshold = 5
    AutoMax = 10
    MaxAttempts = 1
    Thresholds = {0, 5}
    Linked <- MixLinked
    Foreign <- MixForeign
    Calls <- TwoCalls
    Convs <- MCConvs
    Targets <- MCTargets
    Intents <- MixIntents
    ConvOf <- MixConvOf
    ActionOf <- MixActionOf
    TargetOf <- MixTargetOf
    AmountOf <- MixAmountOf
SYMMETRY TwoCallSymmetry
INVARIANTS
    UsedIffExecutedOnce
    ClaimIsNeverLost
    ExecutionIsAuthorised
    AnswersAreTrue
