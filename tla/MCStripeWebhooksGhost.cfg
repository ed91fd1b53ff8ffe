SPECIFICATION Spec
CONSTANTS
    createdA = createdA
    behindA = behindA
    pausedA = pausedA
    resumedA = resumedA
    deletedA = deletedA
    createdB = createdB
    a = a
    b = b
    NoSubscription = NoSubscription
    Events = {createdA, behindA, pausedA, resumedA, deletedA, createdB}
    Subscriptions = {a, b}
    Subscription <- MCSubscription
    Type <- MCType
    Payload <- MCPayload
    Recovery = {}
    EmittedAt <- MCEmittedAt
    Workers = {w1, w2}
    MaxTransactions = 4
    MaxReplays = 0
SYMMETRY Symmetry
PROPERTY
    NoGhostReactivation
CHECK_DEADLOCK FALSE
