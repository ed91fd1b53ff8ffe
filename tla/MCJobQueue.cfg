\* Safety, refinement and liveness: two overlapping polls, two jobs of which the
\* second gets a single attempt, one fault.
SPECIFICATION FairSpec
CONSTANTS
    j1 = j1
    j2 = j2
    p1 = p1
    p2 = p2
    Jobs = {j1, j2}
    Polls = {p1, p2}
    Cancels = {j1}
    BatchSize = 2
    Priority <- MCPriority
    MaxRetries <- MCMaxRetries
    MaxFaults = 1
INVARIANTS
    FailedOnlyWhenExhausted
    NothingDroppedUnrun
    IInv
PROPERTIES
    SettledForGood
    ImplementsDelivery
    EventuallySettles
\* once every row is settled and past its retention nothing is left to do
CHECK_DEADLOCK FALSE
