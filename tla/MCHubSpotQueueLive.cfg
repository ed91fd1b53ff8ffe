\* Liveness, and attempts used up before a row is dead: one tier change, its row and a re-queued copy, two workers, two faults.
SPECIFICATION FairSpec
CONSTANTS
    Members = {m1}
    Tiers = {gold, staff}
    Listed = {gold}
    Workers = {w1, w2}
    Changers = {c1}
    TierRetries = 2
    FixRetries = 1
    MaxRows = 2
    MaxChanges = 1
    MaxFaults = 2
INVARIANTS
    DeadOnlyWhenExhausted
PROPERTIES
    EventuallyCloses
\* once every row is closed and no change is left nothing happens
CHECK_DEADLOCK FALSE
