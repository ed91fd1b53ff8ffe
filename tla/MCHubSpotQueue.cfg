\* Safety: one member, two tiers HubSpot knows and one it does not, two server processes, two requests.
SPECIFICATION Spec
CONSTANTS
    Members = {m1}
    Tiers = {gold, core, staff}
    Listed = {gold, core}
    Workers = {w1, w2}
    Changers = {c1, c2}
    TierRetries = 1
    FixRetries = 1
    MaxRows = 2
    MaxChanges = 2
    MaxFaults = 1
SYMMETRY ProcessSymmetry
INVARIANTS
    CompletedReachedHubSpot
    NoStaleRetry
    HubSpotFollowsTier
    FullInv
PROPERTIES
    ClosedForGood
\* once every row is closed and no change is left nothing happens
CHECK_DEADLOCK FALSE
