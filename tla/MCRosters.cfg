SPECIFICATION Spec
CONSTANTS
    r1 = r1
    r2 = r2
    r3 = r3
    Requests <- MCRequests
    People = {a}
    Pending = pending
    Counts <- MCCounts
    Passes = 2
    NoVersion = noVersion
    NoRow = noRow
INVARIANTS PassesAccounted RefundedOnce SeesTheRoster IInv
PROPERTIES EditsEnd ImplementsEditing
CHECK_DEADLOCK FALSE
