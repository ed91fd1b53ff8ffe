\* Approval against every way to cancel and against handlers that write, unguarded,
\* a row they read earlier; all bookings want the same slot.
SPECIFICATION Spec
CONSTANTS
    b1 = b1
    b2 = b2
    p1 = p1
    p2 = p2
    m1 = m1
    Bookings = {b1, b2}
    Members = {m1}
    Bays = {"bay"}
    Rooms = {}
    NoBay = "none"
    Procs = {p1, p2}
    Handlers = {"approve", "unlocked", "cancel", "webhookCancel", "memberCancel", "legacyCancel", "confirm", "revert", "generic", "link"}
    Free = "free"
    Owner <- MCOwner
    Start <- SameStart
    End <- SameEnd
SYMMETRY FullSymmetry
INVARIANTS
    NoVettedDoubleBooking
PROPERTIES
    ApprovalFromRequest
