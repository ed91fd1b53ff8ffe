\* Creation by the member and by the desk against approval: two bookings of one
\* member at one time, a bay and a conference room.
SPECIFICATION Spec
CONSTANTS
    b1 = b1
    b2 = b2
    p1 = p1
    p2 = p2
    m1 = m1
    Bookings = {b1, b2}
    Members = {m1}
    Bays = {"bay", "room"}
    Rooms = {"room"}
    NoBay = "none"
    Procs = {p1, p2}
    Handlers = {"member", "staff", "approve"}
    Free = "free"
    Owner <- MCOwner
    Start <- SameStart
    End <- SameEnd
SYMMETRY FullSymmetry
INVARIANTS
    NoMemberClash
    OneRequestPerMember
    IInv
PROPERTIES
    ImplementsDesk
