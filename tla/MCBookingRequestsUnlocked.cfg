\* Two creations without locks.
SPECIFICATION Spec
CONSTANTS
    b1 = b1
    b2 = b2
    p1 = p1
    p2 = p2
    m1 = m1
    Bookings = {b1, b2}
    Members = {m1}
    Bays = {"bay"}
    Rooms = {}
    NoBay = "none"
    Procs = {p1, p2}
    Handlers = {"unlocked"}
    Free = "free"
    Owner <- MCOwner
    Start <- MCStart
    End <- MCEnd
SYMMETRY ProcSymmetry
INVARIANTS
    NoDoubleBooking
