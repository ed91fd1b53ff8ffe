-------------------------- MODULE MCBookingRequests --------------------------
EXTENDS BookingRequests, TLC

CONSTANTS b1, b2, p1, p2, m1

\* Both requests are made by one member, for overlapping hours.
MCOwner == [b \in Bookings |-> m1]
MCStart == [b \in Bookings |-> IF b = b1 THEN 1 ELSE 2]
MCEnd == [b \in Bookings |-> IF b = b1 THEN 3 ELSE 4]
SameStart == [b \in Bookings |-> 1]
SameEnd == [b \in Bookings |-> 2]

ProcSymmetry == Permutations(Procs)
FullSymmetry == Permutations(Procs) \cup Permutations(Bookings)
=============================================================================
