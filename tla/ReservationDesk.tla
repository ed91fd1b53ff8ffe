--------------------------- MODULE ReservationDesk ---------------------------
(***************************************************************************)
(* What the locks and checks of BookingRequests are for: a desk at which   *)
(* one clerk looks at the schedule and writes into it in one movement.     *)
(*                                                                         *)
(* A booking is taken only when its bay is free of the bookings in the     *)
(* schedule; a member's own booking also needs the member to be free and,  *)
(* unless it is for a room, no earlier request of theirs to be waiting.    *)
(* A booking in the schedule changes its bay only by being taken again.    *)
(***************************************************************************)
CONSTANTS
    Bookings,
    Bays,
    Rooms,       \* the bays that need no approval
    NoBay,       \* the bay of a booking that has none yet
    Owner,       \* the member of each booking
    Overlap(_, _)

VARIABLES
    place,       \* the schedule: the bay of every booking in it
    own,         \* bookings members have made themselves and mean to play
    waiting      \* those of them that wait for approval

vars == <<place, own, waiting>>

Held == DOMAIN place

Init ==
    /\ place = [b \in {} |-> NoBay]
    /\ own = {}
    /\ waiting = {}

BayFree(b, y) ==
    y # NoBay => \A c \in Held \ {b} : place[c] = y => ~Overlap(b, c)

MemberFree(b) == \A c \in own : Owner[c] = Owner[b] => ~Overlap(b, c)

NothingWaiting(b) == \A c \in waiting : Owner[c] # Owner[b]

\* Enters b, or moves it.
Enter(b, y) ==
    /\ BayFree(b, y)
    /\ place' = [c \in Held \cup {b} |-> IF c = b THEN y ELSE place[c]]

\* A member asks for a bay, or takes a room.
Ask(b, y) ==
    /\ b \notin Held
    /\ MemberFree(b)
    /\ y \notin Rooms => NothingWaiting(b)
    /\ Enter(b, y)
    /\ own' = own \cup {b}
    /\ waiting' = IF y \in Rooms THEN waiting ELSE waiting \cup {b}

\* The staff enter a booking, or approve a request, perhaps on another bay.
Assign(b, y) ==
    /\ Enter(b, y)
    /\ own' = own
    /\ waiting' \in {waiting, waiting \ {b}}

\* Bookings leave the schedule, are given up by their members, or stop waiting;
\* one that waits for its cancellation to be confirmed keeps its place, one that
\* leaves the schedule leaves it altogether.
Leave(gone) ==
    /\ place' = [c \in Held \ gone |-> place[c]]
    /\ own' \in SUBSET (own \ gone)
    /\ waiting' \in SUBSET (waiting \ (own \ own'))

Next ==
    \/ \E gone \in SUBSET Held : Leave(gone)
    \/ \E b \in Bookings, y \in Bays \cup {NoBay} : Ask(b, y) \/ Assign(b, y)

Spec == Init /\ [][Next]_vars

-----------------------------------------------------------------------------
(* What follows for the schedule.                                          *)

OnePerBay ==
    \A b, c \in Held :
        b # c /\ place[b] = place[c] /\ place[b] # NoBay => ~Overlap(b, c)

OnePlacePerMember ==
    \A b, c \in own : b # c /\ Owner[b] = Owner[c] => ~Overlap(b, c)

OneWaitingPerMember ==
    \A b, c \in waiting : Owner[b] = Owner[c] => b = c

\* A request that waits is one its member still wants, and has its place.
WaitingHasPlace ==
    /\ waiting \subseteq own
    /\ own \subseteq Held
    /\ Held \subseteq Bookings

InOrder == OnePerBay /\ OnePlacePerMember /\ OneWaitingPerMember /\ WaitingHasPlace
=============================================================================
