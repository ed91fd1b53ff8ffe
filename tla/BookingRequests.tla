--------------------------- MODULE BookingRequests ---------------------------
(***************************************************************************)
(* The life of a row of booking_requests on one day: creation by members   *)
(* and staff, approval, cancellation, check-in, expiry, and the Trackman   *)
(* webhooks, run concurrently by the server's request handlers and timers. *)
(*                                                                         *)
(* A handler that reads the row, or takes advisory locks, and writes it    *)
(* later is a process that goes through program points; a handler that is  *)
(* one guarded UPDATE is one atomic action.  The commit of a transaction   *)
(* and its last statement are one step.  Postgres runs at READ COMMITTED,  *)
(* so every read sees what has been committed by then.                     *)
(*                                                                         *)
(* A booking id stands for one request: its member and its hours are       *)
(* constants, its bay is chosen by the request and by approval.  Rejecting *)
(* a request for a reason outside this module (closure, daily limit, guest *)
(* passes, a failing session) is Abort, possible at every program point of *)
(* a transaction.                                                          *)
(***************************************************************************)
EXTENDS Naturals

CONSTANTS
    Bookings,    \* the booking ids
    Members,
    Bays,        \* the resources
    Rooms,       \* the resources of type conference_room
    NoBay,       \* resource_id NULL
    Procs,       \* concurrent request handlers
    Handlers,    \* the kinds of handlers that run, a subset of Kinds
    Free,        \* the owner of a lock nobody holds
    Owner,       \* user_email of each request
    Start, End   \* start_time and end_time of each request

Kinds == {"member", "staff", "approve", "unlocked", "confirm",
          "cancel", "webhookCancel", "memberCancel", "legacyCancel",
          "revert", "generic", "link"}

ASSUME HandlersAssumption == Handlers \subseteq Kinds
ASSUME BaysAssumption == Rooms \subseteq Bays /\ NoBay \notin Bays
ASSUME FreeAssumption == Free \notin Procs
ASSUME OwnerAssumption == Owner \in [Bookings -> Members]

\* The time-order CHECK of the table; requests over midnight are left out.
ASSUME HoursAssumption ==
    /\ Start \in [Bookings -> Nat]
    /\ End \in [Bookings -> Nat]
    /\ \A b \in Bookings : Start[b] < End[b]

VARIABLES
    status,      \* the status column, "absent" before INSERT
    bay,         \* the resource_id column
    linked,      \* trackman_booking_id IS NOT NULL
    pc,          \* where each handler stands
    op,          \* the request a handler serves and what it has read
    bayLock,     \* advisory lock resource_id::date
    memberLock,  \* advisory lock on the member's email
    rowLock,     \* advisory lock approve_booking_<id>
    vetted,      \* history: rows in the schedule since a bay check under the bay lock
    solo,        \* history: rows of member-made requests, active since then
    asked        \* history: bay requests of members, pending since then

row == <<status, bay, linked>>
locks == <<bayLock, memberLock, rowLock>>
history == <<vetted, solo, asked>>
vars == <<row, pc, op, locks, history>>

Statuses == {"absent", "pending", "pending_approval", "approved", "confirmed",
             "attended", "no_show", "cancelled", "cancellation_pending",
             "declined", "expired"}

Requested == {"pending", "pending_approval"}

\* The statuses of the conflict checks, of the member's own overlap check, and
\* of the exclusion constraint booking_requests_no_overlap.
Occupying == {"pending", "pending_approval", "approved", "confirmed",
              "attended", "cancellation_pending"}
Active == Occupying \ {"cancellation_pending"}
Excluded == {"pending", "approved", "confirmed"}

\* start_time < e AND end_time > s, as creation, the scans and the tsrange of the
\* constraint compare hours, and the three cases approveBooking spells out.
Overlap(b, c) == Start[c] < End[b] /\ End[c] > Start[b]

OverlapCases(b, c) ==
    \/ Start[c] <= Start[b] /\ End[c] > Start[b]
    \/ Start[c] < End[b] /\ End[c] >= End[b]
    \/ Start[c] >= Start[b] /\ End[c] <= End[b]

Points == {"idle", "lockRow", "lockBay", "lockMember", "checkBay",
           "checkMember", "commit", "session", "write"}

\* kind: which handler; id, bay: what the request asks for; seen: the status it
\* has read, if it decides on it again; detour: its verdict that Trackman has to
\* cancel first.
Requests == [kind : Kinds, id : Bookings, bay : Bays \cup {NoBay},
             seen : Statuses, detour : BOOLEAN]
NoRequest == [kind |-> "none"]

TypeOK ==
    /\ status \in [Bookings -> Statuses]
    /\ bay \in [Bookings -> Bays \cup {NoBay}]
    /\ linked \in [Bookings -> BOOLEAN]
    /\ pc \in [Procs -> Points]
    /\ op \in [Procs -> Requests \cup {NoRequest}]
    /\ bayLock \in [Bays -> Procs \cup {Free}]
    /\ memberLock \in [Members -> Procs \cup {Free}]
    /\ rowLock \in [Bookings -> Procs \cup {Free}]
    /\ vetted \subseteq Bookings
    /\ solo \subseteq Bookings
    /\ asked \subseteq Bookings

Init ==
    /\ status = [b \in Bookings |-> "absent"]
    /\ bay = [b \in Bookings |-> NoBay]
    /\ linked = [b \in Bookings |-> FALSE]
    /\ pc = [p \in Procs |-> "idle"]
    /\ op = [p \in Procs |-> NoRequest]
    /\ bayLock = [y \in Bays |-> Free]
    /\ memberLock = [m \in Members |-> Free]
    /\ rowLock = [b \in Bookings |-> Free]
    /\ vetted = {}
    /\ solo = {}
    /\ asked = {}

-----------------------------------------------------------------------------
(* Rows, locks and program points.                                         *)

Exists(b) == status[b] # "absent"

\* An id nobody has inserted and no running request will insert.
Fresh(b) == ~Exists(b) /\ \A q \in Procs : pc[q] # "idle" => op[q].id # b

\* The exclusion constraint lets b have status s on bay y.
Admits(b, s, y) ==
    s \in Excluded /\ y # NoBay =>
        \A c \in Bookings \ {b} :
            status[c] \in Excluded /\ bay[c] = y => ~Overlap(b, c)

SetStatus(b, s) ==
    /\ status' = [status EXCEPT ![b] = s]
    /\ vetted' = IF s \in Occupying THEN vetted ELSE vetted \ {b}
    /\ solo' = IF s \in Active THEN solo ELSE solo \ {b}
    /\ asked' = IF s = "pending" THEN asked ELSE asked \ {b}

\* One UPDATE or INSERT of b; the statement fails when the constraint does not
\* admit the new version, and nothing changes.
Write(b, s) ==
    IF Admits(b, s, bay[b])
    THEN SetStatus(b, s)
    ELSE UNCHANGED <<status, history>>

Goto(p, point) == pc' = [pc EXCEPT ![p] = point]

Begin(p, point, request) ==
    /\ pc[p] = "idle"
    /\ request.kind \in Handlers
    /\ pc' = [pc EXCEPT ![p] = point]
    /\ op' = [op EXCEPT ![p] = request]

\* A transaction's advisory locks end with it.
Release(p) ==
    /\ bayLock' = [y \in Bays |-> IF bayLock[y] = p THEN Free ELSE bayLock[y]]
    /\ memberLock' = [m \in Members |-> IF memberLock[m] = p THEN Free ELSE memberLock[m]]
    /\ rowLock' = [b \in Bookings |-> IF rowLock[b] = p THEN Free ELSE rowLock[b]]

Return(p) ==
    /\ pc' = [pc EXCEPT ![p] = "idle"]
    /\ op' = [op EXCEPT ![p] = NoRequest]
    /\ Release(p)

\* Program points before a handler's last statement.
InTransaction == {"lockRow", "lockBay", "lockMember", "checkBay", "checkMember", "commit"}

\* The request is rejected, or fails and is rolled back.
Abort(p) ==
    /\ pc[p] \in InTransaction \cup {"write"}
    /\ Return(p)
    /\ UNCHANGED <<row, history>>

-----------------------------------------------------------------------------
(* Creation under the advisory locks: POST /api/booking-requests ("member")*)
(* and the staff's manual booking ("staff").                               *)

StartCreation(p, kind, b, y) ==
    /\ Fresh(b)
    /\ Begin(p, IF y # NoBay THEN "lockBay"
                ELSE IF kind = "member" THEN "lockMember" ELSE "commit",
             [kind |-> kind, id |-> b, bay |-> y, seen |-> "absent", detour |-> FALSE])
    /\ UNCHANGED <<row, locks, history>>

AfterBayLock(kind) == IF kind = "member" THEN "lockMember" ELSE "checkBay"

\* Mutant: the handlers lock different keys, so that nobody waits.
LockBayUncontended(p) ==
    /\ pc[p] = "lockBay"
    /\ op[p].bay # NoBay
    /\ bayLock' = [bayLock EXCEPT ![op[p].bay] = p]
    /\ Goto(p, AfterBayLock(op[p].kind))
    /\ UNCHANGED <<row, op, memberLock, rowLock, history>>

LockBay(p) ==
    /\ pc[p] = "lockBay"
    /\ op[p].bay # NoBay
    /\ bayLock[op[p].bay] = Free
    /\ bayLock' = [bayLock EXCEPT ![op[p].bay] = p]
    /\ Goto(p, AfterBayLock(op[p].kind))
    /\ UNCHANGED <<row, op, memberLock, rowLock, history>>

\* Mutant: pending requests are counted without the lock on the member.
CountWithoutLock(p) ==
    LET m == Owner[op[p].id] IN
    /\ pc[p] = "lockMember"
    /\ op[p].bay \notin Rooms =>
          \A c \in Bookings : Owner[c] = m => status[c] # "pending"
    /\ Goto(p, IF op[p].bay = NoBay THEN "checkMember" ELSE "checkBay")
    /\ UNCHANGED <<row, op, locks, history>>

\* A member has one pending request at a time; conference rooms are exempt.
LockMember(p) ==
    LET m == Owner[op[p].id] IN
    /\ pc[p] = "lockMember"
    /\ memberLock[m] = Free
    /\ op[p].bay \notin Rooms =>
          \A c \in Bookings : Owner[c] = m => status[c] # "pending"
    /\ memberLock' = [memberLock EXCEPT ![m] = p]
    /\ Goto(p, IF op[p].bay = NoBay THEN "checkMember" ELSE "checkBay")
    /\ UNCHANGED <<row, op, bayLock, rowLock, history>>

\* Mutant: the scan forgets rows that have been played or wait for Trackman.
BayIsFreeOfLive(b, y) ==
    \A c \in Bookings :
        status[c] \in Excluded \cup {"pending_approval"} /\ bay[c] = y => ~Overlap(b, c)

\* checkResourceOverlap, and the same scan of the manual booking.
BayIsFree(b, y) ==
    \A c \in Bookings :
        status[c] \in Occupying /\ bay[c] = y => ~Overlap(b, c)

CheckBay(p) ==
    /\ pc[p] = "checkBay"
    /\ op[p].kind \in {"member", "staff"}
    /\ BayIsFree(op[p].id, op[p].bay)
    /\ Goto(p, IF op[p].kind = "member" THEN "checkMember" ELSE "commit")
    /\ UNCHANGED <<row, op, locks, history>>

\* Mutant: requests that wait for an answer are forgotten.
CheckMemberAnswered(p) ==
    /\ pc[p] = "checkMember"
    /\ \A c \in Bookings :
          Owner[c] = Owner[op[p].id] /\ status[c] \in Active \ Requested => ~Overlap(op[p].id, c)
    /\ Goto(p, "commit")
    /\ UNCHANGED <<row, op, locks, history>>

\* A member is in one place at a time.
CheckMember(p) ==
    /\ pc[p] = "checkMember"
    /\ \A c \in Bookings :
          Owner[c] = Owner[op[p].id] /\ status[c] \in Active => ~Overlap(op[p].id, c)
    /\ Goto(p, "commit")
    /\ UNCHANGED <<row, op, locks, history>>

Insert(b, s, y, trackman) ==
    /\ Admits(b, s, y)
    /\ status' = [status EXCEPT ![b] = s]
    /\ bay' = [bay EXCEPT ![b] = y]
    /\ linked' = [linked EXCEPT ![b] = trackman]

\* A conference room is confirmed at once and gets its session after the commit.
CommitRoom(p) ==
    /\ pc[p] = "commit"
    /\ op[p].kind \in {"member", "staff"}
    /\ op[p].bay \in Rooms
    /\ Insert(op[p].id, "confirmed", op[p].bay, FALSE)
    /\ Goto(p, "session")
    /\ Release(p)
    /\ vetted' = vetted \cup {op[p].id}
    /\ solo' = IF op[p].kind = "member" THEN solo \cup {op[p].id} ELSE solo
    /\ UNCHANGED <<op, asked>>

CommitMember(p) ==
    /\ pc[p] = "commit"
    /\ op[p].kind = "member"
    /\ op[p].bay \notin Rooms
    /\ Insert(op[p].id, "pending", op[p].bay, FALSE)
    /\ Return(p)
    /\ vetted' = vetted \cup {op[p].id}
    /\ solo' = solo \cup {op[p].id}
    /\ asked' = asked \cup {op[p].id}

\* The staff's manual booking is pending, or approved when paid with a day pass,
\* and may carry a Trackman id.
CommitStaff(p) ==
    /\ pc[p] = "commit"
    /\ op[p].kind = "staff"
    /\ \E s \in {"pending", "approved"}, trackman \in BOOLEAN :
          Insert(op[p].id, s, op[p].bay, trackman)
    /\ Return(p)
    /\ vetted' = vetted \cup {op[p].id}
    /\ UNCHANGED <<solo, asked>>


-----------------------------------------------------------------------------
(* PUT /api/booking-requests/:id with status approved, possibly with another *)
(* bay (resource_id) and a Trackman id.                                    *)

StartApprove(p, b, y) ==
    /\ Exists(b)
    /\ Begin(p, "lockRow", [kind |-> "approve", id |-> b, bay |-> y,
                            seen |-> "absent", detour |-> FALSE])
    /\ UNCHANGED <<row, locks, history>>

LockRow(p) ==
    LET b == op[p].id
        assigned == IF op[p].bay # NoBay THEN op[p].bay ELSE bay[b]
    IN
    /\ pc[p] = "lockRow"
    /\ rowLock[b] = Free
    /\ rowLock' = [rowLock EXCEPT ![b] = p]
    /\ op' = [op EXCEPT ![p].seen = status[b], ![p].bay = assigned]
    /\ Goto(p, IF assigned = NoBay THEN "checkBay" ELSE "lockBay")
    /\ UNCHANGED <<row, bayLock, memberLock, history>>

\* Mutant: approval forgets cancellation_pending.
BayAdmitsAmongActive(b, y) ==
    \A c \in Bookings \ {b} :
        status[c] \in Active /\ bay[c] = y => ~OverlapCases(b, c)

BayAdmitsApproval(b, y) ==
    \A c \in Bookings \ {b} :
        status[c] \in Occupying /\ bay[c] = y => ~OverlapCases(b, c)

CheckApproval(p) ==
    /\ pc[p] = "checkBay"
    /\ op[p].kind = "approve"
    /\ op[p].seen \in Requested
    /\ op[p].bay # NoBay
    /\ BayAdmitsApproval(op[p].id, op[p].bay)
    /\ Goto(p, "commit")
    /\ UNCHANGED <<row, op, locks, history>>

\* Mutant: the UPDATE finds the row by its id alone.
StillThere(b) == Exists(b)

\* The WHERE clause of the UPDATE.
StillRequested(b) == status[b] \in Requested

CommitApproval(p) ==
    LET b == op[p].id IN
    /\ pc[p] = "commit"
    /\ op[p].kind = "approve"
    /\ StillRequested(b)
    /\ \E trackman \in {linked[b], TRUE} : Insert(b, "approved", op[p].bay, trackman)
    /\ Return(p)
    /\ vetted' = vetted \cup {b}
    /\ asked' = asked \ {b}
    /\ UNCHANGED solo

\* Approving an approved booking only adds the Trackman id.
LinkApproved(p) ==
    /\ pc[p] = "checkBay"
    /\ op[p].kind = "approve"
    /\ op[p].seen \in {"approved", "confirmed", "attended"}
    /\ linked' = [linked EXCEPT ![op[p].id] = TRUE]
    /\ Return(p)
    /\ UNCHANGED <<status, bay, history>>

-----------------------------------------------------------------------------
(* Handlers that read the row, decide, and write it by id later.           *)

Read(p, kind, b, seen, detour) ==
    /\ Exists(b)
    /\ Begin(p, "write", [kind |-> kind, id |-> b, bay |-> NoBay,
                          seen |-> seen, detour |-> detour])
    /\ UNCHANGED <<row, locks, history>>

\* The last UPDATE of such a handler.
Writes(p, kind) == pc[p] = "write" /\ op[p].kind = kind

Finish(p, s) ==
    /\ Write(op[p].id, s)
    /\ Return(p)
    /\ UNCHANGED <<bay, linked>>

FinishIf(p, from, s) ==
    IF status[op[p].id] \in from
    THEN Finish(p, s)
    ELSE Return(p) /\ UNCHANGED <<row, history>>

\* wasApproved && isTrackmanLinked: Trackman has to cancel first.
NeedsPendingCancel(b) == linked[b] /\ status[b] = "approved"

Cancellable == {"pending", "pending_approval", "approved", "confirmed"}

\* BookingStateService.cancelBooking, for staff ("cancel") and for Trackman.
StartCancel(p, b) ==
    /\ status[b] \notin {"cancelled", "cancellation_pending"}
    /\ Read(p, "cancel", b, "absent", NeedsPendingCancel(b))

StartWebhookCancel(p, b) ==
    /\ linked[b]
    /\ status[b] # "cancelled"
    /\ Read(p, "webhookCancel", b, "absent", FALSE)

WriteCancel(p) ==
    /\ Writes(p, "cancel") \/ Writes(p, "webhookCancel")
    /\ IF op[p].detour
       THEN FinishIf(p, {"approved", "confirmed"}, "cancellation_pending")
       ELSE Finish(p, "cancelled")

\* PUT /api/booking-requests/:id/member-cancel.
StartMemberCancel(p, b) ==
    /\ status[b] \notin {"cancelled", "declined", "cancellation_pending"}
    /\ Read(p, "memberCancel", b, "absent", NeedsPendingCancel(b))

WriteMemberCancel(p) ==
    /\ Writes(p, "memberCancel")
    /\ FinishIf(p, Cancellable, IF op[p].detour THEN "cancellation_pending" ELSE "cancelled")

\* PUT /api/bookings/:id/member-cancel, the older route.
StartLegacyCancel(p, b) ==
    /\ status[b] \notin {"cancelled", "cancellation_pending"}
    /\ Read(p, "legacyCancel", b, "absent", NeedsPendingCancel(b))

WriteLegacyCancel(p) ==
    /\ Writes(p, "legacyCancel")
    /\ Finish(p, IF op[p].detour THEN "cancellation_pending" ELSE "cancelled")

\* Undo of a check-in.
StartRevert(p, b) ==
    /\ status[b] \in {"attended", "no_show"}
    /\ Read(p, "revert", b, "absent", FALSE)

WriteRevert(p) == Writes(p, "revert") /\ Finish(p, "approved")

\* ALLOWED_STATUS_TRANSITIONS without the targets the route handles before; a
\* status that is no key of the table may become anything.
Transitions(s) ==
    CASE s = "pending"              -> {"cancellation_pending"}
      [] s = "approved"             -> {"attended", "no_show", "cancellation_pending", "confirmed"}
      [] s = "confirmed"            -> {"attended", "no_show", "cancellation_pending"}
      [] s = "declined"             -> {"pending"}
      [] s \in {"pending_approval", "expired"} ->
            Statuses \ {"absent", "approved", "declined", "cancelled"}
      [] OTHER                      -> {}

StartGeneric(p, b) ==
    /\ Transitions(status[b]) # {}
    /\ Read(p, "generic", b, status[b], FALSE)

WriteGeneric(p) ==
    /\ Writes(p, "generic")
    /\ \E s \in Transitions(op[p].seen) : Finish(p, s)

\* PUT /api/bookings/:id/approve: conflicts with three statuses only.
StartConfirm(p, b) ==
    /\ bay[b] # NoBay
    /\ \A c \in Bookings \ {b} :
          status[c] \in {"confirmed", "approved", "pending_approval"} /\ bay[c] = bay[b]
             => ~Overlap(b, c)
    /\ Read(p, "confirm", b, "absent", FALSE)

WriteConfirm(p) == Writes(p, "confirm") /\ Finish(p, "confirmed")

\* Creation without locks: POST /api/bookings and two staff routes check the
\* bay, then INSERT.
StartUnlocked(p, b, y) ==
    /\ Fresh(b)
    /\ y # NoBay
    /\ BayIsFree(b, y)
    /\ Begin(p, "write", [kind |-> "unlocked", id |-> b, bay |-> y,
                          seen |-> "absent", detour |-> FALSE])
    /\ UNCHANGED <<row, locks, history>>

InsertUnlocked(p) ==
    /\ Writes(p, "unlocked")
    /\ \E s \in {"pending_approval", "approved"} : Insert(op[p].id, s, op[p].bay, FALSE)
    /\ Return(p)
    /\ UNCHANGED history

\* A Trackman booking is matched to an unlinked request and approves it.
StartLink(p, b) ==
    /\ status[b] \in {"pending", "pending_approval", "approved"}
    /\ ~linked[b]
    /\ Read(p, "link", b, status[b], FALSE)

\* The UPDATE asks for trackman_booking_id IS NULL, not for a status.
WriteLink(p) ==
    LET b == op[p].id IN
    /\ Writes(p, "link")
    /\ IF linked[b] \/ ~Admits(b, "approved", bay[b])
       THEN Return(p) /\ UNCHANGED <<row, history>>
       ELSE /\ SetStatus(b, "approved")
            /\ linked' = [linked EXCEPT ![b] = TRUE]
            /\ UNCHANGED bay
            /\ \/ Return(p)
               \/ /\ op[p].seen # "pending_approval"
                  /\ Goto(p, "session")
                  /\ UNCHANGED <<op, locks>>

\* After the commit a conference room or a linked booking gets its session; when
\* that fails the row goes back to pending.
SessionMade(p) ==
    /\ pc[p] = "session"
    /\ Return(p)
    /\ UNCHANGED <<row, history>>

SessionFailed(p) ==
    /\ pc[p] = "session"
    /\ Finish(p, "pending")

-----------------------------------------------------------------------------
(* Handlers that are one guarded UPDATE.                                   *)

Update(b, from, s) ==
    /\ status[b] \in from
    /\ Admits(b, s, bay[b])
    /\ SetStatus(b, s)
    /\ UNCHANGED <<bay, linked, pc, op, locks>>

Decline(b) == Update(b, Requested, "declined")

\* PUT /api/bookings/:id/decline checks no status.
DeclineResource(b) == Update(b, Statuses \ {"absent"}, "declined")

DevConfirm(b) == Update(b, Requested, "approved")

\* A cancelled booking can be checked in when it has a session.
CheckIn(b) ==
    \E s \in {"attended", "no_show"} :
        Update(b, {"approved", "confirmed", "attended", "no_show",
                   "cancelled", "cancellation_pending"} \ {s}, s)

CompletePendingCancellation(b) == Update(b, {"cancellation_pending"}, "cancelled")

\* DELETE /api/bookings/:id archives a row of any status.
SoftDelete(b) == Update(b, Statuses \ {"absent"}, "cancelled")

ExpireRequest(b) ==
    Update(b, Requested, IF linked[b] THEN "cancellation_pending" ELSE "expired")

AutoComplete(b) == Update(b, {"approved", "confirmed"}, "attended")

\* A Trackman booking that matches a cancelled request is linked to it.
LinkCancelled(b) ==
    /\ status[b] = "cancelled"
    /\ ~linked[b]
    /\ linked' = [linked EXCEPT ![b] = TRUE]
    /\ UNCHANGED <<status, bay, pc, op, locks, history>>

\* A Trackman id given to another booking leaves the one that had it.  Which row
\* had it, and its status, is read a statement earlier; the two are one step here.
Settled == {"cancelled", "cancellation_pending", "declined", "no_show"}

Unlink(b) ==
    /\ linked[b]
    /\ status[b] \in Settled
    /\ linked' = [linked EXCEPT ![b] = FALSE]
    /\ UNCHANGED <<status, bay, pc, op, locks, history>>

\* A booking of the same member that has not ended is declined with it.
DeclineRelinked(b) ==
    /\ linked[b]
    /\ status[b] \notin Settled \cup {"absent"}
    /\ SetStatus(b, "declined")
    /\ linked' = [linked EXCEPT ![b] = FALSE]
    /\ UNCHANGED <<bay, pc, op, locks>>

\* An unmatched Trackman booking takes its slot: the INSERT that meets the
\* constraint is repeated after cancelling what is in the way.
TrackmanInsert(b, y) ==
    LET inTheWay == {c \in Bookings : /\ y # NoBay
                                      /\ status[c] \in Excluded
                                      /\ bay[c] = y
                                      /\ Overlap(b, c)}
    IN
    /\ Fresh(b)
    /\ status' = [c \in Bookings |->
                     IF c = b THEN "approved" ELSE IF c \in inTheWay THEN "cancelled" ELSE status[c]]
    /\ bay' = [bay EXCEPT ![b] = y]
    /\ linked' = [linked EXCEPT ![b] = TRUE]
    /\ vetted' = vetted \ inTheWay
    /\ solo' = solo \ inTheWay
    /\ asked' = asked \ inTheWay
    /\ UNCHANGED <<pc, op, locks>>

-----------------------------------------------------------------------------
HandlerStep(p) ==
    \/ \E b \in Bookings, y \in Bays \cup {NoBay} :
          \/ StartCreation(p, "member", b, y)
          \/ StartCreation(p, "staff", b, y)
          \/ StartApprove(p, b, y)
          \/ StartUnlocked(p, b, y)
    \/ \E b \in Bookings :
          \/ StartCancel(p, b) \/ StartWebhookCancel(p, b)
          \/ StartMemberCancel(p, b) \/ StartLegacyCancel(p, b)
          \/ StartRevert(p, b) \/ StartGeneric(p, b)
          \/ StartConfirm(p, b) \/ StartLink(p, b)
    \/ LockRow(p) \/ LockBay(p) \/ LockMember(p)
    \/ CheckBay(p) \/ CheckMember(p) \/ CheckApproval(p)
    \/ CommitRoom(p) \/ CommitMember(p) \/ CommitStaff(p) \/ CommitApproval(p) \/ LinkApproved(p)
    \/ WriteCancel(p) \/ WriteMemberCancel(p) \/ WriteLegacyCancel(p)
    \/ WriteRevert(p) \/ WriteGeneric(p) \/ WriteConfirm(p)
    \/ InsertUnlocked(p) \/ WriteLink(p)
    \/ SessionMade(p) \/ SessionFailed(p)
    \/ Abort(p)

UpdateStep(b) ==
    \/ Decline(b) \/ DeclineResource(b) \/ DevConfirm(b) \/ CheckIn(b)
    \/ CompletePendingCancellation(b) \/ SoftDelete(b)
    \/ ExpireRequest(b) \/ AutoComplete(b)
    \/ LinkCancelled(b) \/ Unlink(b) \/ DeclineRelinked(b)
    \/ \E y \in Bays \cup {NoBay} : TrackmanInsert(b, y)

Next == (\E p \in Procs : HandlerStep(p)) \/ (\E b \in Bookings : UpdateStep(b))

Spec == Init /\ [][Next]_vars

-----------------------------------------------------------------------------
(* What the locks and the checks achieve.                                  *)

\* Two bookings that entered the schedule through a conflict check made under
\* the bay's lock (member creation, staff booking, approval) and have kept
\* their place since never overlap on one bay.
NoVettedDoubleBooking ==
    \A b, c \in vetted :
        b # c /\ bay[b] = bay[c] /\ bay[b] # NoBay => ~Overlap(b, c)

\* A member who asked for two active bookings is not in two places at once:
\* their own requests never overlap, whatever the bays.
NoMemberClash ==
    \A b, c \in solo :
        b # c /\ Owner[b] = Owner[c] => ~Overlap(b, c)

\* A member has at most one request for a bay waiting at a time.
OneRequestPerMember ==
    \A b, c \in asked : Owner[b] = Owner[c] => b = c

\* The approval of a request that was declined, cancelled or approved by
\* someone else after it was read does not go through: only the creation of a
\* row or a request that still waits leads to an approval that is vetted.
ApprovalFromRequest ==
    [][\A b \in vetted' \ vetted : status[b] \in Requested \cup {"absent"}]_vars

-----------------------------------------------------------------------------
(* The handlers together are one clerk at the desk: each conflict check    *)
(* decides at the commit, in one step with the write, however its handler  *)
(* was interleaved with the others.                                        *)

Desk == INSTANCE ReservationDesk WITH
    place <- [b \in vetted |-> bay[b]],
    own <- solo,
    waiting <- asked

\* Every commit enters its booking in a schedule that has room for it at that
\* moment, and every other statement only takes bookings out of the schedule.
ImplementsDesk == Desk!Spec

-----------------------------------------------------------------------------
(* Why: the inductive invariant.                                           *)

\* What a handler may be doing where it stands.
RequestFitsPoint(p) ==
    /\ pc[p] # "idle" => op[p] \in Requests
    /\ pc[p] \in {"lockMember", "checkMember"} => op[p].kind = "member"
    /\ pc[p] = "lockRow" => op[p].kind = "approve"

Inserting(p) ==
    /\ pc[p] \notin {"idle", "session"}
    /\ op[p].kind \in {"member", "staff", "unlocked"}

\* Nobody else knows the booking that a creation is about to insert.
InsertsFreshRow(p) ==
    Inserting(p) =>
        /\ ~Exists(op[p].id)
        /\ \A q \in Procs \ {p} : pc[q] # "idle" => op[q].id # op[p].id

\* The locks are held from the moment they are taken up to the commit.
HoldsBayLock(p) ==
    pc[p] \in {"lockMember", "checkBay", "checkMember", "commit"} /\ op[p].bay # NoBay
        => bayLock[op[p].bay] = p

HoldsMemberLock(p) ==
    pc[p] \in {"checkBay", "checkMember", "commit"} /\ op[p].kind = "member"
        => memberLock[Owner[op[p].id]] = p

\* What a handler has checked is still true.
BayStillFree(p) ==
    pc[p] \in {"checkMember", "commit"} /\ op[p].bay # NoBay =>
        \A c \in vetted \ {op[p].id} : bay[c] = op[p].bay => ~Overlap(op[p].id, c)

MemberStillFree(p) ==
    pc[p] = "commit" /\ op[p].kind = "member" =>
        \A c \in solo : Owner[c] = Owner[op[p].id] => ~Overlap(op[p].id, c)

StillNothingAsked(p) ==
    /\ pc[p] \in {"checkBay", "checkMember", "commit"}
    /\ op[p].kind = "member"
    /\ op[p].bay \notin Rooms
    => \A c \in asked : Owner[c] # Owner[op[p].id]

HandlerInv(p) ==
    /\ RequestFitsPoint(p)
    /\ InsertsFreshRow(p)
    /\ HoldsBayLock(p)
    /\ HoldsMemberLock(p)
    /\ BayStillFree(p)
    /\ MemberStillFree(p)
    /\ StillNothingAsked(p)

\* The histories hold rows that the conflict checks look at.
HistoryIsCurrent ==
    /\ \A b \in vetted : status[b] \in Occupying
    /\ \A b \in solo : status[b] \in Active
    /\ \A b \in asked : status[b] = "pending"

\* The locks a handler holds keep everybody else from adding to the schedule what
\* its checks looked for, so that the checks are as good at the commit as when
\* they were made.
IInv ==
    /\ TypeOK
    /\ \A p \in Procs : HandlerInv(p)
    /\ HistoryIsCurrent
    /\ NoVettedDoubleBooking
    /\ NoMemberClash
    /\ OneRequestPerMember

-----------------------------------------------------------------------------
(* What the repository's rules say and the code does not keep.             *)

\* Creation takes locks so that two bookings made in the application never
\* occupy one bay at a time; Trackman's own bookings may.
NoDoubleBooking ==
    \A b, c \in Bookings :
        /\ b # c
        /\ {status[b], status[c]} \subseteq Occupying
        /\ ~linked[b] /\ ~linked[c]
        /\ bay[b] = bay[c]
        /\ bay[b] # NoBay
        => ~Overlap(b, c)
=============================================================================
