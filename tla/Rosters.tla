-------------------------------- MODULE Rosters --------------------------------
(***************************************************************************)
(* The roster of one booking: the players beside the owner, in             *)
(* booking_participants, and the guest passes that pay for some of them.   *)
(*                                                                         *)
(* Two kinds of requests edit it.  Those of rosterService read the booking *)
(* first, lock its row in a transaction, compare roster_version if the     *)
(* client sent one, and take and return passes in transactions of their    *)
(* own.  The staff pages (trackman/admin-roster, staffCheckin) write       *)
(* statement by statement, without the lock and without the version.       *)
(*                                                                         *)
(* Every request of Requests is made once and adds at most one row, which  *)
(* bears its name.  Fees, notifications and the owner's other bookings are *)
(* left out; so is the invoice, whose check may refuse any edit.           *)
(***************************************************************************)
EXTENDS Integers, FiniteSets

CONSTANTS
    Requests,    \* the requests, and the rows they insert
    People,      \* whom a row can name, as a member or as a guest
    Pending,     \* the name "Guest (info pending)"
    Counts,      \* the values of declared_player_count
    Passes,      \* guest_passes.passes_total of the owner
    NoVersion,   \* the client sent no rosterVersion
    NoRow        \* no row, no request

ASSUME RequestsAssumption == IsFiniteSet(Requests) /\ NoRow \notin Requests
ASSUME NamesAssumption == Pending \notin People /\ NoVersion \notin Nat
ASSUME CountsAssumption == Counts \subseteq Nat \ {0} /\ Passes \in Nat

VARIABLES
    at,        \* where a request stands
    op,        \* what it asks for
    who,       \* the person it names; the display_name or user_id of its row
    target,    \* the row it is about to delete
    flagged,   \* removals that read used_guest_pass = TRUE before the lock
    limit,     \* declared_player_count as read before the lock
    ver,       \* the rosterVersion the client sends
    saw,       \* the rows the client was shown with it
    roster,    \* the rows of booking_participants
    withPass,  \* those with used_guest_pass
    version,   \* booking_requests.roster_version
    declared,  \* booking_requests.declared_player_count
    session,   \* booking_requests.session_id IS NOT NULL
    lock,      \* who holds the row lock of the booking
    used,      \* guest_passes.passes_used
    carrying,  \* requests that took a pass for a row, or owe one for a row
    peak,      \* history: the largest declared count so far
    byDesk,    \* history: rows the staff pages have inserted, changed or deleted
    twice,     \* history: requests that refund a pass no row holds any more
    lost       \* history: requests and rows whose pass nobody refunds

request == <<op, who, target, flagged, limit>>
client == <<ver, saw>>
rows == <<roster, withPass>>
booking == <<version, declared, session>>
history == <<byDesk, twice>>
vars == <<at, request, client, rows, booking, lock, used, carrying, peak, history, lost>>

Adds == {"member", "passGuest", "guest"}
ServiceOps == Adds \cup {"remove", "batch"}
DeskOps == {"deskMember", "deskGuest", "deskDrop"}
Ops == ServiceOps \cup DeskOps \cup {"count", "none"}

Quiet == {"idle", "viewed", "seen", "done"}
Working == {"opened", "unlinked", "locked", "passed", "hung", "refunding", "counting",
            "checked", "inserting", "repaying", "dropping"}

TypeOK ==
    /\ at \in [Requests -> Quiet \cup Working]
    /\ op \in [Requests -> Ops]
    /\ who \in [Requests -> People \cup {Pending}]
    /\ target \in [Requests -> Requests \cup {NoRow}]
    /\ flagged \subseteq Requests
    /\ limit \in [Requests -> Counts \cup {0}]
    /\ ver \in [Requests -> Nat \cup {NoVersion}]
    /\ saw \in [Requests -> SUBSET Requests]
    /\ roster \subseteq Requests
    /\ withPass \subseteq roster
    /\ version \in Nat
    /\ declared \in Counts
    /\ session \in BOOLEAN
    /\ lock \in Requests \cup {NoRow}
    /\ used \in 0..Passes
    /\ carrying \subseteq Requests
    /\ peak \in Counts
    /\ byDesk \subseteq Requests
    /\ twice \subseteq Requests
    /\ lost \subseteq Requests

-----------------------------------------------------------------------------

Init ==
    /\ at = [r \in Requests |-> "idle"]
    /\ op = [r \in Requests |-> "none"]
    /\ who = [r \in Requests |-> Pending]
    /\ target = [r \in Requests |-> NoRow]
    /\ flagged = {}
    /\ limit = [r \in Requests |-> 0]
    /\ ver = [r \in Requests |-> NoVersion]
    /\ saw = [r \in Requests |-> {}]
    /\ roster = {} /\ withPass = {}
    /\ version = 0
    /\ declared \in Counts
    /\ session \in BOOLEAN
    /\ lock = NoRow
    /\ used = 0
    /\ carrying = {}
    /\ peak = declared
    /\ byDesk = {} /\ twice = {} /\ lost = {}

Goto(r, where) == at' = [at EXCEPT ![r] = where]

IsMember(q) == op[q] \in {"member", "deskMember"}
IsGuest(q) == op[q] \in {"passGuest", "guest", "deskGuest"}

\* The rows of person p as a member.
MembersOf(p) == {q \in roster : IsMember(q) /\ who[q] = p}

GuestsNamed(p) == {q \in roster : IsGuest(q) /\ who[q] = p}

\* useGuestPass and refundGuestPass, each a transaction of its own.
TakeOne == used < Passes /\ used' = used + 1
GiveOne == used' = IF used = 0 THEN 0 ELSE used - 1

-----------------------------------------------------------------------------
(* The client looks at the roster: getBookingParticipants reads the booking, *)
(* and then the rows if the booking had a session.                           *)

View(r) ==
    /\ at[r] = "idle"
    /\ ver' = [ver EXCEPT ![r] = version]
    /\ Goto(r, IF session THEN "viewed" ELSE "seen")
    /\ UNCHANGED <<request, saw, rows, booking, lock, used, carrying, peak, history, lost>>

SeeRows(r) ==
    /\ at[r] = "viewed"
    /\ saw' = [saw EXCEPT ![r] = roster]
    /\ Goto(r, "seen")
    /\ UNCHANGED <<request, ver, rows, booking, lock, used, carrying, peak, history, lost>>

-----------------------------------------------------------------------------
(* rosterService: what a request reads before its transaction. *)

\* A client that sends no version might as well not have looked.
Sends(r) == at[r] \in {"idle", "seen"}

Ask(r, what, p, q) ==
    /\ op' = [op EXCEPT ![r] = what]
    /\ who' = [who EXCEPT ![r] = p]
    /\ target' = [target EXCEPT ![r] = q]

OpenAdd(r) ==
    /\ Sends(r)
    /\ \E what \in Adds, p \in People \cup {Pending} :
          /\ p = Pending => what = "guest"
          /\ Ask(r, what, p, NoRow)
    /\ limit' = [limit EXCEPT ![r] = declared]
    /\ Goto(r, IF session THEN "opened" ELSE "unlinked")
    /\ UNCHANGED <<flagged, client, rows, booking, lock, used, carrying, peak, history, lost>>

OpenRemove(r) ==
    /\ Sends(r)
    /\ \E q \in roster :
          /\ Ask(r, "remove", who[r], q)
          /\ flagged' = IF q \in withPass THEN flagged \cup {r} ELSE flagged
    /\ Goto(r, "opened")
    /\ UNCHANGED <<limit, client, rows, booking, lock, used, carrying, peak, history, lost>>

\* The route's schema leaves applyRosterBatch only operations of an unknown
\* type; the version is required.
OpenBatch(r) ==
    /\ at[r] = "seen"
    /\ Ask(r, "batch", who[r], NoRow)
    /\ Goto(r, IF session THEN "opened" ELSE "unlinked")
    /\ UNCHANGED <<flagged, limit, client, rows, booking, lock, used, carrying, peak, history,
                   lost>>

-----------------------------------------------------------------------------
(* rosterService: the transaction. *)

\* Mutant: the version is not compared.
CurrentUnchecked(r) == TRUE

\* The client sent no version, or sent this one.
Current(r) == ver[r] \in {NoVersion, version}

\* Mutant: the owner's own slot is forgotten.
HasRoomForOneMore(r) == 1 + Cardinality(roster) <= limit[r]

HasRoom(r) == 1 + Cardinality(roster) < limit[r]

\* Mutant: a member may be added again.
AdmittedTwice(r) == Current(r) /\ (op[r] \in Adds => HasRoom(r))

\* Whether a request passes the checks made under the lock.
Admitted(r) ==
    /\ Current(r)
    /\ op[r] \in Adds => HasRoom(r)
    /\ op[r] = "member" => MembersOf(who[r]) = {}

\* The guest a member takes the place of: one of the same name, else one
\* whose name is pending.
Matching(r) ==
    IF op[r] # "member" THEN {target[r]}
    ELSE IF GuestsNamed(who[r]) # {} THEN GuestsNamed(who[r])
    ELSE IF GuestsNamed(Pending) # {} THEN GuestsNamed(Pending)
    ELSE {NoRow}

\* Mutant: an early return that leaves the transaction open.
RefuseLocked(r) == Goto(r, "done") /\ lock' = r

\* The transaction rolls back.
Refuse(r) == Goto(r, "done") /\ lock' = NoRow

\* SELECT ... FOR UPDATE and the checks.  Without a session the request waits
\* for another connection, which waits for this lock.
Lock(r) ==
    /\ lock = NoRow
    /\ \/ /\ at[r] = "opened" /\ ~Admitted(r)
          /\ Refuse(r) /\ UNCHANGED target
       \/ /\ at[r] = "opened" /\ Admitted(r)
          /\ \E q \in Matching(r) : target' = [target EXCEPT ![r] = q]
          /\ Goto(r, "locked") /\ lock' = r
       \/ /\ at[r] = "unlinked" /\ ~Current(r)
          /\ Refuse(r) /\ UNCHANGED target
       \/ /\ at[r] = "unlinked" /\ Current(r)
          /\ Goto(r, "hung") /\ lock' = r /\ UNCHANGED target
    /\ UNCHANGED <<op, who, flagged, limit, client, rows, booking, used, carrying, peak, history,
                   lost>>

\* The pass of a guest, for good even if the transaction rolls back.
TakePass(r) ==
    /\ at[r] = "locked" /\ op[r] = "passGuest"
    /\ \/ /\ TakeOne
          /\ carrying' = carrying \cup {r}
          /\ Goto(r, "passed") /\ UNCHANGED lock
       \/ /\ used = Passes
          /\ Refuse(r) /\ UNCHANGED <<used, carrying>>
    /\ UNCHANGED <<request, client, rows, booking, peak, history, lost>>

\* Mutant: the commit leaves roster_version alone.
NoBump == lock' = NoRow /\ UNCHANGED <<version, declared, session>>

Bump == version' = version + 1 /\ lock' = NoRow /\ UNCHANGED <<declared, session>>

\* The refund a request owes once it has committed.
Owes(r, owed) ==
    /\ carrying' = IF owed THEN carrying \cup {r} ELSE carrying
    /\ Goto(r, IF owed THEN "refunding" ELSE "done")

\* Mutant: every guest who is replaced is refunded.
CommitMemberBlindly(r) ==
    /\ at[r] = "locked" /\ op[r] = "member"
    /\ roster' = (roster \ {target[r]}) \cup {r}
    /\ withPass' = withPass \ {target[r]}
    /\ Owes(r, target[r] # NoRow)
    /\ Bump
    /\ UNCHANGED <<request, client, used, peak, history, lost>>

\* The member's row; the guest it replaces, if that is still there.
CommitMember(r) ==
    /\ at[r] = "locked" /\ op[r] = "member"
    /\ roster' = (roster \ {target[r]}) \cup {r}
    /\ withPass' = withPass \ {target[r]}
    /\ Owes(r, target[r] \in withPass)
    /\ Bump
    /\ UNCHANGED <<request, client, used, peak, history, lost>>

CommitGuest(r) ==
    /\ \/ at[r] = "locked" /\ op[r] = "guest" /\ UNCHANGED withPass
       \/ at[r] = "passed" /\ withPass' = withPass \cup {r}
    /\ roster' = roster \cup {r}
    /\ carrying' = carrying \ {r}
    /\ Goto(r, "done")
    /\ Bump
    /\ UNCHANGED <<request, client, used, peak, history, lost>>

\* The row is deleted if it is still there, the pass goes by what was read
\* before the lock.
CommitRemove(r) ==
    /\ at[r] = "locked" /\ op[r] = "remove"
    /\ roster' = roster \ {target[r]}
    /\ withPass' = withPass \ {target[r]}
    /\ Owes(r, r \in flagged)
    /\ twice' = IF r \in flagged /\ target[r] \notin withPass THEN twice \cup {r} ELSE twice
    /\ Bump
    /\ UNCHANGED <<request, client, used, peak, byDesk, lost>>

CommitBatch(r) ==
    /\ at[r] = "locked" /\ op[r] = "batch"
    /\ Goto(r, "done")
    /\ Bump
    /\ UNCHANGED <<request, client, rows, used, carrying, peak, history, lost>>

RefundPass(r) ==
    /\ at[r] = "refunding"
    /\ GiveOne
    /\ carrying' = carrying \ {r}
    /\ Goto(r, "done")
    /\ UNCHANGED <<request, client, rows, booking, lock, peak, history, lost>>

Service(r) == Lock(r) \/ TakePass(r) \/ CommitMember(r) \/ CommitGuest(r) \/ CommitRemove(r)
              \/ CommitBatch(r) \/ RefundPass(r)

\* updateDeclaredPlayerCount: no version; its UPDATE waits for the lock.
OpenCount(r) ==
    /\ at[r] = "idle"
    /\ Ask(r, "count", who[r], NoRow)
    /\ Goto(r, "counting")
    /\ UNCHANGED <<flagged, limit, client, rows, booking, lock, used, carrying, peak, history,
                   lost>>

SetCount(r) ==
    /\ at[r] = "counting"
    /\ lock = NoRow
    /\ declared' \in Counts
    /\ peak' = IF declared' > peak THEN declared' ELSE peak
    /\ Goto(r, "done")
    /\ UNCHANGED <<request, client, rows, version, session, lock, used, carrying, history, lost>>

-----------------------------------------------------------------------------
(* The staff pages. *)

\* Adding a guest: with a pass if one can be had, or without.
DeskGuest(r) ==
    /\ at[r] = "idle" /\ session
    /\ \E p \in People \cup {Pending} :
          /\ Ask(r, "deskGuest", p, NoRow)
          /\ \/ p # Pending /\ TakeOne /\ carrying' = carrying \cup {r}
             \/ UNCHANGED <<used, carrying>>
    /\ Goto(r, "inserting")
    /\ UNCHANGED <<flagged, limit, client, rows, booking, lock, peak, history, lost>>

\* Linking a member: who is on the roster already, the guests of the same
\* name, the new row.
DeskMember(r) ==
    /\ at[r] = "idle" /\ session
    /\ \E p \in People : MembersOf(p) = {} /\ Ask(r, "deskMember", p, NoRow)
    /\ Goto(r, "checked")
    /\ UNCHANGED <<flagged, limit, client, rows, booking, lock, used, carrying, peak, history,
                   lost>>

\* A SELECT and a DELETE: a guest added in between stays.
DeskClear(r) ==
    /\ at[r] = "checked"
    /\ \E gone \in SUBSET GuestsNamed(who[r]) :
          /\ roster' = roster \ gone
          /\ withPass' = withPass \ gone
          /\ byDesk' = byDesk \cup gone
          /\ lost' = lost \cup (gone \cap withPass)
    /\ Goto(r, "inserting")
    /\ UNCHANGED <<request, client, booking, lock, used, carrying, peak, twice>>

\* A pass taken by a COMMIT whose answer was lost counts as not taken: the row
\* is inserted without it.
DeskInsert(r) ==
    /\ at[r] = "inserting"
    /\ roster' = roster \cup {r}
    /\ \/ withPass' = withPass \cup ({r} \cap carrying) /\ UNCHANGED lost
       \/ lost' = lost \cup ({r} \cap carrying) /\ UNCHANGED withPass
    /\ carrying' = carrying \ {r}
    /\ byDesk' = byDesk \cup {r}
    /\ Goto(r, "done")
    /\ UNCHANGED <<request, client, booking, lock, used, peak, twice>>

\* Removing a guest or unlinking a member: refundGuestPassForParticipant reads
\* used_guest_pass again, and clears it with the refund.
DeskDrop(r) ==
    /\ at[r] = "idle"
    /\ \E q \in roster :
          /\ Ask(r, "deskDrop", who[r], q)
          /\ Goto(r, IF q \in withPass THEN "repaying" ELSE "dropping")
    /\ UNCHANGED <<flagged, limit, client, rows, booking, lock, used, carrying, peak, history,
                   lost>>

DropRepay(r) ==
    /\ at[r] = "repaying"
    /\ \/ /\ GiveOne
          /\ withPass' = withPass \ {target[r]}
          /\ byDesk' = byDesk \cup {target[r]}
          /\ twice' = IF target[r] \in withPass THEN twice ELSE twice \cup {r}
       \/ UNCHANGED <<used, withPass, history>>
    /\ Goto(r, "dropping")
    /\ UNCHANGED <<request, client, roster, booking, lock, carrying, peak, lost>>

DropDelete(r) ==
    /\ at[r] = "dropping"
    /\ roster' = roster \ {target[r]}
    /\ withPass' = withPass \ {target[r]}
    /\ byDesk' = byDesk \cup {target[r]}
    /\ lost' = lost \cup ({target[r]} \cap withPass)
    /\ Goto(r, "done")
    /\ UNCHANGED <<request, client, booking, lock, used, carrying, peak, twice>>

Desk(r) == DeskClear(r) \/ DeskInsert(r) \/ DropRepay(r) \/ DropDelete(r)

-----------------------------------------------------------------------------
(* What else happens. *)

\* A request is refused, or one of its statements fails.
Fail(r) ==
    /\ at[r] \in Working \ {"hung"}
    /\ Goto(r, "done")
    /\ lock' = IF lock = r THEN NoRow ELSE lock
    /\ carrying' = carrying \ {r}
    /\ lost' = lost \cup ({r} \cap carrying)
    /\ UNCHANGED <<request, client, rows, booking, used, peak, history>>

\* The process dies with everything it was doing.
Restart ==
    /\ \E r \in Requests : at[r] \in Working
    /\ at' = [r \in Requests |-> IF at[r] \in Working THEN "done" ELSE at[r]]
    /\ lock' = NoRow
    /\ carrying' = {}
    /\ lost' = lost \cup carrying
    /\ UNCHANGED <<request, client, rows, booking, used, peak, history>>

\* An approval or a staff page gives the booking its session.
GetSession ==
    /\ ~session
    /\ lock = NoRow
    /\ session' = TRUE
    /\ UNCHANGED <<at, request, client, rows, version, declared, lock, used, carrying, peak,
                   history, lost>>

Step(r) == Service(r) \/ SetCount(r) \/ Desk(r)

Open(r) == View(r) \/ SeeRows(r) \/ OpenAdd(r) \/ OpenRemove(r) \/ OpenBatch(r) \/ OpenCount(r)
           \/ DeskGuest(r) \/ DeskMember(r) \/ DeskDrop(r)

Next == (\E r \in Requests : Open(r) \/ Step(r) \/ Fail(r)) \/ Restart \/ GetSession

\* Queries return and locks are granted.
Fairness == \A r \in Requests : WF_vars(Step(r))

Spec == Init /\ [][Next]_vars /\ Fairness

-----------------------------------------------------------------------------
(* Properties *)

\* Passes that a row shows, or that a request has yet to put on a row or to
\* give back.
Held == withPass \cup carrying

\* Passes are taken and returned outside the transactions that add and delete
\* rows.  Still every pass in use is held, or was lost in one of the ways the
\* model names, and every row that shows a pass has one, except as many as
\* were refunded twice.
PassesAccounted ==
    /\ Cardinality(Held) <= used + Cardinality(twice)
    /\ used <= Cardinality(Held \cup lost)

\* Only unversioned removals, and rows the staff pages touch, are refunded
\* twice: two clients that both send the version they saw never get the pass
\* of one guest back two times.
RefundedOnce ==
    \A r \in twice : \/ ver[r] = NoVersion
                     \/ target[r] \in byDesk

\* What the roster has gained and lost since the client looked.
Changed(r) == (saw[r] \ roster) \cup (roster \ saw[r])

\* A versioned edit that was let in works on the roster its client saw, up to
\* what the staff pages did, although version and rows are read by separate
\* statements and without the lock.
SeesTheRoster ==
    \A r \in Requests :
       ver[r] # NoVersion /\ at[r] \in {"locked", "passed"} => Changed(r) \subseteq byDesk

ByService == {r \in roster : op[r] \in Adds}

\* The count an add is checked against was read before the lock and may have
\* been lowered since; with the owner, the rows never outnumber the largest
\* count the booking has had.
RosterFits == 1 + Cardinality(ByService) <= peak

\* However many adds of one member run at the same time, rosterService gives
\* him one row.
MemberOnce ==
    \A q, r \in ByService : op[q] = "member" /\ op[r] = "member" /\ who[q] = who[r] => q = r

\* Who has the places that rosterService has given.
Players == [r \in ByService |-> IF op[r] = "member" THEN who[r] ELSE Pending]

\* The edits of rosterService are one step each, at their commit: what they
\* checked under the lock against a version and a count read earlier holds there,
\* whatever the staff pages have written meanwhile.
Editing == INSTANCE VersionedRoster WITH
    Edits <- Requests,
    Members <- People,
    Guest <- Pending,
    players <- Players,
    revision <- version,
    shown <- ver,
    most <- peak

ImplementsEditing == Editing!Spec

\* Edits wait for one another's locks, but every edit comes to an end, unless
\* one waits for a session: time and again none is under way.
EditsEnd ==
    []<>(\/ \A r \in Requests : at[r] \notin Working
         \/ \E r \in Requests : at[r] = "hung")

-----------------------------------------------------------------------------
(* The inductive invariant. *)

LockInv == \A r \in Requests : at[r] \in {"locked", "passed", "hung"} <=> lock = r

\* What the stage of a request says about it.
StageInv ==
    \A r \in Requests :
       /\ at[r] = "idle" => saw[r] = {}
       /\ at[r] \in {"idle", "viewed", "seen"} => r \notin flagged
       /\ at[r] \in {"opened", "locked", "passed", "checked", "inserting"} => session
       /\ at[r] = "passed" => op[r] = "passGuest"
       /\ at[r] \in {"checked", "inserting"} => op[r] \in DeskOps
       /\ at[r] \in {"repaying", "dropping"} => target[r] # NoRow
       /\ at[r] \in {"idle", "repaying"} => ver[r] = NoVersion
       /\ at[r] \in {"passed", "refunding"} => r \in carrying
       /\ r \in carrying => at[r] \in {"passed", "refunding", "inserting"}
       /\ r \in twice => at[r] \in {"refunding", "dropping", "done"}

\* Rows belong to requests that have inserted them, and a pass is not both on
\* a row and lost.
RowsInv ==
    /\ roster # {} => session
    /\ \A r \in roster : at[r] \in {"refunding", "done"}
    /\ \A r \in withPass \cup lost : at[r] = "done"
    /\ withPass \cap lost = {}

\* A removal under way, and the row it read.
RemovalInv ==
    \A r \in Requests :
       op[r] = "remove" /\ at[r] \in {"opened", "locked"}
       => /\ target[r] \in Requests
          /\ at[target[r]] \in {"refunding", "done"}
          /\ target[r] \in withPass => r \in flagged
          /\ r \in flagged /\ ver[r] = version => target[r] \in withPass \cup byDesk

\* A member has a name; who made the row of the guest whose place he is about
\* to take has long finished.
PlaceInv ==
    \A r \in Requests :
       op[r] = "member"
       => /\ who[r] \in People
          /\ at[r] = "locked" /\ target[r] # NoRow
             => at[target[r]] \in {"refunding", "done"} /\ IsGuest(target[r])

\* As long as nobody bumps the version, the rows are those that were seen.
ViewInv ==
    \A r \in Requests :
       /\ ver[r] # NoVersion => ver[r] <= version
       /\ at[r] \in {"locked", "passed"} => Current(r)
       /\ at[r] \in {"seen", "opened", "locked", "passed"} /\ ver[r] = version
          => Changed(r) \subseteq byDesk

\* What was checked under the lock holds until the commit.
AdmittedInv ==
    /\ declared <= peak
    /\ \A r \in Requests :
          /\ limit[r] <= peak
          /\ at[r] \in {"locked", "passed"} /\ op[r] \in Adds
             => 1 + Cardinality(ByService) < limit[r]
          /\ at[r] = "locked" /\ op[r] = "member" => MembersOf(who[r]) \cap ByService = {}

IInv ==
    /\ TypeOK
    /\ LockInv
    /\ StageInv
    /\ RowsInv
    /\ RemovalInv
    /\ PlaceInv
    /\ ViewInv
    /\ AdmittedInv
    /\ PassesAccounted
    /\ RefundedOnce
    /\ RosterFits
    /\ MemberOnce

=============================================================================
