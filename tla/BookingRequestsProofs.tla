------------------------ MODULE BookingRequestsProofs ------------------------
(***************************************************************************)
(* Proofs about BookingRequests, for any number of bookings, members, bays *)
(* and concurrent handlers of every kind.                                  *)
(*                                                                         *)
(* A step is made by one handler, or by a single UPDATE (the moving        *)
(* handlers form the set S, of at most one element).  HandlersKeep shows   *)
(* once what the step of one handler can do to the others; each action is  *)
(* then only asked what it does to the handler that makes it.              *)
(***************************************************************************)
EXTENDS BookingRequests, TLAPS

-----------------------------------------------------------------------------
(* Hours.                                                                  *)

\* Overlapping does not depend on which booking is looked at first.
LEMMA OverlapSymmetric ==
    ASSUME NEW b \in Bookings, NEW c \in Bookings, Overlap(b, c)
    PROVE  Overlap(c, b)
BY HoursAssumption DEF Overlap

\* The three cases approveBooking spells out cover every overlap that creation's
\* comparison of hours finds.
LEMMA CasesCoverOverlap ==
    ASSUME NEW b \in Bookings, NEW c \in Bookings, Overlap(b, c)
    PROVE  OverlapCases(b, c)
<1>1. Start[b] \in Nat /\ Start[c] \in Nat /\ End[b] \in Nat /\ End[c] \in Nat
  BY HoursAssumption
<1>2. Start[c] < End[b] /\ End[c] > Start[b]
  BY DEF Overlap
<1> QED BY <1>1, <1>2 DEF OverlapCases

-----------------------------------------------------------------------------
(* The handlers that do not move.                                          *)

\* What a step of the handlers in S leaves alone: the others' program points and
\* locks, and the bookings the others are about to insert.
Moves(S) ==
    /\ \A q \in Procs \ S : pc'[q] = pc[q] /\ op'[q] = op[q]
    /\ \A q \in Procs \ S, y \in Bays : bayLock[y] = q => bayLock'[y] = q
    /\ \A q \in Procs \ S, m \in Members : memberLock[m] = q => memberLock'[m] = q
    /\ \A b \in Bookings :
          Exists(b)' => \/ Exists(b) \/ Fresh(b)
                        \/ \E p \in S : pc[p] # "idle" /\ op[p].id = b
    /\ \A p \in S :
          pc'[p] # "idle" => \/ pc[p] # "idle" /\ op'[p].id = op[p].id
                             \/ Exists(op'[p].id) \/ Fresh(op'[p].id)

\* What enters the histories does so under a lock of S.
Grows(S) ==
    /\ \A c \in vetted' : \/ c \in vetted /\ bay'[c] = bay[c]
                          \/ bay'[c] = NoBay \/ bayLock[bay'[c]] \in S
    /\ \A c \in solo' : c \in solo \/ memberLock[Owner[c]] \in S
    /\ \A c \in asked' : c \in asked \/ memberLock[Owner[c]] \in S

Shrinks ==
    /\ \A c \in vetted' : c \in vetted /\ bay'[c] = bay[c]
    /\ solo' \subseteq solo
    /\ asked' \subseteq asked

LEMMA HandlersKeep ==
    ASSUME IInv, NEW S \in SUBSET Procs, Moves(S), Grows(S), NEW q \in Procs \ S
    PROVE  HandlerInv(q)'
<1>1. HandlerInv(q) /\ TypeOK
  BY DEF IInv
<1>2. pc'[q] = pc[q] /\ op'[q] = op[q]
  BY DEF Moves
<1>3. RequestFitsPoint(q)'
  BY <1>1, <1>2 DEF HandlerInv, RequestFitsPoint
<1>4. InsertsFreshRow(q)'
  <2> SUFFICES ASSUME Inserting(q)'
               PROVE  /\ ~Exists(op[q].id)'
                      /\ \A r \in Procs \ {q} : pc'[r] # "idle" => op'[r].id # op[q].id
    BY <1>2 DEF InsertsFreshRow
  <2>1. pc[q] # "idle" /\ op[q].id \in Bookings
    BY <1>1, <1>2 DEF Inserting, HandlerInv, RequestFitsPoint, Requests
  <2>2. /\ ~Exists(op[q].id)
        /\ \A r \in Procs \ {q} : pc[r] # "idle" => op[r].id # op[q].id
    BY <1>1, <1>2 DEF HandlerInv, InsertsFreshRow, Inserting
  <2>3. ~Fresh(op[q].id)
    BY <2>1 DEF Fresh
  <2>4. ~Exists(op[q].id)'
    BY <2>1, <2>2, <2>3 DEF Moves
  <2>5. ASSUME NEW r \in Procs \ {q}, pc'[r] # "idle"
        PROVE  op'[r].id # op[q].id
    <3>1. CASE r \in S
      BY <2>2, <2>3, <2>5, <3>1 DEF Moves
    <3>2. CASE r \notin S
      BY <2>2, <2>5, <3>2 DEF Moves
    <3> QED BY <3>1, <3>2
  <2> QED BY <2>4, <2>5
<1>5. HoldsBayLock(q)'
  <2> SUFFICES ASSUME pc[q] \in {"lockMember", "checkBay", "checkMember", "commit"},
                      op[q].bay # NoBay
               PROVE  bayLock'[op[q].bay] = q
    BY <1>2 DEF HoldsBayLock
  <2>1. op[q].bay \in Bays /\ bayLock[op[q].bay] = q
    BY <1>1 DEF HandlerInv, RequestFitsPoint, Requests, HoldsBayLock
  <2> QED BY <2>1 DEF Moves
<1>6. HoldsMemberLock(q)'
  <2> SUFFICES ASSUME pc[q] \in {"checkBay", "checkMember", "commit"}, op[q].kind = "member"
               PROVE  memberLock'[Owner[op[q].id]] = q
    BY <1>2 DEF HoldsMemberLock
  <2>1. Owner[op[q].id] \in Members /\ memberLock[Owner[op[q].id]] = q
    BY <1>1, OwnerAssumption DEF HandlerInv, RequestFitsPoint, Requests, HoldsMemberLock
  <2> QED BY <2>1 DEF Moves
<1>7. BayStillFree(q)'
  <2> SUFFICES ASSUME pc[q] \in {"checkMember", "commit"}, op[q].bay # NoBay,
                      NEW c \in vetted' \ {op[q].id}, bay'[c] = op[q].bay
               PROVE  ~Overlap(op[q].id, c)
    BY <1>2 DEF BayStillFree
  <2>1. bayLock[op[q].bay] = q
    BY <1>1 DEF HandlerInv, HoldsBayLock
  <2>2. c \in vetted /\ bay'[c] = bay[c]
    BY <2>1 DEF Grows
  <2> QED BY <1>1, <2>2 DEF HandlerInv, BayStillFree
<1>8. MemberStillFree(q)'
  <2> SUFFICES ASSUME pc[q] = "commit", op[q].kind = "member",
                      NEW c \in solo', Owner[c] = Owner[op[q].id]
               PROVE  ~Overlap(op[q].id, c)
    BY <1>2 DEF MemberStillFree
  <2>1. memberLock[Owner[op[q].id]] = q
    BY <1>1 DEF HandlerInv, HoldsMemberLock
  <2>2. c \in solo
    BY <2>1 DEF Grows
  <2> QED BY <1>1, <2>2 DEF HandlerInv, MemberStillFree
<1>9. StillNothingAsked(q)'
  <2> SUFFICES ASSUME pc[q] \in {"checkBay", "checkMember", "commit"}, op[q].kind = "member",
                      op[q].bay \notin Rooms, NEW c \in asked'
               PROVE  Owner[c] # Owner[op[q].id]
    BY <1>2 DEF StillNothingAsked
  <2>1. memberLock[Owner[op[q].id]] = q
    BY <1>1 DEF HandlerInv, HoldsMemberLock
  <2>2. CASE c \in asked
    BY <1>1, <2>2 DEF HandlerInv, StillNothingAsked
  <2>3. CASE memberLock[Owner[c]] \in S
    BY <2>1, <2>3
  <2> QED BY <2>2, <2>3 DEF Grows
<1> QED BY <1>3, <1>4, <1>5, <1>6, <1>7, <1>8, <1>9 DEF HandlerInv

\* A step that adds nothing to the histories.
LEMMA QuietStep ==
    ASSUME IInv, NEW S \in SUBSET Procs, Moves(S), Shrinks, TypeOK', HistoryIsCurrent',
           \A p \in S : HandlerInv(p)'
    PROVE  IInv'
<1>1. Grows(S)
  BY DEF Shrinks, Grows
<1>2. \A q \in Procs : HandlerInv(q)'
  BY <1>1, HandlersKeep
<1>3. NoVettedDoubleBooking'
  BY DEF IInv, Shrinks, NoVettedDoubleBooking
<1>4. NoMemberClash'
  BY DEF IInv, Shrinks, NoMemberClash
<1>5. OneRequestPerMember'
  BY DEF IInv, Shrinks, OneRequestPerMember
<1> QED BY <1>2, <1>3, <1>4, <1>5 DEF IInv

-----------------------------------------------------------------------------
(* The building blocks of the actions.                                     *)

RowTyped ==
    /\ status \in [Bookings -> Statuses]
    /\ bay \in [Bookings -> Bays \cup {NoBay}]
    /\ linked \in [Bookings -> BOOLEAN]

\* Every existing row was there, or is nobody else's to insert.
NewRowsFresh(S) ==
    \A b \in Bookings :
        Exists(b)' => Exists(b) \/ Fresh(b) \/ \E p \in S : pc[p] # "idle" /\ op[p].id = b

LEMMA SetStatusEffect ==
    ASSUME IInv, NEW b \in Bookings, NEW s \in Statuses \ {"absent"},
           SetStatus(b, s), bay' = bay
    PROVE  /\ status' \in [Bookings -> Statuses]
           /\ Shrinks
           /\ HistoryIsCurrent'
           /\ \A c \in Bookings : Exists(c)' => Exists(c) \/ c = b
<1>1. TypeOK /\ HistoryIsCurrent
  BY DEF IInv
<1>2. status' = [status EXCEPT ![b] = s]
  BY DEF SetStatus
<1>3. status' \in [Bookings -> Statuses]
  BY <1>1, <1>2 DEF TypeOK
<1>4. /\ vetted' \subseteq vetted /\ (s \notin Occupying => b \notin vetted')
      /\ solo' \subseteq solo /\ (s \notin Active => b \notin solo')
      /\ asked' \subseteq asked /\ (s # "pending" => b \notin asked')
  BY DEF SetStatus
<1>5. \A c \in Bookings : status'[c] = IF c = b THEN s ELSE status[c]
  BY <1>1, <1>2 DEF TypeOK
<1>6. HistoryIsCurrent'
  BY <1>1, <1>4, <1>5 DEF TypeOK, HistoryIsCurrent
<1>7. \A c \in Bookings : Exists(c)' => Exists(c) \/ c = b
  BY <1>5 DEF Exists
<1> QED BY <1>3, <1>4, <1>6, <1>7 DEF Shrinks

\* An UPDATE that the constraint lets through, or that fails.
LEMMA WriteEffect ==
    ASSUME IInv, NEW b \in Bookings, NEW s \in Statuses \ {"absent"},
           Write(b, s), bay' = bay
    PROVE  /\ status' \in [Bookings -> Statuses]
           /\ Shrinks
           /\ HistoryIsCurrent'
           /\ \A c \in Bookings : Exists(c)' => Exists(c) \/ c = b
<1>1. CASE SetStatus(b, s)
  BY <1>1, SetStatusEffect
<1>2. CASE UNCHANGED <<status, history>>
  <2>1. UNCHANGED <<status, vetted, solo, asked>>
    BY <1>2 DEF history
  <2> QED BY <2>1 DEF IInv, TypeOK, HistoryIsCurrent, Shrinks, Exists
<1> QED BY <1>1, <1>2 DEF Write

LEMMA ReturnEffect ==
    ASSUME TypeOK, NEW p \in Procs, Return(p)
    PROVE  /\ pc' \in [Procs -> Points]
           /\ op' \in [Procs -> Requests \cup {NoRequest}]
           /\ bayLock' \in [Bays -> Procs \cup {Free}]
           /\ memberLock' \in [Members -> Procs \cup {Free}]
           /\ rowLock' \in [Bookings -> Procs \cup {Free}]
           /\ pc'[p] = "idle"
           /\ \A q \in Procs \ {p} : pc'[q] = pc[q] /\ op'[q] = op[q]
           /\ \A q \in Procs \ {p}, y \in Bays : bayLock[y] = q => bayLock'[y] = q
           /\ \A q \in Procs \ {p}, m \in Members : memberLock[m] = q => memberLock'[m] = q
<1>1. pc' \in [Procs -> Points] /\ op' \in [Procs -> Requests \cup {NoRequest}]
  BY DEF TypeOK, Return, Points
<1>2. /\ bayLock' \in [Bays -> Procs \cup {Free}]
      /\ memberLock' \in [Members -> Procs \cup {Free}]
      /\ rowLock' \in [Bookings -> Procs \cup {Free}]
  BY DEF TypeOK, Return, Release
<1>3. pc'[p] = "idle" /\ \A q \in Procs \ {p} : pc'[q] = pc[q] /\ op'[q] = op[q]
  BY DEF TypeOK, Return
<1>4. /\ \A q \in Procs \ {p}, y \in Bays : bayLock[y] = q => bayLock'[y] = q
      /\ \A q \in Procs \ {p}, m \in Members : memberLock[m] = q => memberLock'[m] = q
  BY DEF TypeOK, Return, Release
<1> QED BY <1>1, <1>2, <1>3, <1>4

\* Nothing is required of a handler that has returned.
LEMMA IdleHandlerInv ==
    ASSUME NEW p \in Procs, pc'[p] = "idle"
    PROVE  HandlerInv(p)'
BY DEF HandlerInv, RequestFitsPoint, InsertsFreshRow, Inserting, HoldsBayLock,
       HoldsMemberLock, BayStillFree, MemberStillFree, StillNothingAsked

\* A handler's last step, when it adds nothing to the histories.
LEMMA ReturnKeeps ==
    ASSUME IInv, NEW p \in Procs, Return(p), RowTyped', NewRowsFresh({p}),
           Shrinks, HistoryIsCurrent'
    PROVE  IInv'
<1>1. TypeOK
  BY DEF IInv
<1>2. TypeOK'
  BY <1>1, ReturnEffect DEF TypeOK, RowTyped, Shrinks
<1>3. Moves({p})
  BY <1>1, ReturnEffect DEF Moves, NewRowsFresh
<1>4. HandlerInv(p)'
  BY <1>1, ReturnEffect, IdleHandlerInv
<1> QED BY <1>2, <1>3, <1>4, QuietStep

-----------------------------------------------------------------------------
(* A handler begins.                                                       *)

LEMMA BeginKeeps ==
    ASSUME IInv, NEW p \in Procs, NEW point \in Points, NEW request \in Requests,
           Begin(p, point, request), UNCHANGED <<row, locks, history>>,
           Exists(request.id) \/ Fresh(request.id), HandlerInv(p)'
    PROVE  IInv'
<1>1. TypeOK /\ HistoryIsCurrent
  BY DEF IInv
<1>2. UNCHANGED <<status, bay, linked, bayLock, memberLock, rowLock, vetted, solo, asked>>
  BY DEF row, locks, history
<1>3. /\ pc' = [pc EXCEPT ![p] = point]
      /\ op' = [op EXCEPT ![p] = request]
  BY DEF Begin
<1>4. TypeOK'
  BY <1>1, <1>2, <1>3 DEF TypeOK
<1>5. /\ \A q \in Procs \ {p} : pc'[q] = pc[q] /\ op'[q] = op[q]
      /\ op'[p] = request
  BY <1>1, <1>3 DEF TypeOK
<1>6. Moves({p})
  BY <1>2, <1>5 DEF Moves, Exists
<1>7. Shrinks /\ HistoryIsCurrent'
  BY <1>1, <1>2 DEF Shrinks, HistoryIsCurrent
<1> QED BY <1>4, <1>6, <1>7, QuietStep

LEMMA ReadKeeps ==
    ASSUME IInv, NEW p \in Procs, NEW b \in Bookings, NEW kind \in Kinds,
           NEW seen \in Statuses, NEW detour \in BOOLEAN,
           kind \notin {"member", "staff", "unlocked"},
           Read(p, kind, b, seen, detour)
    PROVE  IInv'
<1> DEFINE request == [kind |-> kind, id |-> b, bay |-> NoBay, seen |-> seen, detour |-> detour]
<1>1. request \in Requests /\ request.kind = kind /\ request.id = b
  BY DEF Requests
<1>2. Begin(p, "write", request) /\ UNCHANGED <<row, locks, history>> /\ Exists(b)
  BY DEF Read
<1>3. pc'[p] = "write" /\ op'[p] = request
  BY <1>2 DEF Begin, IInv, TypeOK
<1>4. HandlerInv(p)'
  BY <1>1, <1>3 DEF HandlerInv, RequestFitsPoint, InsertsFreshRow, Inserting, HoldsBayLock,
                    HoldsMemberLock, BayStillFree, MemberStillFree, StillNothingAsked
<1> QED BY <1>1, <1>2, <1>4, BeginKeeps DEF Points

LEMMA StartCreationKeeps ==
    ASSUME IInv, NEW p \in Procs, NEW b \in Bookings, NEW y \in Bays \cup {NoBay},
           NEW kind \in {"member", "staff"}, StartCreation(p, kind, b, y)
    PROVE  IInv'
<1> DEFINE request == [kind |-> kind, id |-> b, bay |-> y, seen |-> "absent", detour |-> FALSE]
           point == IF y # NoBay THEN "lockBay"
                    ELSE IF kind = "member" THEN "lockMember" ELSE "commit"
<1>1. request \in Requests /\ request.kind = kind /\ request.id = b /\ request.bay = y
  BY DEF Requests, Kinds, Statuses
<1>2. /\ Begin(p, point, request)
      /\ UNCHANGED <<row, locks, history>>
      /\ Fresh(b)
  BY DEF StartCreation
<1>3. point \in Points
  BY DEF Points
<1>4. pc'[p] = point /\ op'[p] = request
  BY <1>2 DEF Begin, IInv, TypeOK
<1>5. \A q \in Procs \ {p} : pc'[q] = pc[q] /\ op'[q] = op[q]
  BY <1>2 DEF Begin, IInv, TypeOK
<1>6. InsertsFreshRow(p)'
  <2>1. ~Exists(b)' /\ \A q \in Procs : pc[q] # "idle" => op[q].id # b
    BY <1>2 DEF Fresh, Exists, row
  <2> QED BY <1>1, <1>4, <1>5, <2>1 DEF InsertsFreshRow
<1>7. HandlerInv(p)'
  BY <1>1, <1>4, <1>6 DEF HandlerInv, RequestFitsPoint, HoldsBayLock, HoldsMemberLock,
                          BayStillFree, MemberStillFree, StillNothingAsked
<1> HIDE DEF request, point
<1> QED BY <1>1, <1>2, <1>3, <1>7, BeginKeeps

LEMMA StartUnlockedKeeps ==
    ASSUME IInv, NEW p \in Procs, NEW b \in Bookings, NEW y \in Bays \cup {NoBay},
           StartUnlocked(p, b, y)
    PROVE  IInv'
<1> DEFINE request == [kind |-> "unlocked", id |-> b, bay |-> y,
                       seen |-> "absent", detour |-> FALSE]
<1>1. request \in Requests /\ request.id = b
  BY DEF Requests, Kinds, Statuses
<1>2. /\ Begin(p, "write", request)
      /\ UNCHANGED <<row, locks, history>>
      /\ Fresh(b)
  BY DEF StartUnlocked
<1>3. pc'[p] = "write" /\ op'[p] = request
  BY <1>2 DEF Begin, IInv, TypeOK
<1>4. \A q \in Procs \ {p} : pc'[q] = pc[q] /\ op'[q] = op[q]
  BY <1>2 DEF Begin, IInv, TypeOK
<1>5. InsertsFreshRow(p)'
  <2>1. ~Exists(b)' /\ \A q \in Procs : pc[q] # "idle" => op[q].id # b
    BY <1>2 DEF Fresh, Exists, row
  <2> QED BY <1>1, <1>3, <1>4, <2>1 DEF InsertsFreshRow
<1>6. HandlerInv(p)'
  BY <1>1, <1>3, <1>5 DEF HandlerInv, RequestFitsPoint, HoldsBayLock, HoldsMemberLock,
                          BayStillFree, MemberStillFree, StillNothingAsked
<1> HIDE DEF request
<1> QED BY <1>1, <1>2, <1>6, BeginKeeps DEF Points

LEMMA StartApproveKeeps ==
    ASSUME IInv, NEW p \in Procs, NEW b \in Bookings, NEW y \in Bays \cup {NoBay},
           StartApprove(p, b, y)
    PROVE  IInv'
<1> DEFINE request == [kind |-> "approve", id |-> b, bay |-> y,
                       seen |-> "absent", detour |-> FALSE]
<1>1. request \in Requests /\ request.id = b /\ request.kind = "approve"
  BY DEF Requests, Kinds, Statuses
<1>2. /\ Begin(p, "lockRow", request)
      /\ UNCHANGED <<row, locks, history>>
      /\ Exists(b)
  BY DEF StartApprove
<1>3. pc'[p] = "lockRow" /\ op'[p] = request
  BY <1>2 DEF Begin, IInv, TypeOK
<1>4. HandlerInv(p)'
  BY <1>1, <1>3 DEF HandlerInv, RequestFitsPoint, InsertsFreshRow, Inserting, HoldsBayLock,
                    HoldsMemberLock, BayStillFree, MemberStillFree, StillNothingAsked
<1> HIDE DEF request
<1> QED BY <1>1, <1>2, <1>4, BeginKeeps DEF Points

\* Every way a handler may begin.
LEMMA StartsKeep ==
    ASSUME IInv, NEW p \in Procs, NEW b \in Bookings, NEW y \in Bays \cup {NoBay},
           \/ StartCreation(p, "member", b, y) \/ StartCreation(p, "staff", b, y)
           \/ StartApprove(p, b, y) \/ StartUnlocked(p, b, y)
           \/ StartCancel(p, b) \/ StartWebhookCancel(p, b)
           \/ StartMemberCancel(p, b) \/ StartLegacyCancel(p, b)
           \/ StartRevert(p, b) \/ StartGeneric(p, b)
           \/ StartConfirm(p, b) \/ StartLink(p, b)
    PROVE  IInv'
<1>1. status[b] \in Statuses /\ "absent" \in Statuses
  BY DEF IInv, TypeOK, Statuses
<1>2. NeedsPendingCancel(b) \in BOOLEAN
  BY DEF NeedsPendingCancel, IInv, TypeOK
<1>3. CASE StartCreation(p, "member", b, y) \/ StartCreation(p, "staff", b, y)
  BY <1>3, StartCreationKeeps
<1>4. CASE StartApprove(p, b, y)
  BY <1>4, StartApproveKeeps
<1>5. CASE StartUnlocked(p, b, y)
  BY <1>5, StartUnlockedKeeps
<1>6. CASE StartCancel(p, b)
  BY <1>1, <1>2, <1>6, ReadKeeps DEF StartCancel, Kinds
<1>7. CASE StartWebhookCancel(p, b)
  BY <1>1, <1>7, ReadKeeps DEF StartWebhookCancel, Kinds
<1>8. CASE StartMemberCancel(p, b)
  BY <1>1, <1>2, <1>8, ReadKeeps DEF StartMemberCancel, Kinds
<1>9. CASE StartLegacyCancel(p, b)
  BY <1>1, <1>2, <1>9, ReadKeeps DEF StartLegacyCancel, Kinds
<1>10. CASE StartRevert(p, b)
  BY <1>1, <1>10, ReadKeeps DEF StartRevert, Kinds
<1>11. CASE StartGeneric(p, b)
  BY <1>1, <1>11, ReadKeeps DEF StartGeneric, Kinds
<1>12. CASE StartConfirm(p, b)
  BY <1>1, <1>12, ReadKeeps DEF StartConfirm, Kinds
<1>13. CASE StartLink(p, b)
  BY <1>1, <1>13, ReadKeeps DEF StartLink, Kinds
<1> QED BY <1>3, <1>4, <1>5, <1>6, <1>7, <1>8, <1>9, <1>10, <1>11, <1>12, <1>13

-----------------------------------------------------------------------------
(* A handler takes its locks and makes its checks.                         *)

\* A step inside a transaction: p goes to another point, and may take locks that
\* nobody holds.
LEMMA ProgressKeeps ==
    ASSUME IInv, NEW p \in Procs, NEW point \in Points \ {"idle"}, pc[p] # "idle",
           Goto(p, point), UNCHANGED <<row, history>>,
           op' \in [Procs -> Requests \cup {NoRequest}],
           \A q \in Procs \ {p} : op'[q] = op[q],
           op'[p].id = op[p].id,
           \/ bayLock' = bayLock
           \/ \E y \in Bays : bayLock[y] = Free /\ bayLock' = [bayLock EXCEPT ![y] = p],
           \/ memberLock' = memberLock
           \/ \E m \in Members :
                 memberLock[m] = Free /\ memberLock' = [memberLock EXCEPT ![m] = p],
           rowLock' \in [Bookings -> Procs \cup {Free}],
           HandlerInv(p)'
    PROVE  IInv'
<1>1. TypeOK /\ HistoryIsCurrent
  BY DEF IInv
<1>2. UNCHANGED <<status, bay, linked, vetted, solo, asked>>
  BY DEF row, history
<1>3. /\ bayLock' \in [Bays -> Procs \cup {Free}]
      /\ \A q \in Procs \ {p}, y \in Bays : bayLock[y] = q => bayLock'[y] = q
  BY <1>1, FreeAssumption DEF TypeOK
<1>4. /\ memberLock' \in [Members -> Procs \cup {Free}]
      /\ \A q \in Procs \ {p}, m \in Members : memberLock[m] = q => memberLock'[m] = q
  BY <1>1, FreeAssumption DEF TypeOK
<1>5. TypeOK'
  BY <1>1, <1>2, <1>3, <1>4 DEF TypeOK, Goto
<1>6. \A q \in Procs \ {p} : pc'[q] = pc[q]
  BY <1>1 DEF TypeOK, Goto
<1>7. Moves({p})
  BY <1>2, <1>3, <1>4, <1>6 DEF Moves, Exists
<1>8. Shrinks /\ HistoryIsCurrent'
  BY <1>1, <1>2 DEF Shrinks, HistoryIsCurrent
<1> QED BY <1>5, <1>7, <1>8, QuietStep

\* The row p is about to insert stays unknown to the others.
LEMMA StillFreshRow ==
    ASSUME IInv, NEW p \in Procs, NEW point \in Points, pc[p] \notin {"idle", "session"},
           Goto(p, point), status' = status,
           \A q \in Procs \ {p} : op'[q] = op[q],
           op'[p].id = op[p].id, op'[p].kind = op[p].kind
    PROVE  InsertsFreshRow(p)'
<1>1. \A q \in Procs \ {p} : pc'[q] = pc[q]
  BY DEF IInv, TypeOK, Goto
<1>2. InsertsFreshRow(p)
  BY DEF IInv, HandlerInv
<1> QED BY <1>1, <1>2 DEF InsertsFreshRow, Inserting, Exists

LEMMA LockRowKeeps ==
    ASSUME IInv, NEW p \in Procs, LockRow(p)
    PROVE  IInv'
<1> DEFINE b == op[p].id
           assigned == IF op[p].bay # NoBay THEN op[p].bay ELSE bay[b]
           point == IF assigned = NoBay THEN "checkBay" ELSE "lockBay"
<1>1. TypeOK /\ HandlerInv(p)
  BY DEF IInv
<1>2. /\ pc[p] = "lockRow"
      /\ rowLock' = [rowLock EXCEPT ![b] = p]
      /\ op' = [op EXCEPT ![p].seen = status[b], ![p].bay = assigned]
      /\ Goto(p, point)
      /\ UNCHANGED <<row, bayLock, memberLock, history>>
  BY DEF LockRow
<1>3. op[p] \in Requests /\ op[p].kind = "approve"
  BY <1>1, <1>2 DEF HandlerInv, RequestFitsPoint
<1>4. b \in Bookings /\ status[b] \in Statuses /\ assigned \in Bays \cup {NoBay}
  BY <1>1, <1>3 DEF Requests, TypeOK
<1>5. op'[p] = [op[p] EXCEPT !.seen = status[b], !.bay = assigned]
  BY <1>1, <1>2 DEF TypeOK
<1>6. /\ op'[p] \in Requests
      /\ op'[p].id = op[p].id /\ op'[p].kind = "approve" /\ op'[p].bay = assigned
  BY <1>3, <1>4, <1>5 DEF Requests
<1>7. /\ \A q \in Procs \ {p} : op'[q] = op[q]
      /\ op' \in [Procs -> Requests \cup {NoRequest}]
  BY <1>1, <1>2, <1>6 DEF TypeOK
<1>8. rowLock' \in [Bookings -> Procs \cup {Free}]
  BY <1>1, <1>2 DEF TypeOK
<1>9. pc'[p] = point /\ point \in Points
  BY <1>1, <1>2 DEF TypeOK, Goto, Points
<1>10. HandlerInv(p)'
  BY <1>6, <1>9 DEF HandlerInv, RequestFitsPoint, InsertsFreshRow, Inserting, HoldsBayLock,
                    HoldsMemberLock, BayStillFree, MemberStillFree, StillNothingAsked
<1> QED BY <1>2, <1>6, <1>7, <1>8, <1>9, <1>10, ProgressKeeps

LEMMA LockBayKeeps ==
    ASSUME IInv, NEW p \in Procs, LockBay(p)
    PROVE  IInv'
<1> DEFINE y == op[p].bay
           point == AfterBayLock(op[p].kind)
<1>1. TypeOK /\ HandlerInv(p)
  BY DEF IInv
<1>2. /\ pc[p] = "lockBay"
      /\ y # NoBay
      /\ bayLock[y] = Free
      /\ bayLock' = [bayLock EXCEPT ![y] = p]
      /\ Goto(p, point)
      /\ UNCHANGED <<row, op, memberLock, rowLock, history>>
  BY DEF LockBay
<1>3. op[p] \in Requests /\ y \in Bays
  BY <1>1, <1>2 DEF HandlerInv, RequestFitsPoint, Requests
<1>4. /\ pc'[p] = point
      /\ point \in {"lockMember", "checkBay"}
      /\ point = "checkBay" => op[p].kind # "member"
      /\ point = "lockMember" => op[p].kind = "member"
  BY <1>1, <1>2 DEF TypeOK, Goto, AfterBayLock
<1>5. bayLock'[y] = p
  BY <1>1, <1>2, <1>3 DEF TypeOK
<1>6. op' = op /\ status' = status
  BY <1>2 DEF row
<1>7. InsertsFreshRow(p)'
  BY <1>2, <1>4, <1>6, StillFreshRow DEF Points
<1>8. HandlerInv(p)'
  BY <1>3, <1>4, <1>5, <1>6, <1>7
     DEF HandlerInv, RequestFitsPoint, HoldsBayLock, HoldsMemberLock, BayStillFree,
         MemberStillFree, StillNothingAsked
<1>9. /\ op' \in [Procs -> Requests \cup {NoRequest}]
      /\ rowLock' \in [Bookings -> Procs \cup {Free}]
  BY <1>1, <1>2 DEF TypeOK
<1> HIDE DEF y, point
<1> QED BY <1>2, <1>3, <1>4, <1>6, <1>8, <1>9, ProgressKeeps DEF Points

LEMMA LockMemberKeeps ==
    ASSUME IInv, NEW p \in Procs, LockMember(p)
    PROVE  IInv'
<1> DEFINE m == Owner[op[p].id]
           point == IF op[p].bay = NoBay THEN "checkMember" ELSE "checkBay"
<1>1. TypeOK /\ HandlerInv(p) /\ HistoryIsCurrent
  BY DEF IInv
<1>2. /\ pc[p] = "lockMember"
      /\ memberLock[m] = Free
      /\ op[p].bay \notin Rooms => \A c \in Bookings : Owner[c] = m => status[c] # "pending"
      /\ memberLock' = [memberLock EXCEPT ![m] = p]
      /\ Goto(p, point)
      /\ UNCHANGED <<row, op, bayLock, rowLock, history>>
  BY DEF LockMember
<1>3. op[p] \in Requests /\ op[p].kind = "member" /\ m \in Members
  BY <1>1, <1>2, OwnerAssumption DEF HandlerInv, RequestFitsPoint, Requests
<1>4. /\ pc'[p] = point
      /\ point \in {"checkMember", "checkBay"}
      /\ point = "checkMember" => op[p].bay = NoBay
  BY <1>1, <1>2 DEF TypeOK, Goto
<1>5. memberLock'[m] = p
  BY <1>1, <1>2, <1>3 DEF TypeOK
<1>6. op' = op /\ status' = status /\ bayLock' = bayLock /\ asked' = asked
  BY <1>2 DEF row, history
<1>7. InsertsFreshRow(p)'
  BY <1>2, <1>4, <1>6, StillFreshRow DEF Points
<1>8. HoldsBayLock(p)'
  BY <1>1, <1>2, <1>6 DEF HandlerInv, HoldsBayLock
<1>9. StillNothingAsked(p)'
  BY <1>1, <1>2, <1>6 DEF StillNothingAsked, HistoryIsCurrent, TypeOK
<1>10. HandlerInv(p)'
  BY <1>3, <1>4, <1>5, <1>6, <1>7, <1>8, <1>9
     DEF HandlerInv, RequestFitsPoint, HoldsMemberLock, BayStillFree, MemberStillFree
<1>11. /\ op' \in [Procs -> Requests \cup {NoRequest}]
       /\ rowLock' \in [Bookings -> Procs \cup {Free}]
  BY <1>1, <1>2 DEF TypeOK
<1> HIDE DEF m, point
<1> QED BY <1>2, <1>3, <1>4, <1>6, <1>10, <1>11, ProgressKeeps DEF Points

\* A check that leaves everything but the program point alone.
LEMMA CheckPassed ==
    ASSUME IInv, NEW p \in Procs, NEW point \in {"checkMember", "commit"},
           pc[p] \in {"checkBay", "checkMember"},
           point = "checkMember" => op[p].kind = "member",
           Goto(p, point), UNCHANGED <<row, op, locks, history>>,
           op[p].bay # NoBay =>
               \A c \in vetted \ {op[p].id} : bay[c] = op[p].bay => ~Overlap(op[p].id, c),
           point = "commit" /\ op[p].kind = "member" =>
               \A c \in solo : Owner[c] = Owner[op[p].id] => ~Overlap(op[p].id, c)
    PROVE  IInv'
<1>1. TypeOK /\ HandlerInv(p)
  BY DEF IInv
<1>2. UNCHANGED <<status, bay, op, bayLock, memberLock, rowLock, vetted, solo, asked>>
  BY DEF row, locks, history
<1>3. pc'[p] = point
  BY <1>1 DEF TypeOK, Goto
<1>4. InsertsFreshRow(p)'
  BY <1>2, StillFreshRow DEF Points
<1>5. HandlerInv(p)'
  BY <1>1, <1>2, <1>3, <1>4
     DEF HandlerInv, RequestFitsPoint, HoldsBayLock, HoldsMemberLock, BayStillFree,
         MemberStillFree, StillNothingAsked
<1>6. /\ op' \in [Procs -> Requests \cup {NoRequest}]
      /\ rowLock' \in [Bookings -> Procs \cup {Free}]
  BY <1>1, <1>2 DEF TypeOK
<1> QED BY <1>2, <1>5, <1>6, ProgressKeeps DEF Points

LEMMA CheckBayKeeps ==
    ASSUME IInv, NEW p \in Procs, CheckBay(p)
    PROVE  IInv'
<1>1. TypeOK /\ HistoryIsCurrent
  BY DEF IInv
<1>2. BayIsFree(op[p].id, op[p].bay)
  BY DEF CheckBay
<1>3. \A c \in vetted \ {op[p].id} : bay[c] = op[p].bay => ~Overlap(op[p].id, c)
  BY <1>1, <1>2 DEF BayIsFree, HistoryIsCurrent, TypeOK
<1> QED BY <1>3, CheckPassed DEF CheckBay

LEMMA CheckMemberKeeps ==
    ASSUME IInv, NEW p \in Procs, CheckMember(p)
    PROVE  IInv'
<1>1. TypeOK /\ HistoryIsCurrent /\ HandlerInv(p)
  BY DEF IInv
<1>2. /\ pc[p] = "checkMember"
      /\ \A c \in Bookings :
            Owner[c] = Owner[op[p].id] /\ status[c] \in Active => ~Overlap(op[p].id, c)
      /\ Goto(p, "commit")
      /\ UNCHANGED <<row, op, locks, history>>
  BY DEF CheckMember
<1>3. \A c \in solo : Owner[c] = Owner[op[p].id] => ~Overlap(op[p].id, c)
  BY <1>1, <1>2 DEF HistoryIsCurrent, TypeOK
<1>4. op[p].bay # NoBay =>
          \A c \in vetted \ {op[p].id} : bay[c] = op[p].bay => ~Overlap(op[p].id, c)
  BY <1>1, <1>2 DEF HandlerInv, BayStillFree
<1> QED BY <1>2, <1>3, <1>4, CheckPassed

LEMMA CheckApprovalKeeps ==
    ASSUME IInv, NEW p \in Procs, CheckApproval(p)
    PROVE  IInv'
<1>1. TypeOK /\ HistoryIsCurrent /\ HandlerInv(p)
  BY DEF IInv
<1>2. /\ pc[p] = "checkBay"
      /\ op[p].kind = "approve"
      /\ BayAdmitsApproval(op[p].id, op[p].bay)
      /\ Goto(p, "commit")
      /\ UNCHANGED <<row, op, locks, history>>
  BY DEF CheckApproval
<1>3. op[p].id \in Bookings
  BY <1>1, <1>2 DEF HandlerInv, RequestFitsPoint, Requests
<1>4. ASSUME NEW c \in vetted \ {op[p].id}, bay[c] = op[p].bay
      PROVE  ~Overlap(op[p].id, c)
  <2>1. c \in Bookings \ {op[p].id} /\ status[c] \in Occupying
    BY <1>1, <1>4 DEF HistoryIsCurrent, TypeOK
  <2>2. ~OverlapCases(op[p].id, c)
    BY <1>2, <1>4, <2>1 DEF BayAdmitsApproval
  <2> QED BY <1>3, <2>1, <2>2, CasesCoverOverlap
<1> QED BY <1>2, <1>4, CheckPassed

-----------------------------------------------------------------------------
(* A handler commits what it has checked.                                  *)

\* The row inserted or approved enters the schedule without meeting another.
LEMMA CommitKeeps ==
    ASSUME IInv, NEW p \in Procs, pc[p] = "commit", NEW b \in Bookings, b = op[p].id,
           NEW s \in {"pending", "approved", "confirmed"}, NEW trackman \in BOOLEAN,
           Insert(b, s, op[p].bay, trackman),
           pc' \in [Procs -> Points],
           op' \in [Procs -> Requests \cup {NoRequest}],
           \A q \in Procs \ {p} : pc'[q] = pc[q] /\ op'[q] = op[q],
           pc'[p] # "idle" => op'[p] = op[p],
           Release(p), HandlerInv(p)',
           vetted' = vetted \cup {b},
           solo' \subseteq solo \cup {b},
           asked' \subseteq asked \cup {b},
           op[p].kind # "member" => solo' \subseteq solo /\ asked' \subseteq asked \ {b},
           b \in asked' => op[p].bay \notin Rooms /\ s = "pending"
    PROVE  IInv'
<1> DEFINE y == op[p].bay
<1>1. TypeOK /\ HistoryIsCurrent /\ HandlerInv(p)
  BY DEF IInv
<1>2. op[p] \in Requests /\ y \in Bays \cup {NoBay}
  BY <1>1 DEF HandlerInv, RequestFitsPoint, Requests
<1>3. /\ status' = [status EXCEPT ![b] = s]
      /\ bay' = [bay EXCEPT ![b] = y]
      /\ linked' = [linked EXCEPT ![b] = trackman]
  BY DEF Insert
<1>4. /\ s \in Statuses /\ s \in Occupying /\ s \in Active
      /\ \A c \in Bookings : status'[c] = IF c = b THEN s ELSE status[c]
      /\ \A c \in Bookings : bay'[c] = IF c = b THEN y ELSE bay[c]
  BY <1>1, <1>3 DEF TypeOK, Statuses, Occupying, Active
<1>5. TypeOK'
  BY <1>1, <1>2, <1>3, <1>4 DEF TypeOK, Release
<1>6. HistoryIsCurrent'
  <2>1. vetted \subseteq Bookings /\ solo \subseteq Bookings /\ asked \subseteq Bookings
    BY <1>1 DEF TypeOK
  <2> QED BY <1>1, <1>4, <2>1 DEF HistoryIsCurrent
<1>7. y # NoBay => bayLock[y] = p
  BY <1>1 DEF HandlerInv, HoldsBayLock
<1>8. op[p].kind = "member" => memberLock[Owner[b]] = p
  BY <1>1 DEF HandlerInv, HoldsMemberLock
<1>9. Moves({p})
  <2>1. /\ \A q \in Procs \ {p}, z \in Bays : bayLock[z] = q => bayLock'[z] = q
        /\ \A q \in Procs \ {p}, m \in Members : memberLock[m] = q => memberLock'[m] = q
    BY <1>1 DEF TypeOK, Release
  <2>2. \A c \in Bookings : Exists(c)' => Exists(c) \/ c = b
    BY <1>4 DEF Exists
  <2> QED BY <2>1, <2>2 DEF Moves
<1>10. Grows({p})
  <2>1. \A c \in vetted' : \/ c \in vetted /\ bay'[c] = bay[c]
                           \/ bay'[c] = NoBay
                           \/ bayLock[bay'[c]] = p
    BY <1>1, <1>4, <1>7 DEF TypeOK
  <2>2. \A c \in solo' : c \in solo \/ memberLock[Owner[c]] = p
    BY <1>8
  <2>3. \A c \in asked' : c \in asked \/ memberLock[Owner[c]] = p
    BY <1>8
  <2> QED BY <2>1, <2>2, <2>3 DEF Grows
<1>11. \A q \in Procs : HandlerInv(q)'
  BY <1>9, <1>10, HandlersKeep
<1>12. NoVettedDoubleBooking'
  <2>1. y # NoBay => \A c \in vetted \ {b} : bay[c] = y => ~Overlap(b, c)
    BY <1>1 DEF HandlerInv, BayStillFree
  <2> SUFFICES ASSUME NEW c \in vetted', NEW d \in vetted', c # d, bay'[c] = bay'[d],
                      bay'[c] # NoBay
               PROVE  ~Overlap(c, d)
    BY DEF NoVettedDoubleBooking
  <2>2. c \in Bookings /\ d \in Bookings
    BY <1>5 DEF TypeOK
  <2>3. CASE c # b /\ d # b
    BY <1>4, <2>2, <2>3 DEF IInv, NoVettedDoubleBooking
  <2>4. CASE c = b
    BY <1>4, <2>1, <2>2, <2>4
  <2>5. CASE d = b
    <3>1. ~Overlap(d, c)
      BY <1>4, <2>1, <2>2, <2>5
    <3> QED BY <2>2, <3>1, OverlapSymmetric
  <2> QED BY <2>3, <2>4, <2>5
<1>13. NoMemberClash'
  <2> SUFFICES ASSUME NEW c \in solo', NEW d \in solo', c # d, Owner[c] = Owner[d]
               PROVE  ~Overlap(c, d)
    BY DEF NoMemberClash
  <2>1. c \in Bookings /\ d \in Bookings
    BY <1>5 DEF TypeOK
  <2>2. CASE c \in solo /\ d \in solo
    BY <2>2 DEF IInv, NoMemberClash
  <2>3. CASE c \notin solo
    <3>1. c = b /\ d \in solo /\ op[p].kind = "member"
      BY <2>3
    <3> QED BY <1>1, <3>1 DEF HandlerInv, MemberStillFree
  <2>4. CASE d \notin solo
    <3>1. d = b /\ c \in solo /\ op[p].kind = "member"
      BY <2>4
    <3>2. ~Overlap(d, c)
      BY <1>1, <3>1 DEF HandlerInv, MemberStillFree
    <3> QED BY <2>1, <3>2, OverlapSymmetric
  <2> QED BY <2>2, <2>3, <2>4
<1>14. OneRequestPerMember'
  <2> SUFFICES ASSUME NEW c \in asked', NEW d \in asked', Owner[c] = Owner[d], c # d
               PROVE  FALSE
    BY DEF OneRequestPerMember
  <2>1. CASE c \in asked /\ d \in asked
    BY <2>1 DEF IInv, OneRequestPerMember
  <2>2. CASE c \notin asked \/ d \notin asked
    <3>1. b \in asked' /\ op[p].kind = "member" /\ op[p].bay \notin Rooms
      BY <2>2
    <3>2. \A e \in asked : Owner[e] # Owner[b]
      BY <1>1, <3>1 DEF HandlerInv, StillNothingAsked
    <3> QED BY <2>2, <3>2
  <2> QED BY <2>1, <2>2
<1> QED BY <1>5, <1>6, <1>11, <1>12, <1>13, <1>14 DEF IInv

\* The commit of a creation or approval, all of which hand the row to CommitKeeps.
LEMMA ReturnAfterCommit ==
    ASSUME IInv, NEW p \in Procs, Return(p)
    PROVE  /\ pc' \in [Procs -> Points]
           /\ op' \in [Procs -> Requests \cup {NoRequest}]
           /\ \A q \in Procs \ {p} : pc'[q] = pc[q] /\ op'[q] = op[q]
           /\ pc'[p] = "idle"
           /\ Release(p)
           /\ HandlerInv(p)'
BY ReturnEffect, IdleHandlerInv DEF IInv, Return

LEMMA CommitterTyped ==
    ASSUME IInv, NEW p \in Procs, pc[p] = "commit"
    PROVE  op[p] \in Requests /\ op[p].id \in Bookings
BY DEF IInv, HandlerInv, RequestFitsPoint, Requests

\* A row that is being inserted is in no history yet.
LEMMA InsertedIsNew ==
    ASSUME IInv, NEW p \in Procs, Inserting(p)
    PROVE  op[p].id \notin vetted /\ op[p].id \notin solo /\ op[p].id \notin asked
BY DEF IInv, HandlerInv, InsertsFreshRow, Exists, HistoryIsCurrent, Occupying, Active

LEMMA CommitRoomKeeps ==
    ASSUME IInv, NEW p \in Procs, CommitRoom(p)
    PROVE  IInv'
<1>1. /\ pc[p] = "commit"
      /\ op[p].kind \in {"member", "staff"}
      /\ Insert(op[p].id, "confirmed", op[p].bay, FALSE)
      /\ Goto(p, "session")
      /\ Release(p)
      /\ vetted' = vetted \cup {op[p].id}
      /\ solo' = IF op[p].kind = "member" THEN solo \cup {op[p].id} ELSE solo
      /\ UNCHANGED <<op, asked>>
  BY DEF CommitRoom
<1>2. TypeOK /\ op[p] \in Requests /\ op[p].id \in Bookings
  BY <1>1, CommitterTyped DEF IInv
<1>3. /\ pc' \in [Procs -> Points] /\ pc'[p] = "session"
      /\ \A q \in Procs \ {p} : pc'[q] = pc[q] /\ op'[q] = op[q]
      /\ op' \in [Procs -> Requests \cup {NoRequest}] /\ op'[p] = op[p]
  BY <1>1, <1>2 DEF TypeOK, Goto, Points
<1>4. op[p].id \notin asked
  BY <1>1, InsertedIsNew DEF Inserting
<1>5. HandlerInv(p)'
  BY <1>2, <1>3 DEF HandlerInv, RequestFitsPoint, InsertsFreshRow, Inserting, HoldsBayLock,
                    HoldsMemberLock, BayStillFree, MemberStillFree, StillNothingAsked
<1> QED BY <1>1, <1>2, <1>3, <1>4, <1>5, CommitKeeps

LEMMA CommitMemberKeeps ==
    ASSUME IInv, NEW p \in Procs, CommitMember(p)
    PROVE  IInv'
<1>1. /\ pc[p] = "commit"
      /\ op[p].kind = "member"
      /\ op[p].bay \notin Rooms
      /\ Insert(op[p].id, "pending", op[p].bay, FALSE)
      /\ Return(p)
      /\ vetted' = vetted \cup {op[p].id}
      /\ solo' = solo \cup {op[p].id}
      /\ asked' = asked \cup {op[p].id}
  BY DEF CommitMember
<1> QED BY <1>1, CommitterTyped, ReturnAfterCommit, CommitKeeps

LEMMA CommitStaffKeeps ==
    ASSUME IInv, NEW p \in Procs, CommitStaff(p)
    PROVE  IInv'
<1>1. /\ pc[p] = "commit"
      /\ op[p].kind = "staff"
      /\ Return(p)
      /\ vetted' = vetted \cup {op[p].id}
      /\ UNCHANGED <<solo, asked>>
  BY DEF CommitStaff
<1>2. op[p].id \notin asked
  BY <1>1, InsertedIsNew DEF Inserting
<1>3. PICK s \in {"pending", "approved"}, trackman \in BOOLEAN :
          Insert(op[p].id, s, op[p].bay, trackman)
  BY DEF CommitStaff
<1> QED BY <1>1, <1>2, <1>3, CommitterTyped, ReturnAfterCommit, CommitKeeps

LEMMA CommitApprovalKeeps ==
    ASSUME IInv, NEW p \in Procs, CommitApproval(p)
    PROVE  IInv'
<1> DEFINE b == op[p].id
<1>1. /\ pc[p] = "commit"
      /\ op[p].kind = "approve"
      /\ Return(p)
      /\ vetted' = vetted \cup {b}
      /\ asked' = asked \ {b}
      /\ UNCHANGED solo
  BY DEF CommitApproval
<1>2. b \in Bookings
  BY <1>1, CommitterTyped
<1>3. PICK trackman \in BOOLEAN : Insert(b, "approved", op[p].bay, trackman)
  BY <1>2 DEF CommitApproval, IInv, TypeOK
<1> QED BY <1>1, <1>2, <1>3, ReturnAfterCommit, CommitKeeps

-----------------------------------------------------------------------------
(* The other last steps of a handler.                                      *)

LEMMA FinishKeeps ==
    ASSUME IInv, NEW p \in Procs, pc[p] # "idle", NEW s \in Statuses \ {"absent"},
           Finish(p, s)
    PROVE  IInv'
<1>1. TypeOK /\ op[p].id \in Bookings
  BY DEF IInv, HandlerInv, RequestFitsPoint, Requests
<1>2. Write(op[p].id, s) /\ Return(p) /\ bay' = bay /\ linked' = linked
  BY DEF Finish
<1>3. /\ status' \in [Bookings -> Statuses]
      /\ Shrinks
      /\ HistoryIsCurrent'
      /\ \A c \in Bookings : Exists(c)' => Exists(c) \/ c = op[p].id
  BY <1>1, <1>2, WriteEffect
<1>4. RowTyped' /\ NewRowsFresh({p})
  BY <1>1, <1>2, <1>3 DEF RowTyped, NewRowsFresh, TypeOK
<1> QED BY <1>2, <1>3, <1>4, ReturnKeeps

\* A handler returns without writing a status.
LEMMA GiveUpKeeps ==
    ASSUME IInv, NEW p \in Procs, Return(p), UNCHANGED <<status, bay, history>>,
           linked' \in [Bookings -> BOOLEAN]
    PROVE  IInv'
<1>1. UNCHANGED <<status, bay, vetted, solo, asked>>
  BY DEF history
<1>2. RowTyped' /\ NewRowsFresh({p}) /\ Shrinks /\ HistoryIsCurrent'
  BY <1>1 DEF RowTyped, NewRowsFresh, Exists, Shrinks, HistoryIsCurrent, IInv, TypeOK
<1> QED BY <1>2, ReturnKeeps

LEMMA FinishIfKeeps ==
    ASSUME IInv, NEW p \in Procs, pc[p] # "idle", NEW from \in SUBSET Statuses,
           NEW s \in Statuses \ {"absent"}, FinishIf(p, from, s)
    PROVE  IInv'
<1>1. CASE Finish(p, s)
  BY <1>1, FinishKeeps
<1>2. CASE Return(p) /\ UNCHANGED <<row, history>>
  BY <1>2, GiveUpKeeps DEF row, IInv, TypeOK
<1> QED BY <1>1, <1>2 DEF FinishIf

LEMMA WritesKeep ==
    ASSUME IInv, NEW p \in Procs,
           \/ WriteCancel(p) \/ WriteMemberCancel(p) \/ WriteLegacyCancel(p)
           \/ WriteRevert(p) \/ WriteGeneric(p) \/ WriteConfirm(p) \/ SessionFailed(p)
    PROVE  IInv'
<1>1. CASE WriteCancel(p)
  <2>1. pc[p] # "idle"
    BY <1>1 DEF WriteCancel, Writes
  <2>2. CASE op[p].detour
    BY <1>1, <2>1, <2>2, FinishIfKeeps DEF WriteCancel, Statuses
  <2>3. CASE ~op[p].detour
    BY <1>1, <2>1, <2>3, FinishKeeps DEF WriteCancel, Statuses
  <2> QED BY <2>2, <2>3
<1>2. CASE WriteMemberCancel(p)
  BY <1>2, FinishIfKeeps DEF WriteMemberCancel, Writes, Statuses, Cancellable
<1>3. CASE WriteLegacyCancel(p)
  BY <1>3, FinishKeeps DEF WriteLegacyCancel, Writes, Statuses
<1>4. CASE WriteRevert(p)
  BY <1>4, FinishKeeps DEF WriteRevert, Writes, Statuses
<1>5. CASE WriteGeneric(p)
  <2>1. pc[p] = "write" /\ op[p].seen \in Statuses
    BY <1>5 DEF WriteGeneric, Writes, IInv, HandlerInv, RequestFitsPoint, Requests
  <2>2. \A s \in Transitions(op[p].seen) : s \in Statuses \ {"absent"}
    BY <2>1 DEF Transitions, Statuses
  <2> QED BY <1>5, <2>1, <2>2, FinishKeeps DEF WriteGeneric
<1>6. CASE WriteConfirm(p)
  BY <1>6, FinishKeeps DEF WriteConfirm, Writes, Statuses
<1>7. CASE SessionFailed(p)
  BY <1>7, FinishKeeps DEF SessionFailed, Statuses
<1> QED BY <1>1, <1>2, <1>3, <1>4, <1>5, <1>6, <1>7

LEMMA LinkApprovedKeeps ==
    ASSUME IInv, NEW p \in Procs, LinkApproved(p)
    PROVE  IInv'
<1>1. linked' \in [Bookings -> BOOLEAN]
  BY DEF LinkApproved, IInv, TypeOK
<1> QED BY <1>1, GiveUpKeeps DEF LinkApproved

\* The row of a creation without locks enters no history.
LEMMA InsertUnlockedKeeps ==
    ASSUME IInv, NEW p \in Procs, InsertUnlocked(p)
    PROVE  IInv'
<1> DEFINE b == op[p].id
<1>1. /\ pc[p] = "write" /\ op[p].kind = "unlocked"
      /\ Return(p)
      /\ UNCHANGED <<vetted, solo, asked>>
  BY DEF InsertUnlocked, Writes, history
<1>2. PICK s \in {"pending_approval", "approved"} : Insert(b, s, op[p].bay, FALSE)
  BY DEF InsertUnlocked
<1>3. TypeOK /\ HistoryIsCurrent /\ b \in Bookings /\ op[p].bay \in Bays \cup {NoBay}
  BY <1>1 DEF IInv, HandlerInv, RequestFitsPoint, Requests
<1>4. b \notin vetted /\ b \notin solo /\ b \notin asked
  BY <1>1, InsertedIsNew DEF Inserting
<1>5. /\ \A c \in Bookings \ {b} : status'[c] = status[c] /\ bay'[c] = bay[c]
      /\ RowTyped'
  BY <1>2, <1>3 DEF Insert, TypeOK, RowTyped, Statuses
<1>6. NewRowsFresh({p})
  BY <1>1, <1>5 DEF NewRowsFresh, Exists
<1>7. vetted \subseteq Bookings /\ solo \subseteq Bookings /\ asked \subseteq Bookings
  BY <1>3 DEF TypeOK
<1>8. Shrinks /\ HistoryIsCurrent'
  BY <1>1, <1>3, <1>4, <1>5, <1>7 DEF Shrinks, HistoryIsCurrent
<1> QED BY <1>1, <1>5, <1>6, <1>8, ReturnKeeps

LEMMA WriteLinkKeeps ==
    ASSUME IInv, NEW p \in Procs, WriteLink(p)
    PROVE  IInv'
<1> DEFINE b == op[p].id
<1>1. pc[p] = "write" /\ op[p].kind = "link" /\ op[p] \in Requests /\ b \in Bookings
  BY DEF WriteLink, Writes, IInv, HandlerInv, RequestFitsPoint, Requests
<1>2. TypeOK
  BY DEF IInv
<1>3. CASE Return(p) /\ UNCHANGED <<row, history>>
  BY <1>2, <1>3, GiveUpKeeps DEF row, TypeOK
<1>4. CASE /\ SetStatus(b, "approved")
           /\ linked' = [linked EXCEPT ![b] = TRUE]
           /\ UNCHANGED bay
           /\ Return(p) \/ (Goto(p, "session") /\ UNCHANGED <<op, locks>>)
  <2>1. /\ status' \in [Bookings -> Statuses]
        /\ Shrinks
        /\ HistoryIsCurrent'
        /\ \A c \in Bookings : Exists(c)' => Exists(c) \/ c = b
    BY <1>1, <1>4, SetStatusEffect DEF Statuses
  <2>2. RowTyped' /\ NewRowsFresh({p})
    BY <1>1, <1>2, <1>4, <2>1 DEF RowTyped, NewRowsFresh, TypeOK
  <2>3. CASE Return(p)
    BY <2>1, <2>2, <2>3, ReturnKeeps
  <2>4. CASE Goto(p, "session") /\ UNCHANGED <<op, locks>>
    <3>1. UNCHANGED <<op, bayLock, memberLock, rowLock>>
      BY <2>4 DEF locks
    <3>2. pc' \in [Procs -> Points] /\ pc'[p] = "session" /\ \A q \in Procs \ {p} : pc'[q] = pc[q]
      BY <1>2, <2>4 DEF TypeOK, Goto, Points
    <3>3. TypeOK'
      BY <1>2, <2>1, <2>2, <3>1, <3>2 DEF TypeOK, RowTyped, Shrinks
    <3>4. Moves({p})
      BY <1>1, <2>2, <3>1, <3>2 DEF Moves, NewRowsFresh
    <3>5. HandlerInv(p)'
      BY <1>1, <3>1, <3>2
         DEF HandlerInv, RequestFitsPoint, InsertsFreshRow, Inserting, HoldsBayLock,
             HoldsMemberLock, BayStillFree, MemberStillFree, StillNothingAsked
    <3> QED BY <2>1, <3>3, <3>4, <3>5, QuietStep
  <2> QED BY <1>4, <2>3, <2>4
<1> QED BY <1>3, <1>4 DEF WriteLink

LEMMA ReturnsKeep ==
    ASSUME IInv, NEW p \in Procs, SessionMade(p) \/ Abort(p)
    PROVE  IInv'
BY GiveUpKeeps DEF SessionMade, Abort, row, IInv, TypeOK

-----------------------------------------------------------------------------
(* Single statements.                                                      *)

\* A step that moves no handler and adds nothing to the histories.
LEMMA StatementKeeps ==
    ASSUME IInv, UNCHANGED <<pc, op, locks>>, RowTyped', NewRowsFresh({}),
           Shrinks, HistoryIsCurrent'
    PROVE  IInv'
<1>1. UNCHANGED <<pc, op, bayLock, memberLock, rowLock>>
  BY DEF locks
<1>2. TypeOK'
  BY <1>1 DEF IInv, TypeOK, RowTyped, Shrinks
<1>3. Moves({})
  BY <1>1 DEF Moves, NewRowsFresh
<1> QED BY <1>2, <1>3, QuietStep

LEMMA UpdateKeeps ==
    ASSUME IInv, NEW b \in Bookings, NEW from \in SUBSET (Statuses \ {"absent"}),
           NEW s \in Statuses \ {"absent"}, Update(b, from, s)
    PROVE  IInv'
<1>1. TypeOK /\ Exists(b)
  BY DEF IInv, Update, Exists
<1>2. SetStatus(b, s) /\ bay' = bay /\ linked' = linked /\ UNCHANGED <<pc, op, locks>>
  BY DEF Update
<1>3. /\ status' \in [Bookings -> Statuses]
      /\ Shrinks
      /\ HistoryIsCurrent'
      /\ \A c \in Bookings : Exists(c)' => Exists(c) \/ c = b
  BY <1>2, SetStatusEffect
<1>4. RowTyped' /\ NewRowsFresh({})
  BY <1>1, <1>2, <1>3 DEF RowTyped, NewRowsFresh, TypeOK
<1> QED BY <1>2, <1>3, <1>4, StatementKeeps

LEMMA LinkCancelledKeeps ==
    ASSUME IInv, NEW b \in Bookings, LinkCancelled(b)
    PROVE  IInv'
<1>1. /\ linked' = [linked EXCEPT ![b] = TRUE]
      /\ UNCHANGED <<status, bay, vetted, solo, asked>>
      /\ UNCHANGED <<pc, op, locks>>
  BY DEF LinkCancelled, history
<1>2. RowTyped' /\ NewRowsFresh({}) /\ Shrinks /\ HistoryIsCurrent'
  BY <1>1 DEF RowTyped, NewRowsFresh, Exists, Shrinks, HistoryIsCurrent, IInv, TypeOK
<1> QED BY <1>1, <1>2, StatementKeeps

LEMMA UnlinkKeeps ==
    ASSUME IInv, NEW b \in Bookings, Unlink(b)
    PROVE  IInv'
<1>1. /\ linked' = [linked EXCEPT ![b] = FALSE]
      /\ UNCHANGED <<status, bay, vetted, solo, asked>>
      /\ UNCHANGED <<pc, op, locks>>
  BY DEF Unlink, history
<1>2. RowTyped' /\ NewRowsFresh({}) /\ Shrinks /\ HistoryIsCurrent'
  BY <1>1 DEF RowTyped, NewRowsFresh, Exists, Shrinks, HistoryIsCurrent, IInv, TypeOK
<1> QED BY <1>1, <1>2, StatementKeeps

LEMMA DeclineRelinkedKeeps ==
    ASSUME IInv, NEW b \in Bookings, DeclineRelinked(b)
    PROVE  IInv'
<1>1. TypeOK /\ Exists(b)
  BY DEF IInv, DeclineRelinked, Exists
<1>2. /\ SetStatus(b, "declined") /\ bay' = bay
      /\ linked' = [linked EXCEPT ![b] = FALSE]
      /\ UNCHANGED <<pc, op, locks>>
  BY DEF DeclineRelinked
<1>3. /\ status' \in [Bookings -> Statuses]
      /\ Shrinks
      /\ HistoryIsCurrent'
      /\ \A c \in Bookings : Exists(c)' => Exists(c) \/ c = b
  BY <1>2, SetStatusEffect DEF Statuses
<1>4. RowTyped' /\ NewRowsFresh({})
  BY <1>1, <1>2, <1>3 DEF RowTyped, NewRowsFresh, TypeOK
<1> QED BY <1>2, <1>3, <1>4, StatementKeeps

LEMMA TrackmanInsertKeeps ==
    ASSUME IInv, NEW b \in Bookings, NEW y \in Bays \cup {NoBay}, TrackmanInsert(b, y)
    PROVE  IInv'
<1>1. PICK gone \in SUBSET Bookings :
          /\ Fresh(b)
          /\ gone \subseteq {c \in Bookings : status[c] \in Excluded}
          /\ status' = [c \in Bookings |->
                          IF c = b THEN "approved" ELSE IF c \in gone THEN "cancelled" ELSE status[c]]
          /\ bay' = [bay EXCEPT ![b] = y]
          /\ linked' = [linked EXCEPT ![b] = TRUE]
          /\ vetted' = vetted \ gone /\ solo' = solo \ gone /\ asked' = asked \ gone
          /\ UNCHANGED <<pc, op, locks>>
  BY DEF TrackmanInsert
<1>2. TypeOK /\ HistoryIsCurrent
  BY DEF IInv
<1>3. b \notin vetted /\ b \notin solo /\ b \notin asked
  BY <1>1, <1>2 DEF Fresh, Exists, HistoryIsCurrent, Occupying, Active
<1>4. RowTyped'
  BY <1>1, <1>2 DEF RowTyped, TypeOK, Statuses
<1>5. \A c \in Bookings : Exists(c)' => Exists(c) \/ c = b
  BY <1>1 DEF Exists, Excluded
<1>6. NewRowsFresh({})
  BY <1>1, <1>5 DEF NewRowsFresh
<1>7. \A c \in Bookings \ {b} : bay'[c] = bay[c] /\ (c \notin gone => status'[c] = status[c])
  BY <1>1, <1>2 DEF TypeOK
<1>8. Shrinks /\ HistoryIsCurrent'
  BY <1>1, <1>2, <1>3, <1>7 DEF Shrinks, HistoryIsCurrent, TypeOK
<1> QED BY <1>1, <1>4, <1>6, <1>8, StatementKeeps

LEMMA UpdateStepKeeps ==
    ASSUME IInv, NEW b \in Bookings, UpdateStep(b)
    PROVE  IInv'
<1>1. CASE Decline(b)
  BY <1>1, UpdateKeeps DEF Decline, Requested, Statuses
<1>2. CASE DeclineResource(b)
  BY <1>2, UpdateKeeps DEF DeclineResource, Statuses
<1>3. CASE DevConfirm(b)
  BY <1>3, UpdateKeeps DEF DevConfirm, Requested, Statuses
<1>4. CASE CheckIn(b)
  <2>1. PICK s \in {"attended", "no_show"} :
            Update(b, {"approved", "confirmed", "attended", "no_show",
                       "cancelled", "cancellation_pending"} \ {s}, s)
    BY <1>4 DEF CheckIn
  <2> QED BY <2>1, UpdateKeeps DEF Statuses
<1>5. CASE CompletePendingCancellation(b)
  BY <1>5, UpdateKeeps DEF CompletePendingCancellation, Statuses
<1>6. CASE SoftDelete(b)
  BY <1>6, UpdateKeeps DEF SoftDelete, Statuses
<1>7. CASE ExpireRequest(b)
  BY <1>7, UpdateKeeps DEF ExpireRequest, Requested, Statuses
<1>8. CASE AutoComplete(b)
  BY <1>8, UpdateKeeps DEF AutoComplete, Statuses
<1>9. CASE LinkCancelled(b)
  BY <1>9, LinkCancelledKeeps
<1>10. CASE \E y \in Bays \cup {NoBay} : TrackmanInsert(b, y)
  BY <1>10, TrackmanInsertKeeps
<1>11. CASE Unlink(b) \/ DeclineRelinked(b)
  BY <1>11, UnlinkKeeps, DeclineRelinkedKeeps
<1> QED BY <1>1, <1>2, <1>3, <1>4, <1>5, <1>6, <1>7, <1>8, <1>9, <1>10, <1>11 DEF UpdateStep

-----------------------------------------------------------------------------
(* The theorems.                                                           *)

LEMMA InitIInv == Init => IInv
<1> SUFFICES ASSUME Init PROVE IInv
  OBVIOUS
<1>1. TypeOK
  BY DEF Init, TypeOK, Statuses, Points
<1>2. \A p \in Procs : HandlerInv(p)
  BY DEF Init, HandlerInv, RequestFitsPoint, InsertsFreshRow, Inserting, HoldsBayLock,
         HoldsMemberLock, BayStillFree, MemberStillFree, StillNothingAsked
<1>3. HistoryIsCurrent /\ NoVettedDoubleBooking /\ NoMemberClash /\ OneRequestPerMember
  BY DEF Init, HistoryIsCurrent, NoVettedDoubleBooking, NoMemberClash, OneRequestPerMember
<1> QED BY <1>1, <1>2, <1>3 DEF IInv

LEMMA HandlerStepKeeps ==
    ASSUME IInv, NEW p \in Procs, HandlerStep(p)
    PROVE  IInv'
<1>1. CASE \E b \in Bookings, y \in Bays \cup {NoBay} :
              \/ StartCreation(p, "member", b, y) \/ StartCreation(p, "staff", b, y)
              \/ StartApprove(p, b, y) \/ StartUnlocked(p, b, y)
  BY <1>1, StartsKeep
<1>2. CASE \E b \in Bookings :
              \/ StartCancel(p, b) \/ StartWebhookCancel(p, b)
              \/ StartMemberCancel(p, b) \/ StartLegacyCancel(p, b)
              \/ StartRevert(p, b) \/ StartGeneric(p, b)
              \/ StartConfirm(p, b) \/ StartLink(p, b)
  BY <1>2, StartsKeep
<1>3. CASE LockRow(p) \/ LockBay(p) \/ LockMember(p)
  BY <1>3, LockRowKeeps, LockBayKeeps, LockMemberKeeps
<1>4. CASE CheckBay(p) \/ CheckMember(p) \/ CheckApproval(p)
  BY <1>4, CheckBayKeeps, CheckMemberKeeps, CheckApprovalKeeps
<1>5. CASE CommitRoom(p) \/ CommitMember(p) \/ CommitStaff(p) \/ CommitApproval(p)
  BY <1>5, CommitRoomKeeps, CommitMemberKeeps, CommitStaffKeeps, CommitApprovalKeeps
<1>6. CASE LinkApproved(p) \/ InsertUnlocked(p) \/ WriteLink(p)
  BY <1>6, LinkApprovedKeeps, InsertUnlockedKeeps, WriteLinkKeeps
<1>7. CASE \/ WriteCancel(p) \/ WriteMemberCancel(p) \/ WriteLegacyCancel(p)
           \/ WriteRevert(p) \/ WriteGeneric(p) \/ WriteConfirm(p) \/ SessionFailed(p)
  BY <1>7, WritesKeep
<1>8. CASE SessionMade(p) \/ Abort(p)
  BY <1>8, ReturnsKeep
<1> QED BY <1>1, <1>2, <1>3, <1>4, <1>5, <1>6, <1>7, <1>8 DEF HandlerStep

LEMMA NextIInv ==
    ASSUME IInv, [Next]_vars
    PROVE  IInv'
<1>1. CASE Next
  BY <1>1, HandlerStepKeeps, UpdateStepKeeps DEF Next
<1>2. CASE UNCHANGED vars
  <2>1. UNCHANGED <<pc, op, locks>> /\ UNCHANGED <<status, bay, linked, vetted, solo, asked>>
    BY <1>2 DEF vars, row, history
  <2>2. RowTyped' /\ NewRowsFresh({}) /\ Shrinks /\ HistoryIsCurrent'
    BY <2>1 DEF RowTyped, NewRowsFresh, Exists, Shrinks, HistoryIsCurrent, IInv, TypeOK
  <2> QED BY <2>1, <2>2, StatementKeeps
<1> QED BY <1>1, <1>2

\* The invariant that relates the locks handlers hold to what they have checked
\* holds in every reachable state, for all handlers of the repository.
THEOREM Inductive == Spec => []IInv
BY InitIInv, NextIInv, PTL DEF Spec

\* Every column, lock and handler stays in its range.
THEOREM TypeCorrect == Spec => []TypeOK
<1>1. IInv => TypeOK
  BY DEF IInv
<1> QED BY Inductive, <1>1, PTL

\* Bookings that creation, the staff's manual booking or approval have put on a
\* bay, and that have kept their place, never overlap.
THEOREM BaysNotDoubleBooked == Spec => []NoVettedDoubleBooking
<1>1. IInv => NoVettedDoubleBooking
  BY DEF IInv
<1> QED BY Inductive, <1>1, PTL

\* The active bookings a member has asked for never overlap each other.
THEOREM MembersNotDoubleBooked == Spec => []NoMemberClash
<1>1. IInv => NoMemberClash
  BY DEF IInv
<1> QED BY Inductive, <1>1, PTL

\* A member has at most one request for a bay waiting.
THEOREM OneRequestAtATime == Spec => []OneRequestPerMember
<1>1. IInv => OneRequestPerMember
  BY DEF IInv
<1> QED BY Inductive, <1>1, PTL

-----------------------------------------------------------------------------
(* The schedule.  Four commits add to it; every other step only takes      *)
(* bookings out of it.                                                     *)

OnlyLeaves ==
    /\ vetted' \subseteq vetted
    /\ solo' \subseteq solo \ (vetted \ vetted')
    /\ asked' \subseteq asked \ (solo \ solo')
    /\ \A b \in vetted' : bay'[b] = bay[b]

LEMMA SetStatusLeaves ==
    ASSUME NEW b, NEW s, SetStatus(b, s), UNCHANGED bay
    PROVE  OnlyLeaves
  BY DEF SetStatus, OnlyLeaves, Occupying, Active

LEMMA WriteLeaves ==
    ASSUME NEW b, NEW s, Write(b, s), UNCHANGED bay
    PROVE  OnlyLeaves
  BY SetStatusLeaves DEF Write, OnlyLeaves, history

LEMMA NothingLeaves ==
    ASSUME UNCHANGED <<bay, history>>
    PROVE  OnlyLeaves
  BY DEF OnlyLeaves, history

LEMMA OthersOnlyLeave ==
    ASSUME IInv, NEW p \in Procs, HandlerStep(p),
           ~CommitRoom(p), ~CommitMember(p), ~CommitStaff(p), ~CommitApproval(p)
    PROVE  OnlyLeaves
<1>1. ASSUME NEW b \in Bookings, NEW y \in Bays \cup {NoBay},
             \/ StartCreation(p, "member", b, y) \/ StartCreation(p, "staff", b, y)
             \/ StartApprove(p, b, y) \/ StartUnlocked(p, b, y)
      PROVE  OnlyLeaves
  BY <1>1, NothingLeaves DEF StartCreation, StartApprove, StartUnlocked, row
<1>2. ASSUME NEW b \in Bookings,
             \/ StartCancel(p, b) \/ StartWebhookCancel(p, b)
             \/ StartMemberCancel(p, b) \/ StartLegacyCancel(p, b)
             \/ StartRevert(p, b) \/ StartGeneric(p, b)
             \/ StartConfirm(p, b) \/ StartLink(p, b)
      PROVE  OnlyLeaves
  BY <1>2, NothingLeaves
     DEF StartCancel, StartWebhookCancel, StartMemberCancel, StartLegacyCancel,
         StartRevert, StartGeneric, StartConfirm, StartLink, Read, row
<1>3. CASE \/ LockRow(p) \/ LockBay(p) \/ LockMember(p)
           \/ CheckBay(p) \/ CheckMember(p) \/ CheckApproval(p)
  BY <1>3, NothingLeaves
     DEF LockRow, LockBay, LockMember, CheckBay, CheckMember, CheckApproval, row
<1>4. CASE LinkApproved(p) \/ SessionMade(p) \/ Abort(p)
  BY <1>4, NothingLeaves DEF LinkApproved, SessionMade, Abort, row
<1>5. CASE InsertUnlocked(p)
  <2>1. op[p].id \notin vetted
    BY <1>5 DEF IInv, HandlerInv, InsertsFreshRow, Inserting, InsertUnlocked, Writes, Exists,
                HistoryIsCurrent, Occupying
  <2>2. history' = history /\ bay' = [bay EXCEPT ![op[p].id] = op[p].bay]
    BY <1>5 DEF InsertUnlocked, Insert
  <2> QED BY <2>1, <2>2 DEF OnlyLeaves, history, IInv, TypeOK
<1>6. CASE \/ WriteCancel(p) \/ WriteMemberCancel(p) \/ WriteLegacyCancel(p)
           \/ WriteRevert(p) \/ WriteGeneric(p) \/ WriteConfirm(p) \/ SessionFailed(p)
  <2>1. \/ \E b, s : Write(b, s) /\ UNCHANGED bay
        \/ UNCHANGED <<bay, history>>
    BY <1>6 DEF WriteCancel, WriteMemberCancel, WriteLegacyCancel, WriteRevert,
                WriteGeneric, WriteConfirm, SessionFailed, FinishIf, Finish, row
  <2> QED BY <2>1, WriteLeaves, NothingLeaves
<1>7. CASE WriteLink(p)
  BY <1>7, SetStatusLeaves, NothingLeaves DEF WriteLink, row
<1> QED BY <1>1, <1>2, <1>3, <1>4, <1>5, <1>6, <1>7 DEF HandlerStep

LEMMA StatementsOnlyLeave ==
    ASSUME IInv, NEW b \in Bookings, UpdateStep(b)
    PROVE  OnlyLeaves
<1>1. \A from, s : Update(b, from, s) => OnlyLeaves
  BY SetStatusLeaves DEF Update
<1>2. LinkCancelled(b) \/ Unlink(b) \/ DeclineRelinked(b) => OnlyLeaves
  BY NothingLeaves, SetStatusLeaves DEF LinkCancelled, Unlink, DeclineRelinked
<1>3. ASSUME NEW y \in Bays \cup {NoBay}, TrackmanInsert(b, y) PROVE OnlyLeaves
  <2>1. b \notin vetted
    BY <1>3 DEF IInv, TrackmanInsert, Fresh, Exists, HistoryIsCurrent, Occupying
  <2>2. bay' = [bay EXCEPT ![b] = y]
    BY <1>3 DEF TrackmanInsert
  <2>3. PICK out : /\ vetted' = vetted \ out
                   /\ solo' = solo \ out
                   /\ asked' = asked \ out
    BY <1>3 DEF TrackmanInsert
  <2> QED BY <2>1, <2>2, <2>3 DEF OnlyLeaves, IInv, TypeOK
<1> QED BY <1>1, <1>2, <1>3
        DEF UpdateStep, Decline, DeclineResource, DevConfirm, CheckIn,
            CompletePendingCancellation, SoftDelete, ExpireRequest, AutoComplete

\* Approval never puts a request back in the schedule that was settled while its
\* approval was waiting for a lock.
THEOREM ApprovesOnlyRequests == Spec => ApprovalFromRequest
<1>1. ASSUME IInv, Next, NEW b \in vetted' \ vetted
      PROVE  status[b] \in Requested \cup {"absent"}
  <2>1. PICK p \in Procs :
            CommitRoom(p) \/ CommitMember(p) \/ CommitStaff(p) \/ CommitApproval(p)
    BY <1>1, OthersOnlyLeave, StatementsOnlyLeave DEF Next, OnlyLeaves
  <2>2. b = op[p].id
    BY <1>1, <2>1 DEF CommitRoom, CommitMember, CommitStaff, CommitApproval
  <2>3. CASE CommitApproval(p)
    BY <2>2, <2>3 DEF CommitApproval, StillRequested
  <2>4. CASE CommitRoom(p) \/ CommitMember(p) \/ CommitStaff(p)
    <3>1. Inserting(p)
      BY <2>4 DEF CommitRoom, CommitMember, CommitStaff, Inserting
    <3> QED BY <1>1, <2>2, <3>1 DEF IInv, HandlerInv, InsertsFreshRow, Exists
  <2> QED BY <2>1, <2>3, <2>4
<1>2. ASSUME IInv, [Next]_vars
      PROVE  [\A b \in vetted' \ vetted : status[b] \in Requested \cup {"absent"}]_vars
  BY <1>1, <1>2
<1> QED BY Inductive, <1>2, PTL DEF Spec, ApprovalFromRequest

-----------------------------------------------------------------------------
(* The handlers implement the desk.                                        *)

LEMMA InitDesk == Init => Desk!Init
BY DEF Init, Desk!Init

LEMMA LeavesDesk ==
    ASSUME OnlyLeaves
    PROVE  Desk!Next
<1>1. PICK gone \in SUBSET vetted : gone = vetted \ vetted'
  OBVIOUS
<1>2. Desk!Held = vetted
  BY DEF Desk!Held
<1>3. Desk!Leave(gone)
  BY <1>1, <1>2 DEF OnlyLeaves, Desk!Leave
<1> QED BY <1>1, <1>2, <1>3 DEF Desk!Next

\* A commit enters the row on a bay that is free at that moment.
LEMMA CommitEnters ==
    ASSUME IInv, NEW p \in Procs, pc[p] = "commit", NEW b \in Bookings, b = op[p].id,
           NEW y, y = op[p].bay, NEW s, NEW trackman, Insert(b, s, y, trackman),
           vetted' = vetted \cup {b}
    PROVE  Desk!Enter(b, y)
<1>1. Desk!BayFree(b, y)
  BY DEF IInv, HandlerInv, BayStillFree, Desk!BayFree, Desk!Held
<1>2. \A c \in vetted' : bay'[c] = IF c = b THEN y ELSE bay[c]
  BY DEF Insert, IInv, TypeOK
<1> QED BY <1>1, <1>2 DEF Desk!Enter, Desk!Held

\* What a member asks for does not clash with what the member has, and is the
\* member's only request that waits.
LEMMA MemberAsks ==
    ASSUME IInv, NEW p \in Procs, pc[p] = "commit", op[p].kind = "member"
    PROVE  /\ op[p].id \notin Desk!Held
           /\ Desk!MemberFree(op[p].id)
           /\ op[p].bay \notin Rooms => Desk!NothingWaiting(op[p].id)
<1>1. op[p].id \notin vetted
  BY InsertedIsNew DEF Inserting
<1> QED BY <1>1 DEF IInv, HandlerInv, MemberStillFree, StillNothingAsked,
                    Desk!Held, Desk!MemberFree, Desk!NothingWaiting

LEMMA CommitsAtDesk ==
    ASSUME IInv, NEW p \in Procs,
           CommitRoom(p) \/ CommitMember(p) \/ CommitStaff(p) \/ CommitApproval(p)
    PROVE  Desk!Next
<1>1. pc[p] = "commit"
  BY DEF CommitRoom, CommitMember, CommitStaff, CommitApproval
<1>2. PICK b \in Bookings, y \in Bays \cup {NoBay} : b = op[p].id /\ y = op[p].bay
  BY <1>1, CommitterTyped DEF Requests
<1>3. Desk!Enter(b, y)
  <2>1. vetted' = vetted \cup {b} /\ \E s, trackman : Insert(b, s, y, trackman)
    BY <1>2 DEF CommitRoom, CommitMember, CommitStaff, CommitApproval
  <2> QED BY <1>1, <1>2, <2>1, CommitEnters
<1>4. CASE CommitMember(p) \/ (CommitRoom(p) /\ op[p].kind = "member")
  <2>1. Desk!Ask(b, y)
    BY <1>1, <1>2, <1>3, <1>4, MemberAsks DEF CommitRoom, CommitMember, Desk!Ask
  <2> QED BY <1>2, <2>1 DEF Desk!Next
<1>5. CASE CommitStaff(p) \/ CommitApproval(p) \/ (CommitRoom(p) /\ op[p].kind # "member")
  <2>1. Desk!Assign(b, y)
    BY <1>2, <1>3, <1>5 DEF CommitRoom, CommitStaff, CommitApproval, Desk!Assign
  <2> QED BY <1>2, <2>1 DEF Desk!Next
<1> QED BY <1>4, <1>5

LEMMA StepDesk == IInv /\ [Next]_vars => [Desk!Next]_(Desk!vars)
<1>1. ASSUME IInv, NEW p \in Procs, HandlerStep(p) PROVE Desk!Next
  BY <1>1, CommitsAtDesk, OthersOnlyLeave, LeavesDesk
<1>2. ASSUME IInv, NEW b \in Bookings, UpdateStep(b) PROVE Desk!Next
  BY <1>2, StatementsOnlyLeave, LeavesDesk
<1>3. UNCHANGED vars => UNCHANGED Desk!vars
  BY DEF vars, row, history, Desk!vars
<1> QED BY <1>1, <1>2, <1>3 DEF Next

\* The handlers, whatever their number and however they are interleaved, behave
\* as one clerk who checks the schedule and writes into it in one step: members
\* ask, staff enter and approve one after the other, and all else only takes
\* bookings out of the schedule.
THEOREM OneClerk == Spec => ImplementsDesk
BY InitDesk, StepDesk, Inductive, PTL DEF Spec, Desk!Spec, ImplementsDesk

-----------------------------------------------------------------------------
(* What the desk keeps in order.                                           *)

LEMMA InitInOrder == Desk!Init => Desk!InOrder
BY DEF Desk!Init, Desk!InOrder, Desk!OnePerBay, Desk!OnePlacePerMember,
       Desk!OneWaitingPerMember, Desk!WaitingHasPlace, Desk!Held

LEMMA EnterKeepsOrder ==
    ASSUME Desk!InOrder, NEW b \in Bookings, NEW y, Desk!Enter(b, y)
    PROVE  Desk!OnePerBay' /\ Desk!Held' = Desk!Held \cup {b}
<1>1. /\ vetted' = vetted \cup {b}
      /\ \A c \in vetted' : bay'[c] = IF c = b THEN y ELSE bay[c]
  <2>1. [c \in vetted' |-> bay'[c]] = [c \in vetted \cup {b} |-> IF c = b THEN y ELSE bay[c]]
    BY DEF Desk!Enter, Desk!Held
  <2>2. vetted' = DOMAIN [c \in vetted' |-> bay'[c]]
    OBVIOUS
  <2>3. vetted' = vetted \cup {b}
    BY <2>1, <2>2
  <2> QED BY <2>1, <2>3
<1>2. vetted \subseteq Bookings
  BY DEF Desk!InOrder, Desk!WaitingHasPlace, Desk!Held
<1>3. y # NoBay => \A c \in vetted \ {b} : bay[c] = y => ~Overlap(b, c) /\ ~Overlap(c, b)
  BY <1>2, OverlapSymmetric DEF Desk!Enter, Desk!BayFree, Desk!Held
<1> QED BY <1>1, <1>3 DEF Desk!InOrder, Desk!OnePerBay, Desk!Held

LEMMA AskKeepsOrder ==
    ASSUME Desk!InOrder, NEW b \in Bookings, NEW y, Desk!Ask(b, y)
    PROVE  Desk!InOrder'
<1>1. Desk!OnePerBay' /\ Desk!Held' = Desk!Held \cup {b}
  BY EnterKeepsOrder DEF Desk!Ask
<1>2. solo' = solo \cup {b} /\ asked' = IF y \in Rooms THEN asked ELSE asked \cup {b}
  BY DEF Desk!Ask
<1>3. solo \subseteq Bookings
  BY DEF Desk!InOrder, Desk!WaitingHasPlace
<1>4. Desk!OnePlacePerMember'
  <2>1. \A c \in solo : Owner[c] = Owner[b] => ~Overlap(b, c) /\ ~Overlap(c, b)
    BY <1>3, OverlapSymmetric DEF Desk!Ask, Desk!MemberFree
  <2> QED BY <1>2, <2>1 DEF Desk!InOrder, Desk!OnePlacePerMember
<1>5. Desk!OneWaitingPerMember'
  BY <1>2 DEF Desk!Ask, Desk!NothingWaiting, Desk!InOrder, Desk!OneWaitingPerMember
<1>6. Desk!WaitingHasPlace'
  BY <1>1, <1>2 DEF Desk!InOrder, Desk!WaitingHasPlace
<1> QED BY <1>1, <1>4, <1>5, <1>6 DEF Desk!InOrder

LEMMA AssignKeepsOrder ==
    ASSUME Desk!InOrder, NEW b \in Bookings, NEW y, Desk!Assign(b, y)
    PROVE  Desk!InOrder'
<1>1. Desk!OnePerBay' /\ Desk!Held' = Desk!Held \cup {b}
  BY EnterKeepsOrder DEF Desk!Assign
<1>2. solo' = solo /\ asked' \subseteq asked
  BY DEF Desk!Assign
<1> QED BY <1>1, <1>2 DEF Desk!InOrder, Desk!OnePlacePerMember, Desk!OneWaitingPerMember,
                          Desk!WaitingHasPlace

LEMMA LeaveKeepsOrder ==
    ASSUME Desk!InOrder, NEW gone, Desk!Leave(gone)
    PROVE  Desk!InOrder'
<1>1. vetted' = vetted \ gone /\ \A c \in vetted' : bay'[c] = bay[c]
  <2>1. [c \in vetted' |-> bay'[c]] = [c \in vetted \ gone |-> bay[c]]
    BY DEF Desk!Leave, Desk!Held
  <2>2. vetted' = DOMAIN [c \in vetted' |-> bay'[c]]
    OBVIOUS
  <2>3. vetted' = vetted \ gone
    BY <2>1, <2>2
  <2> QED BY <2>1, <2>3
<1>2. solo' \subseteq solo \ gone /\ asked' \subseteq asked \ (solo \ solo')
  BY DEF Desk!Leave
<1> QED BY <1>1, <1>2 DEF Desk!InOrder, Desk!OnePerBay, Desk!OnePlacePerMember,
                          Desk!OneWaitingPerMember, Desk!WaitingHasPlace, Desk!Held

\* No bay and no member is promised twice at the desk, a member has one request
\* waiting, and a request that waits has kept its place in the schedule: asked is
\* a part of solo and solo of vetted, although each is kept by statements of its
\* own.
THEOREM ScheduleInOrder == Spec => []Desk!InOrder
<1>1. Desk!InOrder /\ [Desk!Next]_(Desk!vars) => Desk!InOrder'
  <2> SUFFICES ASSUME Desk!InOrder, [Desk!Next]_(Desk!vars) PROVE Desk!InOrder'
    OBVIOUS
  <2>1. CASE UNCHANGED Desk!vars
    <3>1. Desk!Leave({})
      BY <2>1 DEF Desk!vars, Desk!Leave, Desk!Held
    <3> QED BY <3>1, LeaveKeepsOrder
  <2>2. CASE Desk!Next
    BY <2>2, AskKeepsOrder, AssignKeepsOrder, LeaveKeepsOrder DEF Desk!Next
  <2> QED BY <2>1, <2>2
<1> QED BY InitInOrder, <1>1, OneClerk, PTL DEF ImplementsDesk, Desk!Spec

=============================================================================
