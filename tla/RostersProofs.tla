---------------------------- MODULE RostersProofs ----------------------------
(***************************************************************************)
(* Theorems about Rosters, for every finite set of requests, all people,   *)
(* player counts and passes: the type invariant and the inductive          *)
(* invariant behind PassesAccounted, RefundedOnce, SeesTheRoster,          *)
(* RosterFits and MemberOnce.                                              *)
(*                                                                         *)
(* First come facts about how many elements sets of requests have, then    *)
(* one lemma per operation: it keeps every part of the invariant.          *)
(***************************************************************************)
EXTENDS Rosters, FiniteSetTheorems, TLAPS

\* Sets of requests can be counted.
LEMMA Countable ==
    ASSUME NEW S \in SUBSET Requests
    PROVE  IsFiniteSet(S) /\ Cardinality(S) \in Nat
BY RequestsAssumption, FS_Subset, FS_CardinalityType

\* A subset has no more elements.
LEMMA Fewer ==
    ASSUME NEW S \in SUBSET Requests, NEW T \in SUBSET S
    PROVE  Cardinality(T) <= Cardinality(S)
BY Countable, FS_Subset

\* One element more.
LEMMA OneMore ==
    ASSUME NEW S \in SUBSET Requests, NEW r \in Requests, r \notin S
    PROVE  Cardinality(S \cup {r}) = Cardinality(S) + 1
BY Countable, FS_AddElement

\* One element less.
LEMMA OneLess ==
    ASSUME NEW S \in SUBSET Requests, NEW r \in S
    PROVE  Cardinality(S \ {r}) = Cardinality(S) - 1
BY Countable, FS_RemoveElement

\* One element for another.
LEMMA Swapped ==
    ASSUME NEW S \in SUBSET Requests, NEW q \in S, NEW r \in Requests, r \notin S
    PROVE  Cardinality((S \ {q}) \cup {r}) = Cardinality(S)
<1>1. r \notin S \ {q} /\ S \ {q} \in SUBSET Requests
  OBVIOUS
<1>2. Cardinality(S) \in Nat
  BY Countable
<1>3. Cardinality(S \ {q}) = Cardinality(S) - 1
  BY OneLess
<1>4. Cardinality((S \ {q}) \cup {r}) = Cardinality(S \ {q}) + 1
  BY <1>1, OneMore
<1> QED
  BY <1>2, <1>3, <1>4

\* The counts are numbers.
LEMMA CountsAreNumbers ==
    ASSUME TypeOK
    PROVE  declared \in Nat /\ peak \in Nat /\ \A q \in Requests : limit[q] \in Nat
<1>1. declared \in Counts /\ peak \in Counts /\ \A q \in Requests : limit[q] \in Counts \cup {0}
  BY DEF TypeOK
<1>2. \A n \in Counts \cup {0} : n \in Nat
  BY CountsAssumption
<1> QED
  BY <1>1, <1>2

\* Who has committed has finished, and a member keeps its name, and the place it
\* was given under the lock.
LEMMA PlaceKept ==
    ASSUME IInv,
           \A q \in Requests : at[q] \in {"refunding", "done"}
                              => at'[q] \in {"refunding", "done"} /\ op'[q] = op[q],
           \A q \in Requests : op'[q] = "member"
                              => who'[q] \in People \/ (op[q] = "member" /\ who'[q] = who[q]),
           \A q \in Requests : op'[q] = "member" /\ at'[q] = "locked"
                              => op[q] = "member" /\ at[q] = "locked" /\ target'[q] = target[q]
    PROVE  PlaceInv'
<1>1. \A q \in Requests : op'[q] = "member" => who'[q] \in People
  BY DEF IInv, PlaceInv
<1>2. \A q \in Requests : op'[q] = "member" /\ at'[q] = "locked" /\ target'[q] # NoRow
                         => /\ at'[target'[q]] \in {"refunding", "done"}
                            /\ op'[target'[q]] \in {"passGuest", "guest", "deskGuest"}
  BY DEF IInv, TypeOK, PlaceInv, IsGuest
<1> QED
  BY <1>1, <1>2 DEF PlaceInv, IsGuest

\* The client reads the version.
LEMMA ViewKeeps ==
    ASSUME IInv, NEW r \in Requests, View(r)
    PROVE  IInv'
<1>1. r \notin roster
  BY RequestsAssumption DEF IInv, TypeOK, StageInv, RowsInv, View
<1>2. ByService' = ByService
  BY <1>1 DEF IInv, TypeOK, ByService, View, request, client, rows, booking, history, Goto
<1>3. \A p : MembersOf(p)' = MembersOf(p)
  BY <1>1 DEF IInv, TypeOK, MembersOf, IsMember, View, request, client, rows, booking, history,
     Goto
<1>4. TypeOK'
  BY RequestsAssumption, NamesAssumption, CountsAssumption DEF IInv, TypeOK, Quiet, Working,
     Ops, ServiceOps, DeskOps, Adds, View, request, client, rows, booking, history, Goto
<1>5. LockInv'
  BY RequestsAssumption DEF IInv, TypeOK, LockInv, View, request, client, rows, booking,
     history, Goto
<1>6. StageInv'
  BY RequestsAssumption, NamesAssumption DEF IInv, TypeOK, LockInv, StageInv, RowsInv, DeskOps,
     View, request, client, rows, booking, history, Goto
<1>7. RowsInv'
  BY RequestsAssumption DEF IInv, TypeOK, StageInv, RowsInv, View, request, client, rows,
     booking, history, Goto
<1>8. RemovalInv'
  BY RequestsAssumption, NamesAssumption DEF IInv, TypeOK, LockInv, StageInv, RowsInv,
     RemovalInv, ViewInv, Current, Working, Quiet, View, request, client, rows, booking,
     history, Goto
<1>9. ViewInv'
  BY RequestsAssumption, NamesAssumption DEF IInv, TypeOK, LockInv, StageInv, RowsInv, ViewInv,
     Current, Changed, View, request, client, rows, booking, history, Goto
<1>10. AdmittedInv'
  BY RequestsAssumption, CountsAssumption, <1>2, <1>3 DEF IInv, TypeOK, LockInv, StageInv,
     AdmittedInv, Adds, DeskOps, View, request, client, rows, booking, history, Goto
<1>11. PassesAccounted'
  BY RequestsAssumption DEF IInv, PassesAccounted, Held, View, request, client, rows, booking,
     history, Goto
<1>12. RefundedOnce'
  BY RequestsAssumption, NamesAssumption DEF IInv, TypeOK, StageInv, RemovalInv, ViewInv,
     Current, RefundedOnce, View, request, client, rows, booking, history, Goto
<1>13. RosterFits'
  BY <1>2 DEF IInv, RosterFits, View, request, client, rows, booking, history, Goto
<1>14. MemberOnce'
  BY <1>1, <1>2 DEF IInv, TypeOK, MemberOnce, ByService, View, request, client, rows, booking,
     history, Goto
<1>15. PlaceInv'
  BY PlaceKept, RequestsAssumption DEF IInv, TypeOK, StageInv, LockInv, Quiet, Working, Adds,
     View, Ask, Goto, Owes, request, client, rows, booking, history
<1> QED
  BY <1>4, <1>5, <1>6, <1>7, <1>8, <1>9, <1>10, <1>11, <1>12, <1>13, <1>14, <1>15 DEF IInv

\* The client reads the rows.
LEMMA SeeRowsKeeps ==
    ASSUME IInv, NEW r \in Requests, SeeRows(r)
    PROVE  IInv'
<1>1. r \notin roster
  BY RequestsAssumption DEF IInv, TypeOK, StageInv, RowsInv, SeeRows
<1>2. ByService' = ByService
  BY <1>1 DEF IInv, TypeOK, ByService, SeeRows, request, client, rows, booking, history, Goto
<1>3. \A p : MembersOf(p)' = MembersOf(p)
  BY <1>1 DEF IInv, TypeOK, MembersOf, IsMember, SeeRows, request, client, rows, booking,
     history, Goto
<1>4. TypeOK'
  BY RequestsAssumption, NamesAssumption, CountsAssumption DEF IInv, TypeOK, Quiet, Working,
     Ops, ServiceOps, DeskOps, Adds, SeeRows, request, client, rows, booking, history, Goto
<1>5. LockInv'
  BY RequestsAssumption DEF IInv, TypeOK, LockInv, SeeRows, request, client, rows, booking,
     history, Goto
<1>6. StageInv'
  BY RequestsAssumption, NamesAssumption DEF IInv, TypeOK, LockInv, StageInv, RowsInv, DeskOps,
     SeeRows, request, client, rows, booking, history, Goto
<1>7. RowsInv'
  BY RequestsAssumption DEF IInv, TypeOK, StageInv, RowsInv, SeeRows, request, client, rows,
     booking, history, Goto
<1>8. RemovalInv'
  BY RequestsAssumption, NamesAssumption DEF IInv, TypeOK, LockInv, StageInv, RowsInv,
     RemovalInv, ViewInv, Current, Working, Quiet, SeeRows, request, client, rows, booking,
     history, Goto
<1>9. ViewInv'
  BY RequestsAssumption, NamesAssumption DEF IInv, TypeOK, LockInv, StageInv, RowsInv, ViewInv,
     Current, Changed, SeeRows, request, client, rows, booking, history, Goto
<1>10. AdmittedInv'
  BY RequestsAssumption, CountsAssumption, <1>2, <1>3 DEF IInv, TypeOK, LockInv, StageInv,
     AdmittedInv, Adds, DeskOps, SeeRows, request, client, rows, booking, history, Goto
<1>11. PassesAccounted'
  BY RequestsAssumption DEF IInv, PassesAccounted, Held, SeeRows, request, client, rows,
     booking, history, Goto
<1>12. RefundedOnce'
  BY RequestsAssumption, NamesAssumption DEF IInv, TypeOK, StageInv, RemovalInv, ViewInv,
     Current, RefundedOnce, SeeRows, request, client, rows, booking, history, Goto
<1>13. RosterFits'
  BY <1>2 DEF IInv, RosterFits, SeeRows, request, client, rows, booking, history, Goto
<1>14. MemberOnce'
  BY <1>1, <1>2 DEF IInv, TypeOK, MemberOnce, ByService, SeeRows, request, client, rows,
     booking, history, Goto
<1>15. PlaceInv'
  BY PlaceKept, RequestsAssumption DEF IInv, TypeOK, StageInv, LockInv, Quiet, Working, Adds,
     SeeRows, Ask, Goto, Owes, request, client, rows, booking, history
<1> QED
  BY <1>4, <1>5, <1>6, <1>7, <1>8, <1>9, <1>10, <1>11, <1>12, <1>13, <1>14, <1>15 DEF IInv

\* An add reads the booking.
LEMMA OpenAddKeeps ==
    ASSUME IInv, NEW r \in Requests, OpenAdd(r)
    PROVE  IInv'
<1>1. r \notin roster
  BY RequestsAssumption DEF IInv, TypeOK, StageInv, RowsInv, OpenAdd, Sends, Ask
<1>2. ByService' = ByService
  BY <1>1 DEF IInv, TypeOK, ByService, OpenAdd, Sends, Ask, request, client, rows, booking,
     history, Goto
<1>3. \A p : MembersOf(p)' = MembersOf(p)
  BY <1>1 DEF IInv, TypeOK, MembersOf, IsMember, OpenAdd, Sends, Ask, request, client, rows,
     booking, history, Goto
<1>4. TypeOK'
  BY RequestsAssumption, NamesAssumption, CountsAssumption DEF IInv, TypeOK, Quiet, Working,
     Ops, ServiceOps, DeskOps, Adds, OpenAdd, Sends, Ask, request, client, rows, booking,
     history, Goto
<1>5. LockInv'
  BY RequestsAssumption DEF IInv, TypeOK, LockInv, OpenAdd, Sends, Ask, request, client, rows,
     booking, history, Goto
<1>6. StageInv'
  BY RequestsAssumption, NamesAssumption DEF IInv, TypeOK, LockInv, StageInv, RowsInv, DeskOps,
     OpenAdd, Sends, Ask, request, client, rows, booking, history, Goto
<1>7. RowsInv'
  BY RequestsAssumption DEF IInv, TypeOK, StageInv, RowsInv, OpenAdd, Sends, Ask, request,
     client, rows, booking, history, Goto
<1>8. RemovalInv'
  <2>1. op'[r] \in Adds /\ \A q \in Requests \ {r} : op'[q] = op[q] /\ target'[q] = target[q]
    BY DEF IInv, TypeOK, OpenAdd, Ask
  <2>2. \A q \in Requests \ {r} : at'[q] = at[q]
    BY DEF IInv, TypeOK, OpenAdd, Goto
  <2>3. \A q \in Requests : at[q] \in {"refunding", "done"} => at'[q] = at[q]
    BY DEF IInv, TypeOK, OpenAdd, Sends, Goto
  <2> QED
    BY <2>1, <2>2, <2>3 DEF IInv, TypeOK, RemovalInv, OpenAdd, Adds, client, rows, booking, history
<1>9. ViewInv'
  BY RequestsAssumption, NamesAssumption DEF IInv, TypeOK, LockInv, StageInv, RowsInv, ViewInv,
     Current, Changed, OpenAdd, Sends, Ask, request, client, rows, booking, history, Goto
<1>10. AdmittedInv'
  BY RequestsAssumption, CountsAssumption, <1>2, <1>3 DEF IInv, TypeOK, LockInv, StageInv,
     AdmittedInv, Adds, DeskOps, OpenAdd, Sends, Ask, request, client, rows, booking, history,
     Goto
<1>11. PassesAccounted'
  BY RequestsAssumption DEF IInv, PassesAccounted, Held, OpenAdd, Sends, Ask, request, client,
     rows, booking, history, Goto
<1>12. RefundedOnce'
  BY RequestsAssumption, NamesAssumption DEF IInv, TypeOK, StageInv, RemovalInv, ViewInv,
     Current, RefundedOnce, OpenAdd, Sends, Ask, request, client, rows, booking, history, Goto
<1>13. RosterFits'
  BY <1>2 DEF IInv, RosterFits, OpenAdd, Sends, Ask, request, client, rows, booking, history,
     Goto
<1>14. MemberOnce'
  BY <1>1, <1>2 DEF IInv, TypeOK, MemberOnce, ByService, OpenAdd, Sends, Ask, request, client,
     rows, booking, history, Goto
<1>15. PlaceInv'
  BY PlaceKept, RequestsAssumption DEF IInv, TypeOK, StageInv, LockInv, Quiet, Working, Adds,
     OpenAdd, Sends, Ask, Goto, Owes, request, client, rows, booking, history
<1> QED
  BY <1>4, <1>5, <1>6, <1>7, <1>8, <1>9, <1>10, <1>11, <1>12, <1>13, <1>14, <1>15 DEF IInv

\* A removal reads its row.
LEMMA OpenRemoveKeeps ==
    ASSUME IInv, NEW r \in Requests, OpenRemove(r)
    PROVE  IInv'
<1>1. r \notin roster
  BY RequestsAssumption DEF IInv, TypeOK, StageInv, RowsInv, OpenRemove, Sends, Ask
<1>2. ByService' = ByService
  BY <1>1 DEF IInv, TypeOK, ByService, OpenRemove, Sends, Ask, request, client, rows, booking,
     history, Goto
<1>3. \A p : MembersOf(p)' = MembersOf(p)
  BY <1>1 DEF IInv, TypeOK, MembersOf, IsMember, OpenRemove, Sends, Ask, request, client, rows,
     booking, history, Goto
<1>4. TypeOK'
  BY RequestsAssumption, NamesAssumption, CountsAssumption DEF IInv, TypeOK, Quiet, Working,
     Ops, ServiceOps, DeskOps, Adds, OpenRemove, Sends, Ask, request, client, rows, booking,
     history, Goto
<1>5. LockInv'
  BY RequestsAssumption DEF IInv, TypeOK, LockInv, OpenRemove, Sends, Ask, request, client,
     rows, booking, history, Goto
<1>6. StageInv'
  BY RequestsAssumption, NamesAssumption DEF IInv, TypeOK, LockInv, StageInv, RowsInv, DeskOps,
     OpenRemove, Sends, Ask, request, client, rows, booking, history, Goto
<1>7. RowsInv'
  BY RequestsAssumption DEF IInv, TypeOK, StageInv, RowsInv, OpenRemove, Sends, Ask, request,
     client, rows, booking, history, Goto
<1>8. RemovalInv'
  <2>1. \A q \in Requests \ {r} : op'[q] = op[q] /\ target'[q] = target[q] /\ at'[q] = at[q]
    BY DEF IInv, TypeOK, OpenRemove, Ask, Goto
  <2>2. \A q \in Requests : at[q] \in {"refunding", "done"} => at'[q] = at[q]
    BY DEF IInv, TypeOK, OpenRemove, Sends, Goto
  <2>3. \A q \in Requests \ {r} : q \in flagged' <=> q \in flagged
    BY DEF OpenRemove
  <2>4. /\ target'[r] \in roster
        /\ target'[r] \in withPass => r \in flagged'
        /\ r \in flagged' => target'[r] \in withPass
    BY DEF IInv, TypeOK, StageInv, OpenRemove, Sends, Ask
  <2> QED
    BY <2>1, <2>2, <2>3, <2>4 DEF IInv, TypeOK, RemovalInv, RowsInv, OpenRemove, client,
                                 rows, booking, history
<1>9. ViewInv'
  BY RequestsAssumption, NamesAssumption DEF IInv, TypeOK, LockInv, StageInv, RowsInv, ViewInv,
     Current, Changed, OpenRemove, Sends, Ask, request, client, rows, booking, history, Goto
<1>10. AdmittedInv'
  BY RequestsAssumption, CountsAssumption, <1>2, <1>3 DEF IInv, TypeOK, LockInv, StageInv,
     AdmittedInv, Adds, DeskOps, OpenRemove, Sends, Ask, request, client, rows, booking,
     history, Goto
<1>11. PassesAccounted'
  BY RequestsAssumption DEF IInv, PassesAccounted, Held, OpenRemove, Sends, Ask, request,
     client, rows, booking, history, Goto
<1>12. RefundedOnce'
  BY RequestsAssumption, NamesAssumption DEF IInv, TypeOK, StageInv, RemovalInv, ViewInv,
     Current, RefundedOnce, OpenRemove, Sends, Ask, request, client, rows, booking, history,
     Goto
<1>13. RosterFits'
  BY <1>2 DEF IInv, RosterFits, OpenRemove, Sends, Ask, request, client, rows, booking, history,
     Goto
<1>14. MemberOnce'
  BY <1>1, <1>2 DEF IInv, TypeOK, MemberOnce, ByService, OpenRemove, Sends, Ask, request,
     client, rows, booking, history, Goto
<1>15. PlaceInv'
  BY PlaceKept, RequestsAssumption DEF IInv, TypeOK, StageInv, LockInv, Quiet, Working, Adds,
     OpenRemove, Sends, Ask, Goto, Owes, request, client, rows, booking, history
<1> QED
  BY <1>4, <1>5, <1>6, <1>7, <1>8, <1>9, <1>10, <1>11, <1>12, <1>13, <1>14, <1>15 DEF IInv

\* A batch reads the booking.
LEMMA OpenBatchKeeps ==
    ASSUME IInv, NEW r \in Requests, OpenBatch(r)
    PROVE  IInv'
<1>1. r \notin roster
  BY RequestsAssumption DEF IInv, TypeOK, StageInv, RowsInv, OpenBatch, Ask
<1>2. ByService' = ByService
  BY <1>1 DEF IInv, TypeOK, ByService, OpenBatch, Ask, request, client, rows, booking, history,
     Goto
<1>3. \A p : MembersOf(p)' = MembersOf(p)
  BY <1>1 DEF IInv, TypeOK, MembersOf, IsMember, OpenBatch, Ask, request, client, rows, booking,
     history, Goto
<1>4. TypeOK'
  BY RequestsAssumption, NamesAssumption, CountsAssumption DEF IInv, TypeOK, Quiet, Working,
     Ops, ServiceOps, DeskOps, Adds, OpenBatch, Ask, request, client, rows, booking, history,
     Goto
<1>5. LockInv'
  BY RequestsAssumption DEF IInv, TypeOK, LockInv, OpenBatch, Ask, request, client, rows,
     booking, history, Goto
<1>6. StageInv'
  BY RequestsAssumption, NamesAssumption DEF IInv, TypeOK, LockInv, StageInv, RowsInv, DeskOps,
     OpenBatch, Ask, request, client, rows, booking, history, Goto
<1>7. RowsInv'
  BY RequestsAssumption DEF IInv, TypeOK, StageInv, RowsInv, OpenBatch, Ask, request, client,
     rows, booking, history, Goto
<1>8. RemovalInv'
  BY RequestsAssumption, NamesAssumption DEF IInv, TypeOK, LockInv, StageInv, RowsInv,
     RemovalInv, ViewInv, Current, Working, Quiet, OpenBatch, Ask, request, client, rows,
     booking, history, Goto
<1>9. ViewInv'
  BY RequestsAssumption, NamesAssumption DEF IInv, TypeOK, LockInv, StageInv, RowsInv, ViewInv,
     Current, Changed, OpenBatch, Ask, request, client, rows, booking, history, Goto
<1>10. AdmittedInv'
  BY RequestsAssumption, CountsAssumption, <1>2, <1>3 DEF IInv, TypeOK, LockInv, StageInv,
     AdmittedInv, Adds, DeskOps, OpenBatch, Ask, request, client, rows, booking, history, Goto
<1>11. PassesAccounted'
  BY RequestsAssumption DEF IInv, PassesAccounted, Held, OpenBatch, Ask, request, client, rows,
     booking, history, Goto
<1>12. RefundedOnce'
  BY RequestsAssumption, NamesAssumption DEF IInv, TypeOK, StageInv, RemovalInv, ViewInv,
     Current, RefundedOnce, OpenBatch, Ask, request, client, rows, booking, history, Goto
<1>13. RosterFits'
  BY <1>2 DEF IInv, RosterFits, OpenBatch, Ask, request, client, rows, booking, history, Goto
<1>14. MemberOnce'
  BY <1>1, <1>2 DEF IInv, TypeOK, MemberOnce, ByService, OpenBatch, Ask, request, client, rows,
     booking, history, Goto
<1>15. PlaceInv'
  BY PlaceKept, RequestsAssumption DEF IInv, TypeOK, StageInv, LockInv, Quiet, Working, Adds,
     OpenBatch, Ask, Goto, Owes, request, client, rows, booking, history
<1> QED
  BY <1>4, <1>5, <1>6, <1>7, <1>8, <1>9, <1>10, <1>11, <1>12, <1>13, <1>14, <1>15 DEF IInv

\* A change of the player count begins.
LEMMA OpenCountKeeps ==
    ASSUME IInv, NEW r \in Requests, OpenCount(r)
    PROVE  IInv'
<1>1. r \notin roster
  BY RequestsAssumption DEF IInv, TypeOK, StageInv, RowsInv, OpenCount, Ask
<1>2. ByService' = ByService
  BY <1>1 DEF IInv, TypeOK, ByService, OpenCount, Ask, request, client, rows, booking, history,
     Goto
<1>3. \A p : MembersOf(p)' = MembersOf(p)
  BY <1>1 DEF IInv, TypeOK, MembersOf, IsMember, OpenCount, Ask, request, client, rows, booking,
     history, Goto
<1>4. TypeOK'
  BY RequestsAssumption, NamesAssumption, CountsAssumption DEF IInv, TypeOK, Quiet, Working,
     Ops, ServiceOps, DeskOps, Adds, OpenCount, Ask, request, client, rows, booking, history,
     Goto
<1>5. LockInv'
  BY RequestsAssumption DEF IInv, TypeOK, LockInv, OpenCount, Ask, request, client, rows,
     booking, history, Goto
<1>6. StageInv'
  BY RequestsAssumption, NamesAssumption DEF IInv, TypeOK, LockInv, StageInv, RowsInv, DeskOps,
     OpenCount, Ask, request, client, rows, booking, history, Goto
<1>7. RowsInv'
  BY RequestsAssumption DEF IInv, TypeOK, StageInv, RowsInv, OpenCount, Ask, request, client,
     rows, booking, history, Goto
<1>8. RemovalInv'
  BY RequestsAssumption, NamesAssumption DEF IInv, TypeOK, LockInv, StageInv, RowsInv,
     RemovalInv, ViewInv, Current, Working, Quiet, OpenCount, Ask, request, client, rows,
     booking, history, Goto
<1>9. ViewInv'
  BY RequestsAssumption, NamesAssumption DEF IInv, TypeOK, LockInv, StageInv, RowsInv, ViewInv,
     Current, Changed, OpenCount, Ask, request, client, rows, booking, history, Goto
<1>10. AdmittedInv'
  BY RequestsAssumption, CountsAssumption, <1>2, <1>3 DEF IInv, TypeOK, LockInv, StageInv,
     AdmittedInv, Adds, DeskOps, OpenCount, Ask, request, client, rows, booking, history, Goto
<1>11. PassesAccounted'
  BY RequestsAssumption DEF IInv, PassesAccounted, Held, OpenCount, Ask, request, client, rows,
     booking, history, Goto
<1>12. RefundedOnce'
  BY RequestsAssumption, NamesAssumption DEF IInv, TypeOK, StageInv, RemovalInv, ViewInv,
     Current, RefundedOnce, OpenCount, Ask, request, client, rows, booking, history, Goto
<1>13. RosterFits'
  BY <1>2 DEF IInv, RosterFits, OpenCount, Ask, request, client, rows, booking, history, Goto
<1>14. MemberOnce'
  BY <1>1, <1>2 DEF IInv, TypeOK, MemberOnce, ByService, OpenCount, Ask, request, client, rows,
     booking, history, Goto
<1>15. PlaceInv'
  BY PlaceKept, RequestsAssumption DEF IInv, TypeOK, StageInv, LockInv, Quiet, Working, Adds,
     OpenCount, Ask, Goto, Owes, request, client, rows, booking, history
<1> QED
  BY <1>4, <1>5, <1>6, <1>7, <1>8, <1>9, <1>10, <1>11, <1>12, <1>13, <1>14, <1>15 DEF IInv

\* The staff are about to link a member.
LEMMA DeskMemberKeeps ==
    ASSUME IInv, NEW r \in Requests, DeskMember(r)
    PROVE  IInv'
<1>1. r \notin roster
  BY RequestsAssumption DEF IInv, TypeOK, StageInv, RowsInv, DeskMember, Ask
<1>2. ByService' = ByService
  BY <1>1 DEF IInv, TypeOK, ByService, DeskMember, Ask, request, client, rows, booking, history,
     Goto
<1>3. \A p : MembersOf(p)' = MembersOf(p)
  BY <1>1 DEF IInv, TypeOK, MembersOf, IsMember, DeskMember, Ask, request, client, rows,
     booking, history, Goto
<1>4. TypeOK'
  BY RequestsAssumption, NamesAssumption, CountsAssumption DEF IInv, TypeOK, Quiet, Working,
     Ops, ServiceOps, DeskOps, Adds, DeskMember, Ask, request, client, rows, booking, history,
     Goto
<1>5. LockInv'
  BY RequestsAssumption DEF IInv, TypeOK, LockInv, DeskMember, Ask, request, client, rows,
     booking, history, Goto
<1>6. StageInv'
  BY RequestsAssumption, NamesAssumption DEF IInv, TypeOK, LockInv, StageInv, RowsInv, DeskOps,
     DeskMember, Ask, request, client, rows, booking, history, Goto
<1>7. RowsInv'
  BY RequestsAssumption DEF IInv, TypeOK, StageInv, RowsInv, DeskMember, Ask, request, client,
     rows, booking, history, Goto
<1>8. RemovalInv'
  BY RequestsAssumption, NamesAssumption DEF IInv, TypeOK, LockInv, StageInv, RowsInv,
     RemovalInv, ViewInv, Current, Working, Quiet, DeskMember, Ask, request, client, rows,
     booking, history, Goto
<1>9. ViewInv'
  BY RequestsAssumption, NamesAssumption DEF IInv, TypeOK, LockInv, StageInv, RowsInv, ViewInv,
     Current, Changed, DeskMember, Ask, request, client, rows, booking, history, Goto
<1>10. AdmittedInv'
  BY RequestsAssumption, CountsAssumption, <1>2, <1>3 DEF IInv, TypeOK, LockInv, StageInv,
     AdmittedInv, Adds, DeskOps, DeskMember, Ask, request, client, rows, booking, history, Goto
<1>11. PassesAccounted'
  BY RequestsAssumption DEF IInv, PassesAccounted, Held, DeskMember, Ask, request, client, rows,
     booking, history, Goto
<1>12. RefundedOnce'
  BY RequestsAssumption, NamesAssumption DEF IInv, TypeOK, StageInv, RemovalInv, ViewInv,
     Current, RefundedOnce, DeskMember, Ask, request, client, rows, booking, history, Goto
<1>13. RosterFits'
  BY <1>2 DEF IInv, RosterFits, DeskMember, Ask, request, client, rows, booking, history, Goto
<1>14. MemberOnce'
  BY <1>1, <1>2 DEF IInv, TypeOK, MemberOnce, ByService, DeskMember, Ask, request, client, rows,
     booking, history, Goto
<1>15. PlaceInv'
  BY PlaceKept, RequestsAssumption DEF IInv, TypeOK, StageInv, LockInv, Quiet, Working, Adds,
     DeskMember, Ask, Goto, Owes, request, client, rows, booking, history
<1> QED
  BY <1>4, <1>5, <1>6, <1>7, <1>8, <1>9, <1>10, <1>11, <1>12, <1>13, <1>14, <1>15 DEF IInv

\* The staff are about to remove a row.
LEMMA DeskDropKeeps ==
    ASSUME IInv, NEW r \in Requests, DeskDrop(r)
    PROVE  IInv'
<1>1. r \notin roster
  BY RequestsAssumption DEF IInv, TypeOK, StageInv, RowsInv, DeskDrop, Ask
<1>2. ByService' = ByService
  BY <1>1 DEF IInv, TypeOK, ByService, DeskDrop, Ask, request, client, rows, booking, history,
     Goto
<1>3. \A p : MembersOf(p)' = MembersOf(p)
  BY <1>1 DEF IInv, TypeOK, MembersOf, IsMember, DeskDrop, Ask, request, client, rows, booking,
     history, Goto
<1>4. TypeOK'
  BY RequestsAssumption, NamesAssumption, CountsAssumption DEF IInv, TypeOK, Quiet, Working,
     Ops, ServiceOps, DeskOps, Adds, DeskDrop, Ask, request, client, rows, booking, history,
     Goto
<1>5. LockInv'
  BY RequestsAssumption DEF IInv, TypeOK, LockInv, DeskDrop, Ask, request, client, rows,
     booking, history, Goto
<1>6. StageInv'
  BY RequestsAssumption, NamesAssumption DEF IInv, TypeOK, LockInv, StageInv, RowsInv, DeskOps,
     DeskDrop, Ask, request, client, rows, booking, history, Goto
<1>7. RowsInv'
  BY RequestsAssumption DEF IInv, TypeOK, StageInv, RowsInv, DeskDrop, Ask, request, client,
     rows, booking, history, Goto
<1>8. RemovalInv'
  BY RequestsAssumption, NamesAssumption DEF IInv, TypeOK, LockInv, StageInv, RowsInv,
     RemovalInv, ViewInv, Current, Working, Quiet, DeskDrop, Ask, request, client, rows,
     booking, history, Goto
<1>9. ViewInv'
  BY RequestsAssumption, NamesAssumption DEF IInv, TypeOK, LockInv, StageInv, RowsInv, ViewInv,
     Current, Changed, DeskDrop, Ask, request, client, rows, booking, history, Goto
<1>10. AdmittedInv'
  BY RequestsAssumption, CountsAssumption, <1>2, <1>3 DEF IInv, TypeOK, LockInv, StageInv,
     AdmittedInv, Adds, DeskOps, DeskDrop, Ask, request, client, rows, booking, history, Goto
<1>11. PassesAccounted'
  BY RequestsAssumption DEF IInv, PassesAccounted, Held, DeskDrop, Ask, request, client, rows,
     booking, history, Goto
<1>12. RefundedOnce'
  BY RequestsAssumption, NamesAssumption DEF IInv, TypeOK, StageInv, RemovalInv, ViewInv,
     Current, RefundedOnce, DeskDrop, Ask, request, client, rows, booking, history, Goto
<1>13. RosterFits'
  BY <1>2 DEF IInv, RosterFits, DeskDrop, Ask, request, client, rows, booking, history, Goto
<1>14. MemberOnce'
  BY <1>1, <1>2 DEF IInv, TypeOK, MemberOnce, ByService, DeskDrop, Ask, request, client, rows,
     booking, history, Goto
<1>15. PlaceInv'
  BY PlaceKept, RequestsAssumption DEF IInv, TypeOK, StageInv, LockInv, Quiet, Working, Adds,
     DeskDrop, Ask, Goto, Owes, request, client, rows, booking, history
<1> QED
  BY <1>4, <1>5, <1>6, <1>7, <1>8, <1>9, <1>10, <1>11, <1>12, <1>13, <1>14, <1>15 DEF IInv

\* The staff add a guest, with a pass if they can.
LEMMA DeskGuestKeeps ==
    ASSUME IInv, NEW r \in Requests, DeskGuest(r)
    PROVE  IInv'
<1>1. r \notin roster
  BY RequestsAssumption DEF IInv, TypeOK, StageInv, RowsInv, DeskGuest, Ask, TakeOne
<1>2. ByService' = ByService
  BY <1>1 DEF IInv, TypeOK, ByService, DeskGuest, Ask, TakeOne, request, client, rows, booking,
     history, Goto
<1>3. \A p : MembersOf(p)' = MembersOf(p)
  BY <1>1 DEF IInv, TypeOK, MembersOf, IsMember, DeskGuest, Ask, TakeOne, request, client, rows,
     booking, history, Goto
<1>4. TypeOK'
  BY RequestsAssumption, NamesAssumption, CountsAssumption DEF IInv, TypeOK, Quiet, Working,
     Ops, ServiceOps, DeskOps, Adds, DeskGuest, Ask, TakeOne, request, client, rows, booking,
     history, Goto
<1>5. LockInv'
  BY RequestsAssumption DEF IInv, TypeOK, LockInv, DeskGuest, Ask, TakeOne, request, client,
     rows, booking, history, Goto
<1>6. StageInv'
  BY RequestsAssumption, NamesAssumption DEF IInv, TypeOK, LockInv, StageInv, RowsInv, DeskOps,
     DeskGuest, Ask, TakeOne, request, client, rows, booking, history, Goto
<1>7. RowsInv'
  BY RequestsAssumption DEF IInv, TypeOK, StageInv, RowsInv, DeskGuest, Ask, TakeOne, request,
     client, rows, booking, history, Goto
<1>8. RemovalInv'
  BY RequestsAssumption, NamesAssumption DEF IInv, TypeOK, LockInv, StageInv, RowsInv,
     RemovalInv, ViewInv, Current, Working, Quiet, DeskGuest, Ask, TakeOne, request, client,
     rows, booking, history, Goto
<1>9. ViewInv'
  BY RequestsAssumption, NamesAssumption DEF IInv, TypeOK, LockInv, StageInv, RowsInv, ViewInv,
     Current, Changed, DeskGuest, Ask, TakeOne, request, client, rows, booking, history, Goto
<1>10. AdmittedInv'
  BY RequestsAssumption, CountsAssumption, <1>2, <1>3 DEF IInv, TypeOK, LockInv, StageInv,
     AdmittedInv, Adds, DeskOps, DeskGuest, Ask, TakeOne, request, client, rows, booking,
     history, Goto
<1>11. PassesAccounted'
  <2>1. r \notin Held /\ r \notin lost /\ Held \in SUBSET Requests /\ lost \in SUBSET Requests
    BY DEF IInv, TypeOK, StageInv, RowsInv, Held, DeskGuest
  <2>2. CASE UNCHANGED <<used, carrying>>
    BY <2>2 DEF IInv, PassesAccounted, Held, DeskGuest, rows, history
  <2>3. CASE used' = used + 1 /\ carrying' = carrying \cup {r}
    <3>1. Held' = Held \cup {r} /\ (Held \cup lost)' = (Held \cup lost) \cup {r}
      BY <2>3 DEF Held, DeskGuest, rows
    <3>2. Cardinality(Held') = Cardinality(Held) + 1
      BY <2>1, <3>1, OneMore
    <3>3. Cardinality((Held \cup lost)') = Cardinality(Held \cup lost) + 1
      BY <2>1, <3>1, OneMore
    <3>4. /\ Cardinality(Held) \in Nat /\ Cardinality(Held \cup lost) \in Nat
          /\ Cardinality(twice) \in Nat
      BY <2>1, Countable DEF IInv, TypeOK
    <3> QED
      BY <2>3, <3>2, <3>3, <3>4 DEF IInv, TypeOK, PassesAccounted, DeskGuest, history
  <2> QED
    BY <2>2, <2>3 DEF DeskGuest, TakeOne
<1>12. RefundedOnce'
  BY RequestsAssumption, NamesAssumption DEF IInv, TypeOK, StageInv, RemovalInv, ViewInv,
     Current, RefundedOnce, DeskGuest, Ask, TakeOne, request, client, rows, booking, history,
     Goto
<1>13. RosterFits'
  BY <1>2 DEF IInv, RosterFits, DeskGuest, Ask, TakeOne, request, client, rows, booking,
     history, Goto
<1>14. MemberOnce'
  BY <1>1, <1>2 DEF IInv, TypeOK, MemberOnce, ByService, DeskGuest, Ask, TakeOne, request,
     client, rows, booking, history, Goto
<1>15. PlaceInv'
  BY PlaceKept, RequestsAssumption DEF IInv, TypeOK, StageInv, LockInv, Quiet, Working, Adds,
     DeskGuest, Ask, Goto, Owes, request, client, rows, booking, history
<1> QED
  BY <1>4, <1>5, <1>6, <1>7, <1>8, <1>9, <1>10, <1>11, <1>12, <1>13, <1>14, <1>15 DEF IInv

\* A request takes the lock, or is refused.
LEMMA LockKeeps ==
    ASSUME IInv, NEW r \in Requests, Lock(r)
    PROVE  IInv'
<1>1. ByService' = ByService
  BY DEF ByService, Lock, Refuse, Admitted, Current, request, client, rows, booking, history,
     Goto
<1>2. \A p : MembersOf(p)' = MembersOf(p)
  BY DEF MembersOf, IsMember, Lock, Refuse, Admitted, Current, request, client, rows, booking,
     history, Goto
<1>3. TypeOK'
  <2>1. Matching(r) \subseteq Requests \cup {NoRow}
    BY DEF IInv, TypeOK, Matching, GuestsNamed
  <2>2. target' \in [Requests -> Requests \cup {NoRow}]
    BY <2>1 DEF IInv, TypeOK, Lock
  <2> QED
    BY <2>2 DEF IInv, TypeOK, Quiet, Working, Lock, Refuse, Goto, client, rows, booking, history
<1>4. LockInv'
  BY RequestsAssumption DEF IInv, TypeOK, LockInv, Lock, Refuse, Admitted, Current, request,
     client, rows, booking, history, Goto
<1>5. StageInv'
  BY RequestsAssumption, NamesAssumption DEF IInv, TypeOK, LockInv, StageInv, RowsInv, DeskOps,
     Lock, Refuse, Admitted, Current, request, client, rows, booking, history, Goto
<1>6. RowsInv'
  BY RequestsAssumption DEF IInv, TypeOK, StageInv, RowsInv, Lock, Refuse, Admitted, Current,
     request, client, rows, booking, history, Goto
<1>7. RemovalInv'
  <2>1. \A q \in Requests : op[q] # "member" => target'[q] = target[q]
    BY DEF IInv, TypeOK, Lock, Matching
  <2>2. \A q \in Requests : /\ at'[q] \in {"opened", "locked"} => at[q] \in {"opened", "locked"}
                            /\ at[q] \in {"refunding", "done"} => at'[q] = at[q]
    BY DEF IInv, TypeOK, Lock, Refuse, Goto
  <2> QED
    BY <2>1, <2>2 DEF IInv, TypeOK, RemovalInv, Lock, client, rows, booking, history
<1>8. ViewInv'
  BY RequestsAssumption, NamesAssumption DEF IInv, TypeOK, LockInv, StageInv, RowsInv, ViewInv,
     Current, Changed, Lock, Refuse, Admitted, Current, request, client, rows, booking, history,
     Goto
<1>9. AdmittedInv'
  <2>1. CASE at[r] = "opened" /\ Admitted(r)
    <3>1. Cardinality(ByService) <= Cardinality(roster) /\ Cardinality(ByService) \in Nat
                                                      /\ Cardinality(roster) \in Nat
      BY Fewer, Countable DEF IInv, TypeOK, ByService
    <3>2. limit[r] \in Nat
      BY CountsAreNumbers DEF IInv
    <3>3. op[r] \in Adds => 1 + Cardinality(ByService) < limit[r]
      BY <2>1, <3>1, <3>2 DEF Admitted, HasRoom
    <3>4. op[r] = "member" => MembersOf(who[r]) \cap ByService = {}
      BY <2>1 DEF Admitted
    <3>5. \A q \in Requests : at'[q] \in {"locked", "passed"} => q = r
      BY RequestsAssumption DEF IInv, TypeOK, LockInv, Lock, Refuse, Goto
    <3> QED
      BY <1>1, <1>2, <3>3, <3>4, <3>5 DEF IInv, AdmittedInv, Lock, booking
  <2>2. CASE at'[r] \notin {"locked", "passed"}
    BY <2>2, <1>1, <1>2 DEF IInv, TypeOK, AdmittedInv, Lock, Refuse, Goto, booking
  <2> QED
    BY <2>1, <2>2 DEF IInv, TypeOK, Lock, Refuse, Goto
<1>10. PassesAccounted'
  BY RequestsAssumption DEF IInv, PassesAccounted, Held, Lock, Refuse, Admitted, Current,
     request, client, rows, booking, history, Goto
<1>11. RefundedOnce'
  BY RequestsAssumption, NamesAssumption DEF IInv, TypeOK, StageInv, RemovalInv, ViewInv,
     Current, RefundedOnce, Lock, Refuse, Admitted, Current, request, client, rows, booking,
     history, Goto
<1>12. RosterFits'
  BY <1>1 DEF IInv, RosterFits, Lock, Refuse, Admitted, Current, request, client, rows, booking,
     history, Goto
<1>13. MemberOnce'
  BY <1>1 DEF IInv, TypeOK, MemberOnce, ByService, Lock, Refuse, Admitted, Current, request,
     client, rows, booking, history, Goto
<1>14. PlaceInv'
  <2>1. \A q \in Requests : at[q] \in {"refunding", "done"} => at'[q] = at[q]
    BY DEF IInv, TypeOK, Lock, Refuse, Goto
  <2>2. ASSUME NEW q \in Matching(r), op[r] = "member", q # NoRow
        PROVE  at[q] \in {"refunding", "done"} /\ IsGuest(q)
    BY <2>2 DEF IInv, RowsInv, Matching, GuestsNamed
  <2>3. ASSUME NEW q \in Requests, op[q] = "member", at'[q] = "locked", target'[q] # NoRow
        PROVE  at[target'[q]] \in {"refunding", "done"} /\ IsGuest(target'[q])
    <3>1. CASE at[q] = "locked" /\ target'[q] = target[q]
      BY <2>3, <3>1 DEF IInv, PlaceInv
    <3>2. CASE q = r /\ at[r] = "opened" /\ target'[r] \in Matching(r)
      BY <2>2, <2>3, <3>2
    <3> QED
      BY <2>3, <3>1, <3>2, RequestsAssumption DEF IInv, TypeOK, LockInv, Lock, Refuse, Goto
  <2>4. op' = op /\ who' = who /\ target' \in [Requests -> Requests \cup {NoRow}]
    BY <1>3 DEF TypeOK, Lock
  <2>5. \A q \in Requests : op[q] = "member" => who[q] \in People
    BY DEF IInv, PlaceInv
  <2> QED
    BY <2>1, <2>3, <2>4, <2>5 DEF PlaceInv, IsGuest
<1> QED
  BY <1>3, <1>4, <1>5, <1>6, <1>7, <1>8, <1>9, <1>10, <1>11, <1>12, <1>13, <1>14 DEF IInv

\* A pass for a guest.
LEMMA TakePassKeeps ==
    ASSUME IInv, NEW r \in Requests, TakePass(r)
    PROVE  IInv'
<1>1. ByService' = ByService
  BY DEF ByService, TakePass, TakeOne, Refuse, request, client, rows, booking, history, Goto
<1>2. \A p : MembersOf(p)' = MembersOf(p)
  BY DEF MembersOf, IsMember, TakePass, TakeOne, Refuse, request, client, rows, booking,
     history, Goto
<1>3. TypeOK'
  BY RequestsAssumption, NamesAssumption, CountsAssumption DEF IInv, TypeOK, Quiet, Working,
     Ops, ServiceOps, DeskOps, Adds, TakePass, TakeOne, Refuse, request, client, rows, booking,
     history, Goto
<1>4. LockInv'
  BY RequestsAssumption DEF IInv, TypeOK, LockInv, TakePass, TakeOne, Refuse, request, client,
     rows, booking, history, Goto
<1>5. StageInv'
  BY RequestsAssumption, NamesAssumption DEF IInv, TypeOK, LockInv, StageInv, RowsInv, DeskOps,
     TakePass, TakeOne, Refuse, request, client, rows, booking, history, Goto
<1>6. RowsInv'
  BY RequestsAssumption DEF IInv, TypeOK, StageInv, RowsInv, TakePass, TakeOne, Refuse, request,
     client, rows, booking, history, Goto
<1>7. RemovalInv'
  BY RequestsAssumption, NamesAssumption DEF IInv, TypeOK, LockInv, StageInv, RowsInv,
     RemovalInv, ViewInv, Current, Working, Quiet, TakePass, TakeOne, Refuse, request, client,
     rows, booking, history, Goto
<1>8. ViewInv'
  BY RequestsAssumption, NamesAssumption DEF IInv, TypeOK, LockInv, StageInv, RowsInv, ViewInv,
     Current, Changed, TakePass, TakeOne, Refuse, request, client, rows, booking, history, Goto
<1>9. AdmittedInv'
  BY RequestsAssumption, CountsAssumption, <1>1, <1>2 DEF IInv, TypeOK, LockInv, StageInv,
     AdmittedInv, Adds, DeskOps, TakePass, TakeOne, Refuse, request, client, rows, booking,
     history, Goto
<1>10. PassesAccounted'
  <2>1. r \notin Held /\ r \notin lost /\ Held \in SUBSET Requests /\ lost \in SUBSET Requests
    BY DEF IInv, TypeOK, StageInv, RowsInv, Held, TakePass
  <2>2. CASE UNCHANGED <<used, carrying>>
    BY <2>2 DEF IInv, PassesAccounted, Held, TakePass, rows, history
  <2>3. CASE used' = used + 1 /\ carrying' = carrying \cup {r}
    <3>1. Held' = Held \cup {r} /\ (Held \cup lost)' = (Held \cup lost) \cup {r}
      BY <2>3 DEF Held, TakePass, rows
    <3>2. Cardinality(Held') = Cardinality(Held) + 1
      BY <2>1, <3>1, OneMore
    <3>3. Cardinality((Held \cup lost)') = Cardinality(Held \cup lost) + 1
      BY <2>1, <3>1, OneMore
    <3>4. /\ Cardinality(Held) \in Nat /\ Cardinality(Held \cup lost) \in Nat
          /\ Cardinality(twice) \in Nat
      BY <2>1, Countable DEF IInv, TypeOK
    <3> QED
      BY <2>3, <3>2, <3>3, <3>4 DEF IInv, TypeOK, PassesAccounted, TakePass, history
  <2> QED
    BY <2>2, <2>3 DEF TakePass, TakeOne
<1>11. RefundedOnce'
  BY RequestsAssumption, NamesAssumption DEF IInv, TypeOK, StageInv, RemovalInv, ViewInv,
     Current, RefundedOnce, TakePass, TakeOne, Refuse, request, client, rows, booking, history,
     Goto
<1>12. RosterFits'
  BY <1>1 DEF IInv, RosterFits, TakePass, TakeOne, Refuse, request, client, rows, booking,
     history, Goto
<1>13. MemberOnce'
  BY <1>1 DEF IInv, TypeOK, MemberOnce, ByService, TakePass, TakeOne, Refuse, request, client,
     rows, booking, history, Goto
<1>14. PlaceInv'
  BY PlaceKept, RequestsAssumption DEF IInv, TypeOK, StageInv, LockInv, Quiet, Working, Adds,
     TakePass, Refuse, Ask, Goto, Owes, request, client, rows, booking, history
<1> QED
  BY <1>3, <1>4, <1>5, <1>6, <1>7, <1>8, <1>9, <1>10, <1>11, <1>12, <1>13, <1>14 DEF IInv

\* A batch commits.
LEMMA CommitBatchKeeps ==
    ASSUME IInv, NEW r \in Requests, CommitBatch(r)
    PROVE  IInv'
<1>1. ByService' = ByService
  BY DEF ByService, CommitBatch, Bump, request, client, rows, booking, history, Goto
<1>2. \A p : MembersOf(p)' = MembersOf(p)
  BY DEF MembersOf, IsMember, CommitBatch, Bump, request, client, rows, booking, history, Goto
<1>3. TypeOK'
  BY RequestsAssumption, NamesAssumption, CountsAssumption DEF IInv, TypeOK, Quiet, Working,
     Ops, ServiceOps, DeskOps, Adds, CommitBatch, Bump, request, client, rows, booking, history,
     Goto
<1>4. LockInv'
  BY RequestsAssumption DEF IInv, TypeOK, LockInv, CommitBatch, Bump, request, client, rows,
     booking, history, Goto
<1>5. StageInv'
  BY RequestsAssumption, NamesAssumption DEF IInv, TypeOK, LockInv, StageInv, RowsInv, DeskOps,
     CommitBatch, Bump, request, client, rows, booking, history, Goto
<1>6. RowsInv'
  BY RequestsAssumption DEF IInv, TypeOK, StageInv, RowsInv, CommitBatch, Bump, request, client,
     rows, booking, history, Goto
<1>7. RemovalInv'
  BY RequestsAssumption, NamesAssumption DEF IInv, TypeOK, LockInv, StageInv, RowsInv,
     RemovalInv, ViewInv, Current, Working, Quiet, CommitBatch, Bump, request, client, rows,
     booking, history, Goto
<1>8. ViewInv'
  BY RequestsAssumption, NamesAssumption DEF IInv, TypeOK, LockInv, StageInv, RowsInv, ViewInv,
     Current, Changed, CommitBatch, Bump, request, client, rows, booking, history, Goto
<1>9. AdmittedInv'
  BY RequestsAssumption, CountsAssumption, <1>1, <1>2 DEF IInv, TypeOK, LockInv, StageInv,
     AdmittedInv, Adds, DeskOps, CommitBatch, Bump, request, client, rows, booking, history,
     Goto
<1>10. PassesAccounted'
  BY RequestsAssumption DEF IInv, PassesAccounted, Held, CommitBatch, Bump, request, client,
     rows, booking, history, Goto
<1>11. RefundedOnce'
  BY RequestsAssumption, NamesAssumption DEF IInv, TypeOK, StageInv, RemovalInv, ViewInv,
     Current, RefundedOnce, CommitBatch, Bump, request, client, rows, booking, history, Goto
<1>12. RosterFits'
  BY <1>1 DEF IInv, RosterFits, CommitBatch, Bump, request, client, rows, booking, history, Goto
<1>13. MemberOnce'
  BY <1>1 DEF IInv, TypeOK, MemberOnce, ByService, CommitBatch, Bump, request, client, rows,
     booking, history, Goto
<1>14. PlaceInv'
  BY PlaceKept, RequestsAssumption DEF IInv, TypeOK, StageInv, LockInv, Quiet, Working, Adds,
     CommitBatch, Ask, Goto, Owes, request, client, rows, booking, history
<1> QED
  BY <1>3, <1>4, <1>5, <1>6, <1>7, <1>8, <1>9, <1>10, <1>11, <1>12, <1>13, <1>14 DEF IInv

\* The player count changes.
LEMMA SetCountKeeps ==
    ASSUME IInv, NEW r \in Requests, SetCount(r)
    PROVE  IInv'
<1>1. ByService' = ByService
  BY DEF ByService, SetCount, request, client, rows, booking, history, Goto
<1>2. \A p : MembersOf(p)' = MembersOf(p)
  BY DEF MembersOf, IsMember, SetCount, request, client, rows, booking, history, Goto
<1>3. TypeOK'
  BY RequestsAssumption, NamesAssumption, CountsAssumption DEF IInv, TypeOK, Quiet, Working,
     Ops, ServiceOps, DeskOps, Adds, SetCount, request, client, rows, booking, history, Goto
<1>4. LockInv'
  BY RequestsAssumption DEF IInv, TypeOK, LockInv, SetCount, request, client, rows, booking,
     history, Goto
<1>5. StageInv'
  BY RequestsAssumption, NamesAssumption DEF IInv, TypeOK, LockInv, StageInv, RowsInv, DeskOps,
     SetCount, request, client, rows, booking, history, Goto
<1>6. RowsInv'
  BY RequestsAssumption DEF IInv, TypeOK, StageInv, RowsInv, SetCount, request, client, rows,
     booking, history, Goto
<1>7. RemovalInv'
  BY RequestsAssumption, NamesAssumption DEF IInv, TypeOK, LockInv, StageInv, RowsInv,
     RemovalInv, ViewInv, Current, Working, Quiet, SetCount, request, client, rows, booking,
     history, Goto
<1>8. ViewInv'
  BY RequestsAssumption, NamesAssumption DEF IInv, TypeOK, LockInv, StageInv, RowsInv, ViewInv,
     Current, Changed, SetCount, request, client, rows, booking, history, Goto
<1>9. AdmittedInv'
  <2>1. declared' \in Nat /\ peak \in Nat /\ \A q \in Requests : limit[q] \in Nat
    BY CountsAssumption, CountsAreNumbers DEF IInv, SetCount
  <2>2. declared' <= peak' /\ peak <= peak' /\ peak' \in Nat
    BY <2>1 DEF SetCount
  <2>3. \A q \in Requests : limit'[q] <= peak'
    BY <2>1, <2>2 DEF IInv, AdmittedInv, SetCount, request
  <2> QED
    BY <1>1, <1>2, <2>2, <2>3 DEF IInv, TypeOK, AdmittedInv, SetCount, Goto, request
<1>10. PassesAccounted'
  BY RequestsAssumption DEF IInv, PassesAccounted, Held, SetCount, request, client, rows,
     booking, history, Goto
<1>11. RefundedOnce'
  BY RequestsAssumption, NamesAssumption DEF IInv, TypeOK, StageInv, RemovalInv, ViewInv,
     Current, RefundedOnce, SetCount, request, client, rows, booking, history, Goto
<1>12. RosterFits'
  <2>1. Cardinality(ByService) \in Nat
    BY Countable DEF IInv, TypeOK, ByService
  <2>2. peak \in Nat /\ declared' \in Nat
    BY CountsAssumption DEF IInv, TypeOK, SetCount
  <2> QED
    BY <1>1, <2>1, <2>2 DEF IInv, RosterFits, SetCount
<1>13. MemberOnce'
  BY <1>1 DEF IInv, TypeOK, MemberOnce, ByService, SetCount, request, client, rows, booking,
     history, Goto
<1>14. PlaceInv'
  BY PlaceKept, RequestsAssumption DEF IInv, TypeOK, StageInv, LockInv, Quiet, Working, Adds,
     SetCount, Ask, Goto, Owes, request, client, rows, booking, history
<1> QED
  BY <1>3, <1>4, <1>5, <1>6, <1>7, <1>8, <1>9, <1>10, <1>11, <1>12, <1>13, <1>14 DEF IInv

\* The booking gets its session.
LEMMA GetSessionKeeps ==
    ASSUME IInv, GetSession
    PROVE  IInv'
<1>1. ByService' = ByService
  BY DEF ByService, GetSession, request, client, rows, booking, history, Goto
<1>2. \A p : MembersOf(p)' = MembersOf(p)
  BY DEF MembersOf, IsMember, GetSession, request, client, rows, booking, history, Goto
<1>3. TypeOK'
  BY RequestsAssumption, NamesAssumption, CountsAssumption DEF IInv, TypeOK, Quiet, Working,
     Ops, ServiceOps, DeskOps, Adds, GetSession, request, client, rows, booking, history, Goto
<1>4. LockInv'
  BY RequestsAssumption DEF IInv, TypeOK, LockInv, GetSession, request, client, rows, booking,
     history, Goto
<1>5. StageInv'
  BY RequestsAssumption, NamesAssumption DEF IInv, TypeOK, LockInv, StageInv, RowsInv, DeskOps,
     GetSession, request, client, rows, booking, history, Goto
<1>6. RowsInv'
  BY RequestsAssumption DEF IInv, TypeOK, StageInv, RowsInv, GetSession, request, client, rows,
     booking, history, Goto
<1>7. RemovalInv'
  BY RequestsAssumption, NamesAssumption DEF IInv, TypeOK, LockInv, StageInv, RowsInv,
     RemovalInv, ViewInv, Current, Working, Quiet, GetSession, request, client, rows, booking,
     history, Goto
<1>8. ViewInv'
  BY RequestsAssumption, NamesAssumption DEF IInv, TypeOK, LockInv, StageInv, RowsInv, ViewInv,
     Current, Changed, GetSession, request, client, rows, booking, history, Goto
<1>9. AdmittedInv'
  BY RequestsAssumption, CountsAssumption, <1>1, <1>2 DEF IInv, TypeOK, LockInv, StageInv,
     AdmittedInv, Adds, DeskOps, GetSession, request, client, rows, booking, history, Goto
<1>10. PassesAccounted'
  BY RequestsAssumption DEF IInv, PassesAccounted, Held, GetSession, request, client, rows,
     booking, history, Goto
<1>11. RefundedOnce'
  BY RequestsAssumption, NamesAssumption DEF IInv, TypeOK, StageInv, RemovalInv, ViewInv,
     Current, RefundedOnce, GetSession, request, client, rows, booking, history, Goto
<1>12. RosterFits'
  BY <1>1 DEF IInv, RosterFits, GetSession, request, client, rows, booking, history, Goto
<1>13. MemberOnce'
  BY <1>1 DEF IInv, TypeOK, MemberOnce, ByService, GetSession, request, client, rows, booking,
     history, Goto
<1>14. PlaceInv'
  BY PlaceKept, RequestsAssumption DEF IInv, TypeOK, StageInv, LockInv, Quiet, Working, Adds,
     GetSession, Ask, Goto, Owes, request, client, rows, booking, history
<1> QED
  BY <1>3, <1>4, <1>5, <1>6, <1>7, <1>8, <1>9, <1>10, <1>11, <1>12, <1>13, <1>14 DEF IInv

\* The commit of an add: its row fits and, for a member, is his only one.
LEMMA RowAdded ==
    ASSUME IInv, NEW r \in Requests, at[r] \in {"locked", "passed"}, op[r] \in Adds,
           op[r] = "member" => at[r] = "locked",
           roster' \subseteq roster \cup {r}, UNCHANGED <<op, who, limit, peak, declared>>,
           \A q \in Requests : at'[q] \notin {"locked", "passed"}
    PROVE  AdmittedInv' /\ RosterFits' /\ MemberOnce'
<1>1. ByService' \subseteq ByService \cup {r}
  BY DEF ByService
<1>2. ByService \in SUBSET Requests /\ ByService \cup {r} \in SUBSET Requests
  BY DEF IInv, TypeOK, ByService
<1>3. r \notin ByService
  BY DEF IInv, TypeOK, RowsInv, ByService
<1>4. Cardinality(ByService') <= Cardinality(ByService) + 1
  <2>1. Cardinality(ByService \cup {r}) = Cardinality(ByService) + 1
    BY <1>2, <1>3, OneMore
  <2> QED
    BY <1>1, <1>2, <2>1, Fewer
<1>5. Cardinality(ByService) \in Nat /\ Cardinality(ByService') \in Nat
  BY <1>1, <1>2, Countable
<1>6. limit[r] \in Nat /\ peak \in Nat
  BY CountsAreNumbers DEF IInv
<1>7. 1 + Cardinality(ByService) < limit[r] /\ limit[r] <= peak
  BY DEF IInv, AdmittedInv
<1>8. RosterFits'
  BY <1>4, <1>5, <1>6, <1>7 DEF RosterFits
<1>9. MemberOnce'
  <2>1. SUFFICES ASSUME NEW p \in ByService', NEW q \in ByService', op[p] = "member",
                        op[q] = "member", who[p] = who[q], p # q
                 PROVE  FALSE
    BY DEF MemberOnce
  <2>2. CASE p # r /\ q # r
    BY <1>1, <2>1, <2>2 DEF IInv, MemberOnce
  <2>3. CASE p = r \/ q = r
    <3>1. op[r] = "member" /\ MembersOf(who[r]) \cap ByService = {}
      BY <2>1, <2>3 DEF IInv, AdmittedInv
    <3> QED
      BY <1>1, <2>1, <2>3, <3>1 DEF MembersOf, IsMember, ByService
  <2> QED
    BY <2>2, <2>3
<1>10. AdmittedInv'
  BY DEF IInv, AdmittedInv
<1> QED
  BY <1>8, <1>9, <1>10

\* Whatever only takes rows of rosterService away.
LEMMA RowsGone ==
    ASSUME IInv, ByService' \subseteq ByService, UNCHANGED <<op, who, limit, peak, declared>>,
           \A q \in Requests : at'[q] \in {"locked", "passed"} => at'[q] = at[q]
    PROVE  AdmittedInv' /\ RosterFits' /\ MemberOnce'
<1>1. ByService \in SUBSET Requests
  BY DEF IInv, TypeOK, ByService
<1>2. /\ Cardinality(ByService') <= Cardinality(ByService)
      /\ Cardinality(ByService) \in Nat /\ Cardinality(ByService') \in Nat
  BY <1>1, Fewer, Countable
<1>3. peak \in Nat /\ \A q \in Requests : limit[q] \in Nat
  BY CountsAreNumbers DEF IInv
<1>4. RosterFits'
  BY <1>2, <1>3 DEF IInv, RosterFits
<1>5. MemberOnce'
  BY DEF IInv, MemberOnce
<1>6. AdmittedInv'
  <2>1. SUFFICES ASSUME NEW q \in Requests
                 PROVE  /\ at'[q] \in {"locked", "passed"} /\ op[q] \in Adds
                           => 1 + Cardinality(ByService') < limit[q]
                        /\ at'[q] = "locked" /\ op[q] = "member"
                           => MembersOf(who[q])' \cap ByService' = {}
    BY DEF IInv, AdmittedInv
  <2>2. MembersOf(who[q])' \cap ByService' \subseteq MembersOf(who[q]) \cap ByService
    BY DEF MembersOf, IsMember, ByService
  <2> QED
    BY <1>2, <1>3, <2>2 DEF IInv, AdmittedInv
<1> QED
  BY <1>4, <1>5, <1>6

\* A pass goes from a row to a request that has to give it back.
LEMMA PassMoved ==
    ASSUME IInv, NEW q \in withPass, NEW r \in Requests, r \notin Held, r \notin lost,
           withPass' = withPass \ {q}, carrying' = carrying \cup {r},
           UNCHANGED <<used, twice, lost>>
    PROVE  PassesAccounted'
<1>1. q \notin carrying /\ q \notin lost
  BY DEF IInv, TypeOK, StageInv, RowsInv
<1>2. Held \in SUBSET Requests /\ lost \in SUBSET Requests
  BY DEF IInv, TypeOK, Held
<1>3. Held' = (Held \ {q}) \cup {r}
  BY <1>1 DEF Held
<1>4. (Held \cup lost)' = ((Held \cup lost) \ {q}) \cup {r}
  BY <1>1, <1>3
<1>5. q \in Held
  BY DEF Held
<1>6. Cardinality(Held') = Cardinality(Held)
  BY <1>2, <1>3, <1>5, Swapped
<1>7. Cardinality((Held \cup lost)') = Cardinality(Held \cup lost)
  BY <1>2, <1>4, <1>5, Swapped
<1> QED
  BY <1>6, <1>7 DEF IInv, PassesAccounted

\* Passes that are lost stay accounted for.
LEMMA PassesLost ==
    ASSUME IInv, Held' \subseteq Held, (Held \cup lost)' = Held \cup lost, UNCHANGED <<used, twice>>
    PROVE  PassesAccounted'
<1>1. Held \in SUBSET Requests /\ twice \in SUBSET Requests
  BY DEF IInv, TypeOK, Held
<1>2. Cardinality(Held') <= Cardinality(Held)
  BY <1>1, Fewer
<1>3. /\ Cardinality(Held) \in Nat /\ Cardinality(Held') \in Nat /\ Cardinality(twice) \in Nat
      /\ used \in Nat
  BY <1>1, Countable, CountsAssumption DEF IInv, TypeOK
<1> QED
  BY <1>2, <1>3 DEF IInv, PassesAccounted

\* A pass that was held is given back.
LEMMA PassReturned ==
    ASSUME IInv, NEW q \in Held, q \notin lost, Held' = Held \ {q}, GiveOne,
           UNCHANGED <<twice, lost>>
    PROVE  PassesAccounted'
<1>1. Held \in SUBSET Requests /\ Held \cup lost \in SUBSET Requests /\ twice \in SUBSET Requests
  BY DEF IInv, TypeOK, Held
<1>2. (Held \cup lost)' = (Held \cup lost) \ {q}
  OBVIOUS
<1>3. Cardinality(Held') = Cardinality(Held) - 1
  BY <1>1, OneLess
<1>4. Cardinality((Held \cup lost)') = Cardinality(Held \cup lost) - 1
  BY <1>1, <1>2, OneLess
<1>5. /\ Cardinality(Held) \in Nat /\ Cardinality((Held \cup lost)') \in Nat
      /\ Cardinality(Held \cup lost) \in Nat /\ Cardinality(twice) \in Nat /\ used \in Nat
  BY <1>1, <1>2, Countable, CountsAssumption DEF IInv, TypeOK
<1> QED
  BY <1>3, <1>4, <1>5 DEF IInv, PassesAccounted, GiveOne

\* The commit of a member.
LEMMA CommitMemberKeeps ==
    ASSUME IInv, NEW r \in Requests, CommitMember(r)
    PROVE  IInv'
<1>1. \A q \in Requests : at'[q] \notin {"locked", "passed"}
  BY RequestsAssumption DEF IInv, TypeOK, LockInv, StageInv, CommitMember, Owes, Bump, request,
     client, rows, booking, history, Goto
<1>2. AdmittedInv' /\ RosterFits' /\ MemberOnce'
  BY <1>1, RowAdded DEF IInv, TypeOK, StageInv, Adds, CommitMember, Owes, Bump, request, client,
     rows, booking, history, Goto
<1>3. TypeOK'
  BY RequestsAssumption, NamesAssumption, CountsAssumption DEF IInv, TypeOK, Quiet, Working,
     Ops, ServiceOps, DeskOps, Adds, CommitMember, Owes, Bump, request, client, rows, booking,
     history, Goto
<1>4. LockInv'
  BY RequestsAssumption DEF IInv, TypeOK, LockInv, CommitMember, Owes, Bump, request, client,
     rows, booking, history, Goto
<1>5. StageInv'
  BY RequestsAssumption, NamesAssumption DEF IInv, TypeOK, LockInv, StageInv, RowsInv, DeskOps,
     CommitMember, Owes, Bump, request, client, rows, booking, history, Goto
<1>6. RowsInv'
  BY RequestsAssumption DEF IInv, TypeOK, StageInv, RowsInv, CommitMember, Owes, Bump, request,
     client, rows, booking, history, Goto
<1>7. RemovalInv'
  BY RequestsAssumption, NamesAssumption DEF IInv, TypeOK, LockInv, StageInv, RowsInv,
     RemovalInv, ViewInv, Current, Working, Quiet, CommitMember, Owes, Bump, request, client,
     rows, booking, history, Goto
<1>8. ViewInv'
  BY RequestsAssumption, NamesAssumption DEF IInv, TypeOK, LockInv, StageInv, RowsInv, ViewInv,
     Current, Changed, CommitMember, Owes, Bump, request, client, rows, booking, history, Goto
<1>9. AdmittedInv'
  BY <1>2
<1>10. PassesAccounted'
  <2>1. r \notin Held /\ r \notin lost
    BY DEF IInv, TypeOK, StageInv, RowsInv, Held, CommitMember
  <2>2. CASE target[r] \in withPass
    BY <2>1, <2>2, PassMoved DEF CommitMember, Owes, history
  <2>3. CASE target[r] \notin withPass
    BY <2>3, PassesLost DEF CommitMember, Owes, history, Held
  <2> QED
    BY <2>2, <2>3
<1>11. RefundedOnce'
  BY RequestsAssumption, NamesAssumption DEF IInv, TypeOK, StageInv, RemovalInv, ViewInv,
     Current, RefundedOnce, CommitMember, Owes, Bump, request, client, rows, booking, history,
     Goto
<1>12. RosterFits'
  BY <1>2
<1>13. MemberOnce'
  BY <1>2
<1>14. PlaceInv'
  BY PlaceKept, RequestsAssumption DEF IInv, TypeOK, StageInv, LockInv, Quiet, Working, Adds,
     CommitMember, Ask, Goto, Owes, request, client, rows, booking, history
<1> QED
  BY <1>3, <1>4, <1>5, <1>6, <1>7, <1>8, <1>9, <1>10, <1>11, <1>12, <1>13, <1>14 DEF IInv

\* The commit of a guest.
LEMMA CommitGuestKeeps ==
    ASSUME IInv, NEW r \in Requests, CommitGuest(r)
    PROVE  IInv'
<1>1. \A q \in Requests : at'[q] \notin {"locked", "passed"}
  BY RequestsAssumption DEF IInv, TypeOK, LockInv, StageInv, CommitGuest, Bump, request, client,
     rows, booking, history, Goto
<1>2. AdmittedInv' /\ RosterFits' /\ MemberOnce'
  BY <1>1, RowAdded DEF IInv, TypeOK, StageInv, Adds, CommitGuest, Bump, request, client, rows,
     booking, history, Goto
<1>3. TypeOK'
  BY RequestsAssumption, NamesAssumption, CountsAssumption DEF IInv, TypeOK, Quiet, Working,
     Ops, ServiceOps, DeskOps, Adds, CommitGuest, Bump, request, client, rows, booking, history,
     Goto
<1>4. LockInv'
  BY RequestsAssumption DEF IInv, TypeOK, LockInv, CommitGuest, Bump, request, client, rows,
     booking, history, Goto
<1>5. StageInv'
  BY RequestsAssumption, NamesAssumption DEF IInv, TypeOK, LockInv, StageInv, RowsInv, DeskOps,
     CommitGuest, Bump, request, client, rows, booking, history, Goto
<1>6. RowsInv'
  BY RequestsAssumption DEF IInv, TypeOK, StageInv, RowsInv, CommitGuest, Bump, request, client,
     rows, booking, history, Goto
<1>7. RemovalInv'
  BY RequestsAssumption, NamesAssumption DEF IInv, TypeOK, LockInv, StageInv, RowsInv,
     RemovalInv, ViewInv, Current, Working, Quiet, CommitGuest, Bump, request, client, rows,
     booking, history, Goto
<1>8. ViewInv'
  BY RequestsAssumption, NamesAssumption DEF IInv, TypeOK, LockInv, StageInv, RowsInv, ViewInv,
     Current, Changed, CommitGuest, Bump, request, client, rows, booking, history, Goto
<1>9. AdmittedInv'
  BY <1>2
<1>10. PassesAccounted'
  <2>1. Held' = Held
    BY DEF IInv, TypeOK, StageInv, Held, CommitGuest
  <2> QED
    BY <2>1, PassesLost DEF CommitGuest, history
<1>11. RefundedOnce'
  BY RequestsAssumption, NamesAssumption DEF IInv, TypeOK, StageInv, RemovalInv, ViewInv,
     Current, RefundedOnce, CommitGuest, Bump, request, client, rows, booking, history, Goto
<1>12. RosterFits'
  BY <1>2
<1>13. MemberOnce'
  BY <1>2
<1>14. PlaceInv'
  BY PlaceKept, RequestsAssumption DEF IInv, TypeOK, StageInv, LockInv, Quiet, Working, Adds,
     CommitGuest, Ask, Goto, Owes, request, client, rows, booking, history
<1> QED
  BY <1>3, <1>4, <1>5, <1>6, <1>7, <1>8, <1>9, <1>10, <1>11, <1>12, <1>13, <1>14 DEF IInv

\* The commit of a removal.
LEMMA CommitRemoveKeeps ==
    ASSUME IInv, NEW r \in Requests, CommitRemove(r)
    PROVE  IInv'
<1>1. ByService' \subseteq ByService
  BY DEF IInv, TypeOK, StageInv, ByService, Adds, DeskOps, CommitRemove, Owes, Bump, request,
     client, rows, booking, history, Goto
<1>2. \A q \in Requests : at'[q] \in {"locked", "passed"} => at'[q] = at[q]
  BY DEF IInv, TypeOK, Working, CommitRemove, Owes, Bump, request, client, rows, booking,
     history, Goto
<1>3. AdmittedInv' /\ RosterFits' /\ MemberOnce'
  BY <1>1, <1>2, RowsGone DEF CommitRemove, Owes, Bump, request, client, rows, booking, history,
     Goto
<1>4. TypeOK'
  BY RequestsAssumption, NamesAssumption, CountsAssumption DEF IInv, TypeOK, Quiet, Working,
     Ops, ServiceOps, DeskOps, Adds, CommitRemove, Owes, Bump, request, client, rows, booking,
     history, Goto
<1>5. LockInv'
  BY RequestsAssumption DEF IInv, TypeOK, LockInv, CommitRemove, Owes, Bump, request, client,
     rows, booking, history, Goto
<1>6. StageInv'
  BY RequestsAssumption, NamesAssumption DEF IInv, TypeOK, LockInv, StageInv, RowsInv, DeskOps,
     CommitRemove, Owes, Bump, request, client, rows, booking, history, Goto
<1>7. RowsInv'
  BY RequestsAssumption DEF IInv, TypeOK, StageInv, RowsInv, CommitRemove, Owes, Bump, request,
     client, rows, booking, history, Goto
<1>8. RemovalInv'
  BY RequestsAssumption, NamesAssumption DEF IInv, TypeOK, LockInv, StageInv, RowsInv,
     RemovalInv, ViewInv, Current, Working, Quiet, CommitRemove, Owes, Bump, request, client,
     rows, booking, history, Goto
<1>9. ViewInv'
  BY RequestsAssumption, NamesAssumption DEF IInv, TypeOK, LockInv, StageInv, RowsInv, ViewInv,
     Current, Changed, CommitRemove, Owes, Bump, request, client, rows, booking, history, Goto
<1>10. AdmittedInv'
  BY <1>3
<1>11. PassesAccounted'
  <2>1. r \notin Held /\ r \notin lost /\ r \notin twice
    BY DEF IInv, TypeOK, StageInv, RowsInv, Held, CommitRemove
  <2>2. CASE r \in flagged /\ target[r] \in withPass
    BY <2>1, <2>2, PassMoved DEF CommitRemove, Owes
  <2>3. CASE r \in flagged /\ target[r] \notin withPass
    <3>1. Held' = Held \cup {r} /\ (Held \cup lost)' = (Held \cup lost) \cup {r}
                               /\ twice' = twice \cup {r} /\ used' = used
      BY <2>3 DEF CommitRemove, Owes, Held
    <3>2. Held \in SUBSET Requests /\ Held \cup lost \in SUBSET Requests /\ twice \in SUBSET Requests
      BY DEF IInv, TypeOK, Held
    <3>3. Cardinality(Held') = Cardinality(Held) + 1
      BY <2>1, <3>1, <3>2, OneMore
    <3>4. Cardinality((Held \cup lost)') = Cardinality(Held \cup lost) + 1
      BY <2>1, <3>1, <3>2, OneMore
    <3>5. Cardinality(twice') = Cardinality(twice) + 1
      BY <2>1, <3>1, <3>2, OneMore
    <3>6. /\ Cardinality(Held) \in Nat /\ Cardinality(Held \cup lost) \in Nat
          /\ Cardinality(twice) \in Nat /\ used \in Nat
      BY <3>2, Countable, CountsAssumption DEF IInv, TypeOK
    <3> QED
      BY <3>1, <3>3, <3>4, <3>5, <3>6 DEF IInv, PassesAccounted
  <2>4. CASE r \notin flagged
    <3>1. target[r] \notin withPass
      BY <2>4 DEF IInv, RemovalInv, CommitRemove
    <3> QED
      BY <2>4, <3>1, PassesLost DEF CommitRemove, Owes, Held
  <2> QED
    BY <2>2, <2>3, <2>4
<1>12. RefundedOnce'
  BY RequestsAssumption, NamesAssumption DEF IInv, TypeOK, StageInv, RemovalInv, ViewInv,
     Current, RefundedOnce, CommitRemove, Owes, Bump, request, client, rows, booking, history,
     Goto
<1>13. RosterFits'
  BY <1>3
<1>14. MemberOnce'
  BY <1>3
<1>15. PlaceInv'
  BY PlaceKept, RequestsAssumption DEF IInv, TypeOK, StageInv, LockInv, Quiet, Working, Adds,
     CommitRemove, Ask, Goto, Owes, request, client, rows, booking, history
<1> QED
  BY <1>4, <1>5, <1>6, <1>7, <1>8, <1>9, <1>10, <1>11, <1>12, <1>13, <1>14, <1>15 DEF IInv

\* A refund after the commit.
LEMMA RefundPassKeeps ==
    ASSUME IInv, NEW r \in Requests, RefundPass(r)
    PROVE  IInv'
<1>1. ByService' \subseteq ByService
  BY DEF IInv, TypeOK, StageInv, ByService, Adds, DeskOps, RefundPass, request, client, rows,
     booking, history, Goto
<1>2. \A q \in Requests : at'[q] \in {"locked", "passed"} => at'[q] = at[q]
  BY DEF IInv, TypeOK, Working, RefundPass, request, client, rows, booking, history, Goto
<1>3. AdmittedInv' /\ RosterFits' /\ MemberOnce'
  BY <1>1, <1>2, RowsGone DEF RefundPass, request, client, rows, booking, history, Goto
<1>4. TypeOK'
  <2>1. used' \in 0..Passes
    BY CountsAssumption DEF IInv, TypeOK, RefundPass, GiveOne
  <2> QED
    BY <2>1 DEF IInv, TypeOK, Quiet, Working, RefundPass, Goto, request, client, rows,
                booking, history
<1>5. LockInv'
  BY RequestsAssumption DEF IInv, TypeOK, LockInv, RefundPass, request, client, rows, booking,
     history, Goto
<1>6. StageInv'
  BY RequestsAssumption, NamesAssumption DEF IInv, TypeOK, LockInv, StageInv, RowsInv, DeskOps,
     RefundPass, request, client, rows, booking, history, Goto
<1>7. RowsInv'
  BY RequestsAssumption DEF IInv, TypeOK, StageInv, RowsInv, RefundPass, request, client, rows,
     booking, history, Goto
<1>8. RemovalInv'
  BY RequestsAssumption, NamesAssumption DEF IInv, TypeOK, LockInv, StageInv, RowsInv,
     RemovalInv, ViewInv, Current, Working, Quiet, RefundPass, request, client, rows, booking,
     history, Goto
<1>9. ViewInv'
  BY RequestsAssumption, NamesAssumption DEF IInv, TypeOK, LockInv, StageInv, RowsInv, ViewInv,
     Current, Changed, RefundPass, request, client, rows, booking, history, Goto
<1>10. AdmittedInv'
  BY <1>3
<1>11. PassesAccounted'
  <2>1. r \in Held /\ r \notin withPass /\ r \notin lost
    BY DEF IInv, TypeOK, StageInv, RowsInv, Held, RefundPass
  <2>2. Held' = Held \ {r}
    BY <2>1 DEF Held, RefundPass, rows
  <2> QED
    BY <2>1, <2>2, PassReturned DEF RefundPass, history
<1>12. RefundedOnce'
  BY RequestsAssumption, NamesAssumption DEF IInv, TypeOK, StageInv, RemovalInv, ViewInv,
     Current, RefundedOnce, RefundPass, request, client, rows, booking, history, Goto
<1>13. RosterFits'
  BY <1>3
<1>14. MemberOnce'
  BY <1>3
<1>15. PlaceInv'
  BY PlaceKept, RequestsAssumption DEF IInv, TypeOK, StageInv, LockInv, Quiet, Working, Adds,
     RefundPass, Ask, Goto, Owes, request, client, rows, booking, history
<1> QED
  BY <1>4, <1>5, <1>6, <1>7, <1>8, <1>9, <1>10, <1>11, <1>12, <1>13, <1>14, <1>15 DEF IInv

\* The staff delete the guests of the member's name.
LEMMA DeskClearKeeps ==
    ASSUME IInv, NEW r \in Requests, DeskClear(r)
    PROVE  IInv'
<1>1. ByService' \subseteq ByService
  BY DEF IInv, TypeOK, StageInv, ByService, Adds, DeskOps, DeskClear, GuestsNamed, request,
     client, rows, booking, history, Goto
<1>2. \A q \in Requests : at'[q] \in {"locked", "passed"} => at'[q] = at[q]
  BY DEF IInv, TypeOK, Working, DeskClear, GuestsNamed, request, client, rows, booking, history,
     Goto
<1>3. AdmittedInv' /\ RosterFits' /\ MemberOnce'
  BY <1>1, <1>2, RowsGone DEF DeskClear, GuestsNamed, request, client, rows, booking, history,
     Goto
<1>4. TypeOK'
  BY RequestsAssumption, NamesAssumption, CountsAssumption DEF IInv, TypeOK, Quiet, Working,
     Ops, ServiceOps, DeskOps, Adds, DeskClear, GuestsNamed, request, client, rows, booking,
     history, Goto
<1>5. LockInv'
  BY RequestsAssumption DEF IInv, TypeOK, LockInv, DeskClear, GuestsNamed, request, client,
     rows, booking, history, Goto
<1>6. StageInv'
  BY RequestsAssumption, NamesAssumption DEF IInv, TypeOK, LockInv, StageInv, RowsInv, DeskOps,
     DeskClear, GuestsNamed, request, client, rows, booking, history, Goto
<1>7. RowsInv'
  BY RequestsAssumption DEF IInv, TypeOK, StageInv, RowsInv, DeskClear, GuestsNamed, request,
     client, rows, booking, history, Goto
<1>8. RemovalInv'
  BY RequestsAssumption, NamesAssumption DEF IInv, TypeOK, LockInv, StageInv, RowsInv,
     RemovalInv, ViewInv, Current, Working, Quiet, DeskClear, GuestsNamed, request, client,
     rows, booking, history, Goto
<1>9. ViewInv'
  BY RequestsAssumption, NamesAssumption DEF IInv, TypeOK, LockInv, StageInv, RowsInv, ViewInv,
     Current, Changed, DeskClear, GuestsNamed, request, client, rows, booking, history, Goto
<1>10. AdmittedInv'
  BY <1>3
<1>11. PassesAccounted'
  <2>1. Held' \subseteq Held /\ (Held \cup lost)' = Held \cup lost
    BY DEF DeskClear, Held
  <2> QED
    BY <2>1, PassesLost DEF DeskClear
<1>12. RefundedOnce'
  BY RequestsAssumption, NamesAssumption DEF IInv, TypeOK, StageInv, RemovalInv, ViewInv,
     Current, RefundedOnce, DeskClear, GuestsNamed, request, client, rows, booking, history,
     Goto
<1>13. RosterFits'
  BY <1>3
<1>14. MemberOnce'
  BY <1>3
<1>15. PlaceInv'
  BY PlaceKept, RequestsAssumption DEF IInv, TypeOK, StageInv, LockInv, Quiet, Working, Adds,
     DeskClear, Ask, Goto, Owes, request, client, rows, booking, history
<1> QED
  BY <1>4, <1>5, <1>6, <1>7, <1>8, <1>9, <1>10, <1>11, <1>12, <1>13, <1>14, <1>15 DEF IInv

\* The staff insert the row.
LEMMA DeskInsertKeeps ==
    ASSUME IInv, NEW r \in Requests, DeskInsert(r)
    PROVE  IInv'
<1>1. ByService' \subseteq ByService
  BY DEF IInv, TypeOK, StageInv, ByService, Adds, DeskOps, DeskInsert, request, client, rows,
     booking, history, Goto
<1>2. \A q \in Requests : at'[q] \in {"locked", "passed"} => at'[q] = at[q]
  BY DEF IInv, TypeOK, Working, DeskInsert, request, client, rows, booking, history, Goto
<1>3. AdmittedInv' /\ RosterFits' /\ MemberOnce'
  BY <1>1, <1>2, RowsGone DEF DeskInsert, request, client, rows, booking, history, Goto
<1>4. TypeOK'
  BY RequestsAssumption, NamesAssumption, CountsAssumption DEF IInv, TypeOK, Quiet, Working,
     Ops, ServiceOps, DeskOps, Adds, DeskInsert, request, client, rows, booking, history, Goto
<1>5. LockInv'
  BY RequestsAssumption DEF IInv, TypeOK, LockInv, DeskInsert, request, client, rows, booking,
     history, Goto
<1>6. StageInv'
  BY RequestsAssumption, NamesAssumption DEF IInv, TypeOK, LockInv, StageInv, RowsInv, DeskOps,
     DeskInsert, request, client, rows, booking, history, Goto
<1>7. RowsInv'
  BY RequestsAssumption DEF IInv, TypeOK, StageInv, RowsInv, DeskInsert, request, client, rows,
     booking, history, Goto
<1>8. RemovalInv'
  BY RequestsAssumption, NamesAssumption DEF IInv, TypeOK, LockInv, StageInv, RowsInv,
     RemovalInv, ViewInv, Current, Working, Quiet, DeskInsert, request, client, rows, booking,
     history, Goto
<1>9. ViewInv'
  BY RequestsAssumption, NamesAssumption DEF IInv, TypeOK, LockInv, StageInv, RowsInv, ViewInv,
     Current, Changed, DeskInsert, request, client, rows, booking, history, Goto
<1>10. AdmittedInv'
  BY <1>3
<1>11. PassesAccounted'
  <2>1. withPass' \cup carrying' \cup lost' = withPass \cup carrying \cup lost
    BY DEF DeskInsert
  <2>2. Held' \subseteq Held /\ (Held \cup lost)' = Held \cup lost
    BY <2>1 DEF Held, DeskInsert
  <2> QED
    BY <2>2, PassesLost DEF DeskInsert
<1>12. RefundedOnce'
  BY RequestsAssumption, NamesAssumption DEF IInv, TypeOK, StageInv, RemovalInv, ViewInv,
     Current, RefundedOnce, DeskInsert, request, client, rows, booking, history, Goto
<1>13. RosterFits'
  BY <1>3
<1>14. MemberOnce'
  BY <1>3
<1>15. PlaceInv'
  BY PlaceKept, RequestsAssumption DEF IInv, TypeOK, StageInv, LockInv, Quiet, Working, Adds,
     DeskInsert, Ask, Goto, Owes, request, client, rows, booking, history
<1> QED
  BY <1>4, <1>5, <1>6, <1>7, <1>8, <1>9, <1>10, <1>11, <1>12, <1>13, <1>14, <1>15 DEF IInv

\* The staff return the pass of a row.
LEMMA DropRepayKeeps ==
    ASSUME IInv, NEW r \in Requests, DropRepay(r)
    PROVE  IInv'
<1>1. ByService' \subseteq ByService
  BY DEF IInv, TypeOK, StageInv, ByService, Adds, DeskOps, DropRepay, request, client, rows,
     booking, history, Goto
<1>2. \A q \in Requests : at'[q] \in {"locked", "passed"} => at'[q] = at[q]
  BY DEF IInv, TypeOK, Working, DropRepay, request, client, rows, booking, history, Goto
<1>3. AdmittedInv' /\ RosterFits' /\ MemberOnce'
  BY <1>1, <1>2, RowsGone DEF DropRepay, request, client, rows, booking, history, Goto
<1>4. TypeOK'
  <2>1. used' \in 0..Passes
    BY CountsAssumption DEF IInv, TypeOK, DropRepay, GiveOne
  <2>2. target[r] \in Requests
    BY DEF IInv, TypeOK, StageInv, DropRepay
  <2> QED
    BY <2>1, <2>2 DEF IInv, TypeOK, Quiet, Working, DropRepay, Goto, request, client, booking, history
<1>5. LockInv'
  BY RequestsAssumption DEF IInv, TypeOK, LockInv, DropRepay, request, client, rows, booking,
     history, Goto
<1>6. StageInv'
  BY RequestsAssumption, NamesAssumption DEF IInv, TypeOK, LockInv, StageInv, RowsInv, DeskOps,
     DropRepay, request, client, rows, booking, history, Goto
<1>7. RowsInv'
  BY RequestsAssumption DEF IInv, TypeOK, StageInv, RowsInv, DropRepay, request, client, rows,
     booking, history, Goto
<1>8. RemovalInv'
  BY RequestsAssumption, NamesAssumption DEF IInv, TypeOK, LockInv, StageInv, RowsInv,
     RemovalInv, ViewInv, Current, Working, Quiet, DropRepay, request, client, rows, booking,
     history, Goto
<1>9. ViewInv'
  BY RequestsAssumption, NamesAssumption DEF IInv, TypeOK, LockInv, StageInv, RowsInv, ViewInv,
     Current, Changed, DropRepay, request, client, rows, booking, history, Goto
<1>10. AdmittedInv'
  BY <1>3
<1>11. PassesAccounted'
  <2>1. CASE UNCHANGED <<used, withPass, history>>
    BY <2>1, PassesLost DEF DropRepay, Held, history
  <2>2. CASE /\ GiveOne /\ withPass' = withPass \ {target[r]}
             /\ target[r] \in withPass /\ twice' = twice
    <3>1. target[r] \in Held /\ target[r] \notin carrying /\ target[r] \notin lost
      BY <2>2 DEF IInv, TypeOK, StageInv, RowsInv, Held
    <3>2. Held' = Held \ {target[r]}
      BY <2>2, <3>1 DEF Held, DropRepay
    <3> QED
      BY <2>2, <3>1, <3>2, PassReturned DEF DropRepay
  <2>3. CASE /\ GiveOne /\ withPass' = withPass \ {target[r]}
             /\ target[r] \notin withPass /\ twice' = twice \cup {r}
    <3>1. Held' = Held /\ (Held \cup lost)' = Held \cup lost
      BY <2>3 DEF Held, DropRepay
    <3>2. r \notin twice /\ twice \in SUBSET Requests /\ Held \in SUBSET Requests
                         /\ Held \cup lost \in SUBSET Requests
      BY DEF IInv, TypeOK, StageInv, Held, DropRepay
    <3>3. Cardinality(twice') = Cardinality(twice) + 1
      BY <2>3, <3>2, OneMore
    <3>4. /\ Cardinality(Held) \in Nat /\ Cardinality(Held \cup lost) \in Nat
          /\ Cardinality(twice) \in Nat /\ used \in Nat
      BY <3>2, Countable, CountsAssumption DEF IInv, TypeOK
    <3>5. used' <= used /\ used <= used' + 1 /\ used' \in Nat
      BY <2>3, <3>4 DEF GiveOne
    <3>6. Cardinality(Held') = Cardinality(Held)
                             /\ Cardinality((Held \cup lost)') = Cardinality(Held \cup lost)
      BY <3>1
    <3>7. Cardinality(Held) <= used + Cardinality(twice) /\ used <= Cardinality(Held \cup lost)
      BY DEF IInv, PassesAccounted
    <3>8. Cardinality(Held') <= used' + Cardinality(twice')
      <4>1. \A a, b, c, d \in Nat : a <= b + c /\ b <= d + 1 => a <= d + (c + 1)
        OBVIOUS
      <4> QED
        BY <3>3, <3>4, <3>5, <3>6, <3>7, <4>1
    <3>9. used' <= Cardinality((Held \cup lost)')
      BY <3>4, <3>5, <3>6, <3>7
    <3> QED
      BY <3>8, <3>9 DEF PassesAccounted
  <2> QED
    BY <2>1, <2>2, <2>3 DEF DropRepay, history
<1>12. RefundedOnce'
  BY RequestsAssumption, NamesAssumption DEF IInv, TypeOK, StageInv, RemovalInv, ViewInv,
     Current, RefundedOnce, DropRepay, request, client, rows, booking, history, Goto
<1>13. RosterFits'
  BY <1>3
<1>14. MemberOnce'
  BY <1>3
<1>15. PlaceInv'
  BY PlaceKept, RequestsAssumption DEF IInv, TypeOK, StageInv, LockInv, Quiet, Working, Adds,
     DropRepay, Ask, Goto, Owes, request, client, rows, booking, history
<1> QED
  BY <1>4, <1>5, <1>6, <1>7, <1>8, <1>9, <1>10, <1>11, <1>12, <1>13, <1>14, <1>15 DEF IInv

\* The staff delete a row.
LEMMA DropDeleteKeeps ==
    ASSUME IInv, NEW r \in Requests, DropDelete(r)
    PROVE  IInv'
<1>1. ByService' \subseteq ByService
  BY DEF IInv, TypeOK, StageInv, ByService, Adds, DeskOps, DropDelete, request, client, rows,
     booking, history, Goto
<1>2. \A q \in Requests : at'[q] \in {"locked", "passed"} => at'[q] = at[q]
  BY DEF IInv, TypeOK, Working, DropDelete, request, client, rows, booking, history, Goto
<1>3. AdmittedInv' /\ RosterFits' /\ MemberOnce'
  BY <1>1, <1>2, RowsGone DEF DropDelete, request, client, rows, booking, history, Goto
<1>4. TypeOK'
  <2>1. target[r] \in Requests
    BY DEF IInv, TypeOK, StageInv, DropDelete
  <2> QED
    BY <2>1 DEF IInv, TypeOK, Quiet, Working, DropDelete, Goto, request, client, booking
<1>5. LockInv'
  BY RequestsAssumption DEF IInv, TypeOK, LockInv, DropDelete, request, client, rows, booking,
     history, Goto
<1>6. StageInv'
  BY RequestsAssumption, NamesAssumption DEF IInv, TypeOK, LockInv, StageInv, RowsInv, DeskOps,
     DropDelete, request, client, rows, booking, history, Goto
<1>7. RowsInv'
  BY RequestsAssumption DEF IInv, TypeOK, StageInv, RowsInv, DropDelete, request, client, rows,
     booking, history, Goto
<1>8. RemovalInv'
  BY RequestsAssumption, NamesAssumption DEF IInv, TypeOK, LockInv, StageInv, RowsInv,
     RemovalInv, ViewInv, Current, Working, Quiet, DropDelete, request, client, rows, booking,
     history, Goto
<1>9. ViewInv'
  BY RequestsAssumption, NamesAssumption DEF IInv, TypeOK, LockInv, StageInv, RowsInv, ViewInv,
     Current, Changed, DropDelete, request, client, rows, booking, history, Goto
<1>10. AdmittedInv'
  BY <1>3
<1>11. PassesAccounted'
  <2>1. Held' \subseteq Held /\ (Held \cup lost)' = Held \cup lost
    BY DEF DropDelete, Held
  <2> QED
    BY <2>1, PassesLost DEF DropDelete
<1>12. RefundedOnce'
  BY RequestsAssumption, NamesAssumption DEF IInv, TypeOK, StageInv, RemovalInv, ViewInv,
     Current, RefundedOnce, DropDelete, request, client, rows, booking, history, Goto
<1>13. RosterFits'
  BY <1>3
<1>14. MemberOnce'
  BY <1>3
<1>15. PlaceInv'
  BY PlaceKept, RequestsAssumption DEF IInv, TypeOK, StageInv, LockInv, Quiet, Working, Adds,
     DropDelete, Ask, Goto, Owes, request, client, rows, booking, history
<1> QED
  BY <1>4, <1>5, <1>6, <1>7, <1>8, <1>9, <1>10, <1>11, <1>12, <1>13, <1>14, <1>15 DEF IInv

\* A request is refused or fails.
LEMMA FailKeeps ==
    ASSUME IInv, NEW r \in Requests, Fail(r)
    PROVE  IInv'
<1>1. ByService' \subseteq ByService
  BY DEF IInv, TypeOK, StageInv, ByService, Adds, DeskOps, Fail, request, client, rows, booking,
     history, Goto
<1>2. \A q \in Requests : at'[q] \in {"locked", "passed"} => at'[q] = at[q]
  BY DEF IInv, TypeOK, Working, Fail, request, client, rows, booking, history, Goto
<1>3. AdmittedInv' /\ RosterFits' /\ MemberOnce'
  BY <1>1, <1>2, RowsGone DEF Fail, request, client, rows, booking, history, Goto
<1>4. TypeOK'
  BY RequestsAssumption, NamesAssumption, CountsAssumption DEF IInv, TypeOK, Quiet, Working,
     Ops, ServiceOps, DeskOps, Adds, Fail, request, client, rows, booking, history, Goto
<1>5. LockInv'
  BY RequestsAssumption DEF IInv, TypeOK, LockInv, Fail, request, client, rows, booking,
     history, Goto
<1>6. StageInv'
  BY RequestsAssumption, NamesAssumption DEF IInv, TypeOK, LockInv, StageInv, RowsInv, DeskOps,
     Fail, request, client, rows, booking, history, Goto
<1>7. RowsInv'
  BY RequestsAssumption DEF IInv, TypeOK, StageInv, RowsInv, Fail, request, client, rows,
     booking, history, Goto
<1>8. RemovalInv'
  BY RequestsAssumption, NamesAssumption DEF IInv, TypeOK, LockInv, StageInv, RowsInv,
     RemovalInv, ViewInv, Current, Working, Quiet, Fail, request, client, rows, booking,
     history, Goto
<1>9. ViewInv'
  BY RequestsAssumption, NamesAssumption DEF IInv, TypeOK, LockInv, StageInv, RowsInv, ViewInv,
     Current, Changed, Fail, request, client, rows, booking, history, Goto
<1>10. AdmittedInv'
  BY <1>3
<1>11. PassesAccounted'
  <2>1. Held' \subseteq Held /\ (Held \cup lost)' = Held \cup lost
    BY DEF Fail, Held, rows
  <2> QED
    BY <2>1, PassesLost DEF Fail, history
<1>12. RefundedOnce'
  BY RequestsAssumption, NamesAssumption DEF IInv, TypeOK, StageInv, RemovalInv, ViewInv,
     Current, RefundedOnce, Fail, request, client, rows, booking, history, Goto
<1>13. RosterFits'
  BY <1>3
<1>14. MemberOnce'
  BY <1>3
<1>15. PlaceInv'
  BY PlaceKept, RequestsAssumption DEF IInv, TypeOK, StageInv, LockInv, Quiet, Working, Adds,
     Fail, Ask, Goto, Owes, request, client, rows, booking, history
<1> QED
  BY <1>4, <1>5, <1>6, <1>7, <1>8, <1>9, <1>10, <1>11, <1>12, <1>13, <1>14, <1>15 DEF IInv

\* The process restarts.
LEMMA RestartKeeps ==
    ASSUME IInv, Restart
    PROVE  IInv'
<1>1. ByService' \subseteq ByService
  BY DEF IInv, TypeOK, StageInv, ByService, Adds, DeskOps, Restart, Working, request, client,
     rows, booking, history, Goto
<1>2. \A q \in Requests : at'[q] \in {"locked", "passed"} => at'[q] = at[q]
  BY DEF IInv, TypeOK, Working, Restart, Working, request, client, rows, booking, history, Goto
<1>3. AdmittedInv' /\ RosterFits' /\ MemberOnce'
  BY <1>1, <1>2, RowsGone DEF Restart, Working, request, client, rows, booking, history, Goto
<1>4. TypeOK'
  BY RequestsAssumption, NamesAssumption, CountsAssumption DEF IInv, TypeOK, Quiet, Working,
     Ops, ServiceOps, DeskOps, Adds, Restart, Working, request, client, rows, booking, history,
     Goto
<1>5. LockInv'
  BY RequestsAssumption DEF IInv, TypeOK, LockInv, Restart, Working, request, client, rows,
     booking, history, Goto
<1>6. StageInv'
  BY RequestsAssumption, NamesAssumption DEF IInv, TypeOK, LockInv, StageInv, RowsInv, DeskOps,
     Restart, Working, request, client, rows, booking, history, Goto
<1>7. RowsInv'
  BY RequestsAssumption DEF IInv, TypeOK, StageInv, RowsInv, Restart, Working, request, client,
     rows, booking, history, Goto
<1>8. RemovalInv'
  BY RequestsAssumption, NamesAssumption DEF IInv, TypeOK, LockInv, StageInv, RowsInv,
     RemovalInv, ViewInv, Current, Working, Quiet, Restart, Working, request, client, rows,
     booking, history, Goto
<1>9. ViewInv'
  BY RequestsAssumption, NamesAssumption DEF IInv, TypeOK, LockInv, StageInv, RowsInv, ViewInv,
     Current, Changed, Restart, Working, request, client, rows, booking, history, Goto
<1>10. AdmittedInv'
  BY <1>3
<1>11. PassesAccounted'
  <2>1. Held' \subseteq Held /\ (Held \cup lost)' = Held \cup lost
    BY DEF Restart, Held, rows
  <2> QED
    BY <2>1, PassesLost DEF Restart, history
<1>12. RefundedOnce'
  BY RequestsAssumption, NamesAssumption DEF IInv, TypeOK, StageInv, RemovalInv, ViewInv,
     Current, RefundedOnce, Restart, Working, request, client, rows, booking, history, Goto
<1>13. RosterFits'
  BY <1>3
<1>14. MemberOnce'
  BY <1>3
<1>15. PlaceInv'
  BY PlaceKept, RequestsAssumption DEF IInv, TypeOK, StageInv, LockInv, Quiet, Working, Adds,
     Restart, Ask, Goto, Owes, request, client, rows, booking, history
<1> QED
  BY <1>4, <1>5, <1>6, <1>7, <1>8, <1>9, <1>10, <1>11, <1>12, <1>13, <1>14, <1>15 DEF IInv

\* A step that changes nothing.
LEMMA StutterKeeps ==
    ASSUME IInv, UNCHANGED vars
    PROVE  IInv'
<1> USE DEF vars, request, client, rows, booking, history
<1>1. TypeOK' /\ LockInv' /\ StageInv' /\ RowsInv'
  BY DEF IInv, TypeOK, LockInv, StageInv, RowsInv
<1>2. RemovalInv' /\ ViewInv' /\ RefundedOnce'
  BY DEF IInv, RemovalInv, ViewInv, RefundedOnce, Current, Changed
<1>3. ByService' = ByService /\ Held' = Held /\ \A p : MembersOf(p)' = MembersOf(p)
  BY DEF ByService, Held, MembersOf, IsMember
<1>4. AdmittedInv' /\ PassesAccounted' /\ RosterFits' /\ MemberOnce'
  BY <1>3 DEF IInv, AdmittedInv, PassesAccounted, RosterFits, MemberOnce
<1>5. PlaceInv'
  BY PlaceKept
<1> QED
  BY <1>1, <1>2, <1>4, <1>5 DEF IInv

\* The invariant holds of an untouched roster.
LEMMA InitKeeps ==
    ASSUME Init
    PROVE  IInv
<1>1. Cardinality({}) = 0
  BY FS_EmptySet
<1>2. Held = {} /\ ByService = {} /\ lost = {} /\ twice = {}
  BY DEF Init, Held, ByService
<1>3. TypeOK
  BY CountsAssumption DEF Init, TypeOK, Quiet, Ops
<1>4. declared \in Nat \ {0}
  BY CountsAssumption DEF Init
<1>5. LockInv /\ StageInv /\ RowsInv /\ RemovalInv /\ PlaceInv
  BY RequestsAssumption DEF Init, LockInv, StageInv, RowsInv, RemovalInv, PlaceInv
<1>6. ViewInv /\ RefundedOnce
  BY DEF Init, ViewInv, RefundedOnce, Changed
<1>7. AdmittedInv
  BY <1>4 DEF Init, AdmittedInv
<1>8. PassesAccounted
  BY <1>1, <1>2 DEF Init, PassesAccounted
<1>9. RosterFits /\ MemberOnce
  BY <1>1, <1>2, <1>4 DEF Init, RosterFits, MemberOnce
<1> QED
  BY <1>3, <1>5, <1>6, <1>7, <1>8, <1>9 DEF IInv

\* Every step keeps the invariant.
LEMMA StepKeeps ==
    ASSUME IInv, [Next]_vars
    PROVE  IInv'
<1>1. ASSUME NEW r \in Requests, Open(r)
      PROVE  IInv'
  BY <1>1, ViewKeeps, SeeRowsKeeps, OpenAddKeeps, OpenRemoveKeeps, OpenBatchKeeps, OpenCountKeeps,
     DeskGuestKeeps, DeskMemberKeeps, DeskDropKeeps DEF Open
<1>2. ASSUME NEW r \in Requests, Step(r)
      PROVE  IInv'
  BY <1>2, LockKeeps, TakePassKeeps, CommitMemberKeeps, CommitGuestKeeps, CommitRemoveKeeps,
     CommitBatchKeeps, RefundPassKeeps, SetCountKeeps, DeskClearKeeps, DeskInsertKeeps,
     DropRepayKeeps, DropDeleteKeeps DEF Step, Service, Desk
<1> QED
  BY <1>1, <1>2, FailKeeps, RestartKeeps, GetSessionKeeps, StutterKeeps DEF Next

\* The inductive invariant.
THEOREM Inductive == Spec => []IInv
<1>1. Init => IInv
  BY InitKeeps
<1>2. IInv /\ [Next]_vars => IInv'
  BY StepKeeps
<1> QED
  BY <1>1, <1>2, PTL DEF Spec

\* The type invariant: guest_passes.passes_used stays between nothing and the
\* total, and only rows of the roster show a pass.
THEOREM TypeCorrect == Spec => []TypeOK
<1>1. IInv => TypeOK
  BY DEF IInv
<1> QED
  BY <1>1, Inductive, PTL

\* Every pass in use is on a row, under way or lost in one of the named ways,
\* although passes and rows are written in different transactions.
THEOREM PassesAreAccounted == Spec => []PassesAccounted
<1>1. IInv => PassesAccounted
  BY DEF IInv
<1> QED
  BY <1>1, Inductive, PTL

\* Only removals without a version, and rows the staff pages touch, get a pass
\* back twice.
THEOREM RefundedOnlyOnce == Spec => []RefundedOnce
<1>1. IInv => RefundedOnce
  BY DEF IInv
<1> QED
  BY <1>1, Inductive, PTL

\* A versioned edit that is let in works on the roster its client saw.
THEOREM SeesRoster == Spec => []SeesTheRoster
<1>1. IInv => SeesTheRoster
  BY DEF IInv, ViewInv, Current, SeesTheRoster
<1> QED
  BY <1>1, Inductive, PTL

\* The rows rosterService adds never outnumber the largest declared count.
THEOREM RosterAlwaysFits == Spec => []RosterFits
<1>1. IInv => RosterFits
  BY DEF IInv
<1> QED
  BY <1>1, Inductive, PTL

\* rosterService gives a member one row, however many adds race.
THEOREM OneRowPerMember == Spec => []MemberOnce
<1>1. IInv => MemberOnce
  BY DEF IInv
<1> QED
  BY <1>1, Inductive, PTL

-----------------------------------------------------------------------------
(* rosterService implements the roster of one-step edits. *)

\* The abstract roster counts its places as this one does.
LEMMA SameCount ==
    ASSUME NEW S
    PROVE  Editing!Cardinality(S) = Cardinality(S)
BY Zenon DEF Editing!Cardinality, Cardinality

LEMMA InitEditing == Init => Editing!Init
<1> SUFFICES ASSUME Init PROVE Editing!Init
  OBVIOUS
<1>1. ByService = {} /\ declared \in Nat
  BY CountsAssumption DEF Init, ByService
<1> QED
  BY <1>1 DEF Init, Editing!Init, Players

\* Whose rows go, and whose names stay: players leave.
LEMMA PlacesVacated ==
    ASSUME NEW gone, ByService' = ByService \ gone,
           \A q \in ByService : op'[q] = op[q] /\ who'[q] = who[q]
    PROVE  Editing!Vacate(gone)
BY DEF Editing!Vacate, Editing!Places, Players

\* Nothing the clients can see changes.
LEMMA NothingSeen ==
    ASSUME ByService' = ByService,
           \A q \in ByService : op'[q] = op[q] /\ who'[q] = who[q],
           UNCHANGED <<version, ver, peak>>
    PROVE  UNCHANGED Editing!vars
<1>1. Players' = Players
  BY DEF Players
<1> QED
  BY <1>1 DEF Editing!vars

\* A request that has only begun has no row, so that what it asks for is nobody's
\* place yet.
LEMMA OpensUnseen ==
    ASSUME IInv, NEW r \in Requests, Open(r), ~View(r)
    PROVE  UNCHANGED Editing!vars
<1>1. r \notin roster
  BY DEF IInv, RowsInv, Open, SeeRows, OpenAdd, OpenRemove, OpenBatch, OpenCount, DeskGuest,
     DeskMember, DeskDrop, Sends
<1>2. /\ UNCHANGED <<roster, version, ver, peak>>
      /\ \A q \in Requests \ {r} : op'[q] = op[q] /\ who'[q] = who[q]
  BY DEF IInv, TypeOK, Open, SeeRows, OpenAdd, OpenRemove, OpenBatch, OpenCount, DeskGuest,
     DeskMember, DeskDrop, Ask, request, client, rows, booking
<1>3. ByService' = ByService /\ \A q \in ByService : op'[q] = op[q] /\ who'[q] = who[q]
  BY <1>1, <1>2 DEF IInv, TypeOK, ByService
<1> QED
  BY <1>2, <1>3, NothingSeen

\* Neither the checks under the lock nor passes nor failures touch the roster.
LEMMA StagesUnseen ==
    ASSUME IInv,
           \/ \E r \in Requests : \/ Lock(r) \/ TakePass(r) \/ RefundPass(r) \/ DropRepay(r)
                                  \/ Fail(r)
           \/ Restart \/ GetSession
    PROVE  UNCHANGED Editing!vars
<1>1. UNCHANGED <<roster, op, who, version, ver, peak>>
  BY DEF Lock, TakePass, RefundPass, DropRepay, Fail, Restart, GetSession, request, client,
     rows, booking
<1> QED
  BY <1>1, NothingSeen DEF ByService

\* A row of the staff pages is none of rosterService.
LEMMA DeskInsertUnseen ==
    ASSUME IInv, NEW r \in Requests, DeskInsert(r)
    PROVE  UNCHANGED Editing!vars
<1>1. op[r] \notin Adds
  BY DEF IInv, StageInv, DeskInsert, DeskOps, Adds
<1>2. roster' = roster \cup {r} /\ UNCHANGED <<op, who, version, ver, peak>>
  BY DEF DeskInsert, request, client, booking
<1> QED
  BY <1>1, <1>2, NothingSeen DEF ByService

\* The staff pages only strike players.
LEMMA DeskStrikes ==
    ASSUME IInv, NEW r \in Requests, DeskClear(r) \/ DropDelete(r)
    PROVE  Editing!Next
<1>1. PICK cut : roster' = roster \ cut /\ UNCHANGED <<op, who, version, ver, peak>>
  BY DEF DeskClear, DropDelete, request, client, booking
<1>2. PICK gone \in SUBSET ByService : gone = cut \cap ByService
  OBVIOUS
<1>3. ByService' = ByService \ gone
  BY <1>1, <1>2 DEF ByService
<1>4. Editing!Strike(gone)
  BY <1>1, <1>3, PlacesVacated DEF Editing!Strike
<1>5. Editing!Places = ByService
  BY DEF Editing!Places, Players
<1> QED
  BY <1>2, <1>4, <1>5 DEF Editing!Next

\* The largest count grows or stays.
LEMMA SetCountRaises ==
    ASSUME IInv, NEW r \in Requests, SetCount(r)
    PROVE  [Editing!Next]_(Editing!vars)
<1>1. UNCHANGED <<roster, op, who, version, ver>>
  BY DEF SetCount, request, client, rows
<1>2. declared' \in Nat /\ peak \in Nat
  BY CountsAssumption, CountsAreNumbers DEF SetCount, IInv
<1>3. CASE peak' = peak
  BY <1>1, <1>3, NothingSeen DEF ByService
<1>4. CASE peak' # peak
  <2>1. peak' \in Nat /\ peak' > peak
    BY <1>2, <1>4 DEF SetCount
  <2>2. Players' = Players
    BY <1>1 DEF Players, ByService
  <2>3. Editing!RaiseCount
    BY <1>1, <2>1, <2>2 DEF Editing!RaiseCount
  <2> QED
    BY <2>3 DEF Editing!Next
<1> QED
  BY <1>3, <1>4

LEMMA ViewShows ==
    ASSUME IInv, NEW r \in Requests, View(r)
    PROVE  Editing!Next
<1>1. UNCHANGED <<roster, op, who, version, peak>>
  BY DEF View, request, rows, booking
<1>2. Players' = Players
  BY <1>1 DEF Players, ByService
<1>3. Editing!Show(r)
  BY <1>1, <1>2 DEF View, Editing!Show
<1> QED
  BY <1>3 DEF Editing!Next

\* What holds at the commit of an edit: the client's version is the current one
\* still, and there is room for what is added, for a member who has no place.
LEMMA CommitRevises ==
    ASSUME IInv, NEW r \in Requests, at[r] \in {"locked", "passed"}, Bump,
           UNCHANGED <<ver, peak>>
    PROVE  Editing!Revise(r)
BY DEF IInv, ViewInv, Current, Bump, Editing!Revise

LEMMA CommitHasRoom ==
    ASSUME IInv, NEW r \in Requests, at[r] \in {"locked", "passed"}, op[r] \in Adds
    PROVE  /\ r \notin Editing!Places
           /\ 1 + Editing!Cardinality(Editing!Places) < peak
<1>1. Editing!Places = ByService
  BY DEF Editing!Places, Players
<1>2. r \notin ByService
  BY DEF IInv, RowsInv, ByService
<1>3. 1 + Cardinality(ByService) < limit[r] /\ limit[r] <= peak
  BY DEF IInv, AdmittedInv
<1>4. ByService \in SUBSET Requests
  BY DEF IInv, TypeOK, ByService
<1>5. Cardinality(ByService) \in Nat /\ limit[r] \in Nat /\ peak \in Nat
  BY <1>4, Countable, CountsAreNumbers DEF IInv
<1>6. 1 + Cardinality(ByService) < peak
  BY <1>3, <1>5
<1> QED
  BY <1>1, <1>2, <1>6, SameCount

LEMMA CommitGuestAdds ==
    ASSUME IInv, NEW r \in Requests, CommitGuest(r)
    PROVE  Editing!Next
<1>1. /\ at[r] \in {"locked", "passed"}
      /\ op[r] \in Adds \ {"member"}
      /\ roster' = roster \cup {r}
      /\ UNCHANGED <<op, who, ver, peak>>
      /\ Bump
  BY DEF CommitGuest, IInv, StageInv, Adds, request, client
<1>2. Editing!Revise(r)
  BY <1>1, CommitRevises
<1>3. r \notin Editing!Places /\ 1 + Editing!Cardinality(Editing!Places) < peak
  BY <1>1, CommitHasRoom
<1>4. ByService' = ByService \cup {r}
  BY <1>1 DEF ByService
<1>5. Players' = [f \in (ByService \ {}) \cup {r} |-> IF f = r THEN Pending ELSE Players[f]]
  BY <1>1, <1>4 DEF Players
<1>6. Editing!Places = ByService
  BY DEF Editing!Places, Players
<1>7. Editing!Add(r, Pending, {})
  BY <1>2, <1>3, <1>5, <1>6, NamesAssumption DEF Editing!Add
<1>8. \E e \in Requests, p \in People \cup {Pending}, gone \in SUBSET Editing!Places :
        Editing!Add(e, p, gone)
  BY <1>7, Zenon
<1> QED
  BY <1>8 DEF Editing!Next

\* The guest whose place a member takes is one that rosterService has let in, or
\* one of the staff pages, or has left.
LEMMA CommitMemberAdds ==
    ASSUME IInv, NEW r \in Requests, CommitMember(r)
    PROVE  Editing!Next
<1>1. /\ at[r] = "locked" /\ op[r] = "member"
      /\ roster' = (roster \ {target[r]}) \cup {r}
      /\ UNCHANGED <<op, who, ver, peak>>
      /\ Bump
  BY DEF CommitMember, request, client
<1>2. Editing!Revise(r)
  BY <1>1, CommitRevises
<1>3. r \notin Editing!Places /\ 1 + Editing!Cardinality(Editing!Places) < peak
  BY <1>1, CommitHasRoom DEF Adds
<1>4. Editing!Places = ByService
  BY DEF Editing!Places, Players
<1>5. PICK gone \in SUBSET ByService : gone = {target[r]} \cap ByService
  OBVIOUS
<1>6. PICK p \in People \cup {Pending} : p = who[r]
  BY DEF IInv, TypeOK
<1>7. ByService' = (ByService \ gone) \cup {r}
  BY <1>1, <1>5 DEF ByService, Adds
<1>8. Players' = [f \in (ByService \ gone) \cup {r} |-> IF f = r THEN p ELSE Players[f]]
  BY <1>1, <1>6, <1>7 DEF Players
<1>9. p \in People => \A f \in ByService : Players[f] # p
  <2>1. \A f \in ByService : op[f] = "member" => who[f] # p
    BY <1>1, <1>6 DEF IInv, AdmittedInv, MembersOf, IsMember, ByService
  <2> QED
    BY <2>1, NamesAssumption DEF Players
<1>10. \A f \in gone : gone = {f} /\ Players[f] = Pending
  <2>1. \A f \in gone : f = target[r] /\ f \in ByService /\ gone = {f}
    BY <1>5
  <2>2. \A f \in gone : f # NoRow
    BY <2>1, RequestsAssumption DEF IInv, TypeOK, ByService
  <2>3. \A f \in gone : IsGuest(f)
    BY <1>1, <2>1, <2>2 DEF IInv, PlaceInv
  <2> QED
    BY <2>1, <2>3 DEF Players, IsGuest
<1>11. gone # {} => p \in People
  BY <1>1, <1>6 DEF IInv, PlaceInv
<1>12. Editing!Add(r, p, gone)
  BY <1>2, <1>3, <1>4, <1>8, <1>9, <1>10, <1>11 DEF Editing!Add
<1> QED
  BY <1>4, <1>12 DEF Editing!Next

LEMMA CommitRemoveRemoves ==
    ASSUME IInv, NEW r \in Requests, CommitRemove(r)
    PROVE  Editing!Next
<1>1. /\ at[r] = "locked" /\ op[r] = "remove"
      /\ roster' = roster \ {target[r]}
      /\ UNCHANGED <<op, who, ver, peak>>
      /\ Bump
  BY DEF CommitRemove, request, client
<1>2. Editing!Revise(r)
  BY <1>1, CommitRevises
<1>3. PICK q \in Requests : q = target[r]
  BY <1>1 DEF IInv, RemovalInv
<1>4. ByService' = ByService \ {q}
  BY <1>1, <1>3 DEF ByService
<1>5. Editing!Vacate({q})
  BY <1>1, <1>4, PlacesVacated
<1> QED
  BY <1>2, <1>5 DEF Editing!Remove, Editing!Next

LEMMA CommitBatchTouches ==
    ASSUME IInv, NEW r \in Requests, CommitBatch(r)
    PROVE  Editing!Next
<1>1. at[r] = "locked" /\ UNCHANGED <<roster, op, who, ver, peak>> /\ Bump
  BY DEF CommitBatch, request, client, rows
<1>2. Editing!Revise(r)
  BY <1>1, CommitRevises
<1>3. Players' = Players
  BY <1>1 DEF Players, ByService
<1> QED
  BY <1>2, <1>3 DEF Editing!Touch, Editing!Next

LEMMA StepEditing == IInv /\ [Next]_vars => [Editing!Next]_(Editing!vars)
<1> SUFFICES ASSUME IInv, [Next]_vars PROVE [Editing!Next]_(Editing!vars)
  OBVIOUS
<1>1. ASSUME NEW r \in Requests, Open(r)
      PROVE  [Editing!Next]_(Editing!vars)
  BY <1>1, ViewShows, OpensUnseen
<1>2. ASSUME NEW r \in Requests, Step(r)
      PROVE  [Editing!Next]_(Editing!vars)
  BY <1>2, StagesUnseen, DeskInsertUnseen, DeskStrikes, SetCountRaises, CommitGuestAdds,
     CommitMemberAdds, CommitRemoveRemoves, CommitBatchTouches DEF Step, Service, Desk
<1>3. ASSUME UNCHANGED vars
      PROVE  UNCHANGED Editing!vars
  BY <1>3, NothingSeen DEF vars, request, client, rows, booking, ByService
<1> QED
  BY <1>1, <1>2, <1>3, StagesUnseen DEF Next

\* Every edit of rosterService behaves as one step at its commit: against the
\* version its client was shown, with room under the largest declared count, and
\* one place per member, although version, count and matching guest were read
\* before and the staff pages write without the lock.
THEOREM EditsAreOneStep == Spec => ImplementsEditing
BY InitEditing, StepEditing, Inductive, PTL DEF Spec, Editing!Spec, ImplementsEditing

=============================================================================
