------------------------- MODULE HubSpotQueueProofs -------------------------
(***************************************************************************)
(* Theorems about HubSpotQueue, for every set of members, tiers, workers   *)
(* and requests and for every bound: its type invariant and the inductive  *)
(* invariant behind CompletedReachedHubSpot, DeadOnlyWhenExhausted,        *)
(* NoStaleRetry and ClosedForGood.                                         *)
(*                                                                         *)
(* Each action is described once, by what it does to rows, contacts and    *)
(* changes (Effects); the invariants follow from the description.          *)
(***************************************************************************)
EXTENDS HubSpotQueue, TLAPS

\* What one step may do to the status of a row.
StatusMoves ==
    \A r \in Rows :
        \/ status'[r] = status[r]
        \/ Open(r) /\ status'[r] \in {"processing", "failed"}
        \/ Open(r) /\ status'[r] = "completed" /\ (ListedRow(r) => r \in landed)
        \/ /\ Open(r) /\ status'[r] = "dead"
           /\ r \in refused \/ failures'[r] >= MaxRetriesOf(r)
        \/ status[r] # "absent" /\ status'[r] = "superseded"
        \/ r = last + 1 /\ last' = r /\ status'[r] = "pending"

\* Rows and histories only grow.
Grows ==
    /\ last' \in {last, last + 1}
    /\ \A r \in Rows : r <= last => job'[r] = job[r]
    /\ \A r \in Rows : failures[r] <= failures'[r]
    /\ landed \subseteq landed'
    /\ refused \subseteq refused'
    /\ \A m \in Members : disturbed[m] => disturbed'[m]

\* In an undisturbed member a row is inserted after all its rows are closed and
\* with no older version.
Inserts ==
    last' = last + 1 =>
        /\ last + 1 \in Rows
        /\ status'[last + 1] = "pending"
        /\ contact' = contact
        /\ \/ disturbed'[job'[last + 1].member]
           \/ /\ contact[job'[last + 1].member].ver <= job'[last + 1].ver
              /\ \A r \in Rows : r <= last /\ job[r].member = job'[last + 1].member
                    => ~Open(r) /\ job[r].ver <= job'[last + 1].ver

\* HubSpot moves only to versions no open row of an undisturbed member is
\* older than.
ContactMoves ==
    \A m \in Members :
        \/ contact'[m].ver = contact[m].ver
        \/ disturbed'[m]
        \/ /\ last' = last
           /\ \A r \in Rows : Open(r) /\ job[r].member = m => contact'[m].ver <= job[r].ver

\* A change reaches its insert only through the supersede step.
ChangeMoves ==
    \A c \in Changers : change'[c].at = "enqueue" =>
        \/ change'[c] = change[c]
        \/ /\ change'[c].seen = last
           /\ last' = last
           /\ \A r \in Rows : job[r].member = change'[c].member =>
                 status'[r] \notin {"pending", "processing", "failed"}

Counts ==
    \A r \in Rows :
        /\ retryCount[r] <= failures[r]
        /\ r \in closing => r <= last

Effects ==
    /\ TypeOK'
    /\ WorkersConsistent'
    /\ Counts'
    /\ StatusMoves
    /\ Grows
    /\ Inserts
    /\ ContactMoves
    /\ ChangeMoves

-----------------------------------------------------------------------------
(* What the building blocks of the actions do.                             *)

LEMMA GotoType ==
  ASSUME change \in [Changers -> Change], NEW c \in Changers, NEW s \in Stages, Goto(c, s)
  PROVE  /\ change' \in [Changers -> Change]
         /\ change'[c].at = s
         /\ \A d \in Changers : d # c => change'[d] = change[d]
  BY DEF Goto, Change

LEMMA SomeMemberTier == SomeMember \in Members /\ SomeTier \in Tiers
  BY SetsAssumption DEF SomeMember, SomeTier

LEMMA FinishType ==
  ASSUME change \in [Changers -> Change], NEW c \in Changers, Finish(c)
  PROVE  /\ change' \in [Changers -> Change]
         /\ change'[c].at = "idle"
         /\ \A d \in Changers : d # c => change'[d] = change[d]
  BY SomeMemberTier DEF Finish, NoChange, Change, Stages

ContactType == contact \in [Members -> [ver : Nat, tier : Tiers, blank : BOOLEAN]]

LEMMA ClearType ==
  ASSUME ContactType, NEW m \in Members, Clear(m)
  PROVE  /\ ContactType'
         /\ \A n \in Members : contact'[n].ver = contact[n].ver
  BY DEF ContactType, Clear

LEMMA WriteType ==
  ASSUME ContactType, NEW m \in Members, NEW v \in Nat, NEW t \in Tiers, Write(m, v, t)
  PROVE  /\ ContactType'
         /\ contact'[m].ver = v
         /\ \A n \in Members : n # m => contact'[n] = contact[n]
  BY DEF ContactType, Write

LEMMA RecordType ==
  ASSUME disturbed \in [Members -> BOOLEAN], NEW m \in Members, NEW b, Record(m, b)
  PROVE  /\ disturbed' \in [Members -> BOOLEAN]
         /\ b => disturbed'[m]
         /\ \A n \in Members : disturbed[n] => disturbed'[n]
  BY DEF Record

LEMMA EnterType ==
  ASSUME step \in [Workers -> Steps], NEW w \in Workers, NEW s \in Steps, Enter(w, s)
  PROVE  /\ step' \in [Workers -> Steps]
         /\ step'[w] = s
         /\ \A v \in Workers : v # w => step'[v] = step[v]
  BY DEF Enter

LEMMA SetStatusType ==
  ASSUME status \in [Rows -> Statuses], old \in [Rows -> BOOLEAN],
         NEW r \in Rows, NEW s \in Statuses, SetStatus(r, s)
  PROVE  /\ status' \in [Rows -> Statuses]
         /\ old' \in [Rows -> BOOLEAN]
         /\ \A q \in Rows : \/ status'[q] = status[q]
                            \/ q = r /\ status[q] = "processing" /\ status'[q] = s
  BY DEF SetStatus

LEMMA NextJobType ==
  ASSUME TypeOK, NEW w \in Workers, NextJob(w)
  PROVE  /\ step' \in [Workers -> Steps]
         /\ claimed' \in [Workers -> SUBSET Rows]
         /\ now' \in [Workers -> 0..MaxRows]
         /\ snap' \in [Workers -> [Rows -> Nat]]
<1>1. step' \in [Workers -> Steps]
  BY DEF TypeOK, NextJob, Enter, Steps
<1>2. claimed' \in [Workers -> SUBSET Rows] /\ now' \in [Workers -> 0..MaxRows]
  BY BoundsAssumption DEF TypeOK, NextJob
<1>3. snap' \in [Workers -> [Rows -> Nat]]
  BY DEF TypeOK, NextJob
<1> QED
  BY <1>1, <1>2, <1>3

\* A worker between the two requests, or with an outcome, has a row in hand.
LEMMA RowInHand ==
  ASSUME IInv, NEW w \in Workers,
         step[w] \in {"cleared", "answered", "threw", "refused"}
  PROVE  now[w] \in Rows /\ now[w] <= last
  BY DEF IInv, TypeOK, Bookkeeping, WorkersConsistent, ListedRow

\* The table after enqueueHubSpotSync, with an insert or without one.
TableType ==
    /\ last \in 0..MaxRows
    /\ status \in [Rows -> Statuses]
    /\ job \in [Rows -> Job]
    /\ retryCount \in [Rows -> Nat]
    /\ due \in [Rows -> BOOLEAN]
    /\ old \in [Rows -> BOOLEAN]
    /\ disturbed \in [Members -> BOOLEAN]

LEMMA InsertEffects ==
  ASSUME IInv, NEW j \in Job, NEW seen \in Nat,
         InsertRow(j), Record(j.member, InsertMishap(j, seen)), Holders(j) = {},
         \A r \in Rows : r <= seen /\ job[r].member = j.member => ~Open(r),
         UNCHANGED <<contact, failures, landed, refused>>
  PROVE  /\ TableType'
         /\ last' = last + 1
         /\ UNCHANGED retryCount
         /\ StatusMoves
         /\ Grows
         /\ Inserts
<1>1. last + 1 \in Rows /\ last' = last + 1 /\ j.member \in Members
  BY BoundsAssumption DEF IInv, TypeOK, InsertRow, Rows, Job
<1>2. /\ disturbed' \in [Members -> BOOLEAN]
      /\ InsertMishap(j, seen) => disturbed'[j.member]
      /\ \A n \in Members : disturbed[n] => disturbed'[n]
  BY <1>1, RecordType DEF IInv, TypeOK
<1>3. TableType'
  BY <1>1, <1>2 DEF IInv, TypeOK, TableType, InsertRow, Statuses, Rows
<1>4. StatusMoves
  BY <1>1 DEF IInv, TypeOK, StatusMoves, InsertRow
<1>5. Grows
  <2>1. \A r \in Rows : r <= last => job'[r] = job[r]
    BY <1>1 DEF IInv, TypeOK, InsertRow, Rows
  <2>2. landed' = landed /\ refused' = refused /\ failures' = failures
    OBVIOUS
  <2>3. \A r \in Rows : failures[r] <= failures'[r]
    BY <2>2 DEF IInv, TypeOK
  <2>4. disturbed' \in [Members -> BOOLEAN] /\ \A n \in Members : disturbed[n] => disturbed'[n]
    BY <1>2
  <2> QED
    BY <1>1, <2>1, <2>2, <2>3, <2>4 DEF Grows
<1>6. job'[last + 1] = j /\ status'[last + 1] = "pending"
  BY <1>1 DEF IInv, TypeOK, InsertRow
<1>7. \/ disturbed'[j.member]
      \/ /\ contact[j.member].ver <= j.ver
         /\ \A r \in Rows : r <= last /\ job[r].member = j.member
               => ~Open(r) /\ job[r].ver <= j.ver
  <2> SUFFICES ASSUME ~InsertMishap(j, seen)
               PROVE  /\ contact[j.member].ver <= j.ver
                      /\ \A r \in Rows : r <= last /\ job[r].member = j.member
                            => ~Open(r) /\ job[r].ver <= j.ver
    BY <1>2
  <2>1. contact[j.member].ver <= j.ver
    BY <1>1 DEF InsertMishap, IInv, TypeOK, Job
  <2>2. ASSUME NEW r \in Rows, r <= last, job[r].member = j.member
        PROVE  ~Open(r) /\ job[r].ver <= j.ver
    <3>1. r \in 1..last /\ last \in Nat
      BY <2>2 DEF IInv, TypeOK, Rows
    <3>2. job[r].ver <= j.ver
      BY <2>2, <3>1 DEF InsertMishap, IInv, TypeOK, Job
    <3>3. ~Open(r)
      BY <2>2, <3>1 DEF InsertMishap, OpenRows, Rows
    <3> QED
      BY <3>2, <3>3
  <2> QED
    BY <2>1, <2>2
<1>8. Inserts
  BY <1>1, <1>6, <1>7 DEF Inserts
<1> QED
  BY <1>1, <1>3, <1>4, <1>5, <1>8 DEF InsertRow

\* A new row leaves what the workers hold alone.
LEMMA WorkersKept ==
  ASSUME IInv, Grows, UNCHANGED <<worker, failures>>
  PROVE  WorkersConsistent'
<1> SUFFICES ASSUME NEW w \in Workers
             PROVE  /\ step[w] \in {"cleared", "answered", "threw", "refused"} => now[w] \in claimed[w]
                    /\ step[w] = "answered" /\ job'[now[w]].tier \in Listed => now[w] \in landed'
                    /\ step[w] = "refused" => now[w] \in refused'
                    /\ \A r \in claimed[w] : r <= last'
                    /\ \A r \in Rows : snap[w][r] <= failures[r]
  BY DEF WorkersConsistent, ListedRow, worker
<1>1. WorkersConsistent /\ last \in Nat /\ last' \in {last, last + 1}
  BY BoundsAssumption DEF IInv, TypeOK, Bookkeeping, Grows
<1>2. \A r \in claimed[w] : r \in Nat /\ r <= last
  BY <1>1, BoundsAssumption DEF IInv, TypeOK, WorkersConsistent, Rows
<1>3. step[w] = "answered" => job'[now[w]] = job[now[w]]
  <2>1. step[w] = "answered" => now[w] \in Rows /\ now[w] <= last
    BY RowInHand
  <2> QED
    BY <2>1 DEF Grows
<1>4. \A r \in Rows : snap[w][r] <= failures[r]
  BY <1>1 DEF WorkersConsistent
<1>5. step[w] = "answered" /\ job'[now[w]].tier \in Listed => now[w] \in landed'
  BY <1>1, <1>3 DEF WorkersConsistent, ListedRow, Grows
<1>6. \A r \in claimed[w] : r <= last'
  BY <1>1, <1>2
<1>7. /\ step[w] \in {"cleared", "answered", "threw", "refused"} => now[w] \in claimed[w]
      /\ step[w] = "refused" => now[w] \in refused'
  BY <1>1 DEF WorkersConsistent, Grows
<1> QED
  BY <1>4, <1>5, <1>6, <1>7

-----------------------------------------------------------------------------
(* What each action does.                                                  *)

LEMMA CommitTierEffects ==
  ASSUME IInv, NEW c \in Changers, NEW m \in Members, NEW t \in Tiers, NEW first \in Stages, CommitTier(c, m, t, first)
  PROVE  Effects
<1>1. TypeOK'
  BY BoundsAssumption DEF CommitTier, At, table, worker, history, IInv, TypeOK, Change, Stages, Steps, Statuses
<1>2. WorkersConsistent'
  BY BoundsAssumption DEF CommitTier, At, table, worker, history, IInv, TypeOK, Bookkeeping, WorkersConsistent, ListedRow
<1>3. Counts'
  BY BoundsAssumption DEF CommitTier, At, table, worker, history, IInv, TypeOK, Bookkeeping, RowsConsistent, Counts
<1>4. StatusMoves
  BY BoundsAssumption DEF CommitTier, At, table, worker, history, IInv, TypeOK, StatusMoves, Open
<1>5. Grows
  BY BoundsAssumption DEF CommitTier, At, table, worker, history, IInv, TypeOK, Grows
<1>6. Inserts
  BY BoundsAssumption DEF CommitTier, At, table, worker, history, IInv, TypeOK, Inserts
<1>7. ContactMoves
  BY BoundsAssumption DEF CommitTier, At, table, worker, history, IInv, TypeOK, ContactMoves
<1>8. ChangeMoves
  BY BoundsAssumption DEF CommitTier, At, table, worker, history, IInv, TypeOK, ChangeMoves
<1> QED
  BY <1>1, <1>2, <1>3, <1>4, <1>5, <1>6, <1>7, <1>8 DEF Effects

LEMMA DirectSkipsEffects ==
  ASSUME IInv, NEW c \in Changers, DirectSkips(c)
  PROVE  Effects
<1>1. TypeOK'
  <2>1. change' \in [Changers -> Change]
    BY FinishType DEF DirectSkips, IInv, TypeOK
  <2> QED
    BY <2>1 DEF IInv, TypeOK, DirectSkips, table, worker, history
<1>2. WorkersConsistent'
  BY BoundsAssumption DEF DirectSkips, At, Finish, NoChange, table, worker, history, IInv, TypeOK, Bookkeeping, WorkersConsistent, ListedRow
<1>3. Counts'
  BY BoundsAssumption DEF DirectSkips, At, Finish, NoChange, table, worker, history, IInv, TypeOK, Bookkeeping, RowsConsistent, Counts
<1>4. StatusMoves
  BY BoundsAssumption DEF DirectSkips, At, Finish, NoChange, table, worker, history, IInv, TypeOK, StatusMoves, Open
<1>5. Grows
  BY BoundsAssumption DEF DirectSkips, At, Finish, NoChange, table, worker, history, IInv, TypeOK, Grows
<1>6. Inserts
  BY BoundsAssumption DEF DirectSkips, At, Finish, NoChange, table, worker, history, IInv, TypeOK, Inserts
<1>7. ContactMoves
  BY BoundsAssumption DEF DirectSkips, At, Finish, NoChange, table, worker, history, IInv, TypeOK, ContactMoves
<1>8. ChangeMoves
  BY BoundsAssumption DEF DirectSkips, At, Finish, NoChange, table, worker, history, IInv, TypeOK, ChangeMoves
<1> QED
  BY <1>1, <1>2, <1>3, <1>4, <1>5, <1>6, <1>7, <1>8 DEF Effects

LEMMA DirectClearEffects ==
  ASSUME IInv, NEW c \in Changers, DirectClear(c)
  PROVE  Effects
<1>1. TypeOK'
  <2>1. change' \in [Changers -> Change]
    BY GotoType DEF DirectClear, IInv, TypeOK, Stages
  <2>2. change[c].member \in Members
    BY DEF IInv, TypeOK, Change
  <2>3. ContactType'
    BY <2>2, ClearType DEF DirectClear, IInv, TypeOK, ContactType
  <2> QED
    BY <2>1, <2>2, <2>3 DEF IInv, TypeOK, ContactType, DirectClear, table, worker, history
<1>2. WorkersConsistent'
  BY BoundsAssumption DEF DirectClear, At, Goto, Clear, table, worker, history, IInv, TypeOK, Bookkeeping, WorkersConsistent, ListedRow
<1>3. Counts'
  BY BoundsAssumption DEF DirectClear, At, Goto, Clear, table, worker, history, IInv, TypeOK, Bookkeeping, RowsConsistent, Counts
<1>4. StatusMoves
  BY BoundsAssumption DEF DirectClear, At, Goto, Clear, table, worker, history, IInv, TypeOK, StatusMoves, Open
<1>5. Grows
  BY BoundsAssumption DEF DirectClear, At, Goto, Clear, table, worker, history, IInv, TypeOK, Grows
<1>6. Inserts
  BY BoundsAssumption DEF DirectClear, At, Goto, Clear, table, worker, history, IInv, TypeOK, Inserts
<1>7. ContactMoves
  <2>1. change[c].member \in Members /\ ContactType
    BY DEF IInv, TypeOK, Change, ContactType
  <2>2. \A n \in Members : contact'[n].ver = contact[n].ver
    BY <2>1, ClearType DEF DirectClear
  <2> QED
    BY <2>2 DEF ContactMoves
<1>8. ChangeMoves
  BY BoundsAssumption DEF DirectClear, At, Goto, Clear, table, worker, history, IInv, TypeOK, ChangeMoves
<1> QED
  BY <1>1, <1>2, <1>3, <1>4, <1>5, <1>6, <1>7, <1>8 DEF Effects

LEMMA DirectSucceedsEffects ==
  ASSUME IInv, NEW c \in Changers, DirectSucceeds(c)
  PROVE  Effects
<1>1. TypeOK'
  <2>1. change' \in [Changers -> Change]
    BY FinishType DEF DirectSucceeds, IInv, TypeOK
  <2>2. change[c].member \in Members /\ change[c].ver \in Nat /\ change[c].tier \in Tiers
    BY DEF IInv, TypeOK, Change
  <2>3. ContactType'
    BY <2>2, WriteType DEF DirectSucceeds, DirectWrite, IInv, TypeOK, ContactType
  <2>4. disturbed' \in [Members -> BOOLEAN]
    BY <2>2, RecordType DEF DirectSucceeds, DirectWrite, IInv, TypeOK
  <2> QED
    BY <2>1, <2>2, <2>3, <2>4 DEF IInv, TypeOK, ContactType, DirectSucceeds, table, worker, history
<1>2. WorkersConsistent'
  BY BoundsAssumption DEF DirectSucceeds, At, Finish, NoChange, DirectWrite, Write, Record, Bypassed, OpenRows, table, worker, history, IInv, TypeOK, Bookkeeping, WorkersConsistent, ListedRow
<1>3. Counts'
  BY BoundsAssumption DEF DirectSucceeds, At, Finish, NoChange, DirectWrite, Write, Record, Bypassed, OpenRows, table, worker, history, IInv, TypeOK, Bookkeeping, RowsConsistent, Counts
<1>4. StatusMoves
  BY BoundsAssumption DEF DirectSucceeds, At, Finish, NoChange, DirectWrite, Write, Record, Bypassed, OpenRows, table, worker, history, IInv, TypeOK, StatusMoves, Open
<1>5. Grows
  BY BoundsAssumption DEF DirectSucceeds, At, Finish, NoChange, DirectWrite, Write, Record, Bypassed, OpenRows, table, worker, history, IInv, TypeOK, Grows
<1>6. Inserts
  BY BoundsAssumption DEF DirectSucceeds, At, Finish, NoChange, DirectWrite, Write, Record, Bypassed, OpenRows, table, worker, history, IInv, TypeOK, Inserts
<1>7. ContactMoves
  <2>1. change[c].member \in Members /\ change[c].ver \in Nat /\ change[c].tier \in Tiers
    BY DEF IInv, TypeOK, Change
  <2>2. CASE UNCHANGED contact
    BY <2>2 DEF ContactMoves
  <2>3. CASE DirectWrite(c)
    <3> DEFINE m == change[c].member
    <3>1. /\ contact'[m].ver = change[c].ver
          /\ \A n \in Members : n # m => contact'[n] = contact[n]
      BY <2>1, <2>3, WriteType DEF DirectWrite, IInv, TypeOK, ContactType
    <3>2. contact[m].ver > change[c].ver \/ Bypassed(c) => disturbed'[m]
      BY <2>1, <2>3, RecordType DEF DirectWrite, IInv, TypeOK
    <3>3. ASSUME ~Bypassed(c), NEW r \in Rows, Open(r), job[r].member = m
          PROVE  change[c].ver <= job[r].ver
      BY <2>1, <3>3 DEF Bypassed, OpenRows, IInv, TypeOK, Job
    <3>4. last' = last
      BY DEF DirectSucceeds, table
    <3> QED
      BY <3>1, <3>2, <3>3, <3>4 DEF ContactMoves
  <2> QED
    BY <2>2, <2>3 DEF DirectSucceeds
<1>8. ChangeMoves
  BY BoundsAssumption DEF DirectSucceeds, At, Finish, NoChange, DirectWrite, Write, Record, Bypassed, OpenRows, table, worker, history, IInv, TypeOK, ChangeMoves
<1> QED
  BY <1>1, <1>2, <1>3, <1>4, <1>5, <1>6, <1>7, <1>8 DEF Effects

LEMMA DirectFailsEffects ==
  ASSUME IInv, NEW c \in Changers, DirectFails(c)
  PROVE  Effects
<1>1. TypeOK'
  <2>1. change' \in [Changers -> Change]
    BY GotoType DEF DirectFails, IInv, TypeOK, Stages
  <2>2. change[c].member \in Members /\ change[c].ver \in Nat /\ change[c].tier \in Tiers
    BY DEF IInv, TypeOK, Change
  <2>3. ContactType'
    BY <2>2, WriteType DEF DirectFails, DirectWrite, IInv, TypeOK, ContactType
  <2>4. disturbed' \in [Members -> BOOLEAN]
    BY <2>2, RecordType DEF DirectFails, DirectWrite, IInv, TypeOK
  <2> QED
    BY <2>1, <2>2, <2>3, <2>4 DEF IInv, TypeOK, ContactType, DirectFails, table, worker, history
<1>2. WorkersConsistent'
  BY BoundsAssumption DEF DirectFails, At, Goto, DirectWrite, Write, Record, Bypassed, OpenRows, table, worker, history, IInv, TypeOK, Bookkeeping, WorkersConsistent, ListedRow
<1>3. Counts'
  BY BoundsAssumption DEF DirectFails, At, Goto, DirectWrite, Write, Record, Bypassed, OpenRows, table, worker, history, IInv, TypeOK, Bookkeeping, RowsConsistent, Counts
<1>4. StatusMoves
  BY BoundsAssumption DEF DirectFails, At, Goto, DirectWrite, Write, Record, Bypassed, OpenRows, table, worker, history, IInv, TypeOK, StatusMoves, Open
<1>5. Grows
  BY BoundsAssumption DEF DirectFails, At, Goto, DirectWrite, Write, Record, Bypassed, OpenRows, table, worker, history, IInv, TypeOK, Grows
<1>6. Inserts
  BY BoundsAssumption DEF DirectFails, At, Goto, DirectWrite, Write, Record, Bypassed, OpenRows, table, worker, history, IInv, TypeOK, Inserts
<1>7. ContactMoves
  <2>1. change[c].member \in Members /\ change[c].ver \in Nat /\ change[c].tier \in Tiers
    BY DEF IInv, TypeOK, Change
  <2>2. CASE UNCHANGED contact
    BY <2>2 DEF ContactMoves
  <2>3. CASE DirectWrite(c)
    <3> DEFINE m == change[c].member
    <3>1. /\ contact'[m].ver = change[c].ver
          /\ \A n \in Members : n # m => contact'[n] = contact[n]
      BY <2>1, <2>3, WriteType DEF DirectWrite, IInv, TypeOK, ContactType
    <3>2. contact[m].ver > change[c].ver \/ Bypassed(c) => disturbed'[m]
      BY <2>1, <2>3, RecordType DEF DirectWrite, IInv, TypeOK
    <3>3. ASSUME ~Bypassed(c), NEW r \in Rows, Open(r), job[r].member = m
          PROVE  change[c].ver <= job[r].ver
      BY <2>1, <3>3 DEF Bypassed, OpenRows, IInv, TypeOK, Job
    <3>4. last' = last
      BY DEF DirectFails, table
    <3> QED
      BY <3>1, <3>2, <3>3, <3>4 DEF ContactMoves
  <2> QED
    BY <2>2, <2>3 DEF DirectFails
<1>8. ChangeMoves
  BY BoundsAssumption DEF DirectFails, At, Goto, DirectWrite, Write, Record, Bypassed, OpenRows, table, worker, history, IInv, TypeOK, ChangeMoves
<1> QED
  BY <1>1, <1>2, <1>3, <1>4, <1>5, <1>6, <1>7, <1>8 DEF Effects

LEMMA SupersedeEffects ==
  ASSUME IInv, NEW c \in Changers, Supersede(c)
  PROVE  Effects
<1>1. TypeOK'
  <2> DEFINE ch == [change EXCEPT ![c].at = "enqueue"]
  <2>1. change \in [Changers -> Change] /\ last \in Nat
    BY BoundsAssumption DEF IInv, TypeOK
  <2>2. ch \in [Changers -> Change]
    BY <2>1 DEF Change, Stages
  <2>3. change' = [ch EXCEPT ![c].seen = last]
    BY DEF Supersede
  <2>4. change' \in [Changers -> Change]
    <3> HIDE DEF ch
    <3> QED
      BY <2>1, <2>2, <2>3 DEF Change
  <2>5. status' \in [Rows -> Statuses]
    BY DEF Supersede, IInv, TypeOK, Statuses
  <2> QED
    BY <2>4, <2>5 DEF IInv, TypeOK, Supersede, worker, history
<1>2. WorkersConsistent'
  BY BoundsAssumption DEF Supersede, At, Supersedable, OpenRows, table, worker, history, IInv, TypeOK, Bookkeeping, WorkersConsistent, ListedRow
<1>3. Counts'
  BY BoundsAssumption DEF Supersede, At, Supersedable, OpenRows, table, worker, history, IInv, TypeOK, Bookkeeping, RowsConsistent, Counts
<1>4. StatusMoves
  BY BoundsAssumption DEF Supersede, At, Supersedable, OpenRows, table, worker, history, IInv, TypeOK, StatusMoves, Open
<1>5. Grows
  BY BoundsAssumption DEF Supersede, At, Supersedable, OpenRows, table, worker, history, IInv, TypeOK, Grows
<1>6. Inserts
  BY BoundsAssumption DEF Supersede, At, Supersedable, OpenRows, table, worker, history, IInv, TypeOK, Inserts
<1>7. ContactMoves
  BY BoundsAssumption DEF Supersede, At, Supersedable, OpenRows, table, worker, history, IInv, TypeOK, ContactMoves
<1>8. ChangeMoves
  <2>1. ASSUME NEW d \in Changers, d # c PROVE change'[d] = change[d]
    BY <2>1 DEF Supersede, IInv, TypeOK
  <2>2. change'[c].seen = last /\ change'[c].member = change[c].member
    BY DEF Supersede, IInv, TypeOK, Change
  <2>3. ASSUME NEW r \in Rows, job[r].member = change[c].member
        PROVE  status'[r] \notin {"pending", "processing", "failed"}
    BY <2>3 DEF Supersede, Supersedable, OpenRows, Open, IInv, TypeOK
  <2>4. last' = last
    BY DEF Supersede
  <2> QED
    BY <2>1, <2>2, <2>3, <2>4 DEF ChangeMoves
<1> QED
  BY <1>1, <1>2, <1>3, <1>4, <1>5, <1>6, <1>7, <1>8 DEF Effects

LEMMA EnqueueEffects ==
  ASSUME IInv, NEW j \in Job, NEW seen \in Nat, Enqueue(j, seen),
         \A r \in Rows : r <= seen /\ job[r].member = j.member => ~Open(r),
         UNCHANGED <<contact, failures, landed, refused>>
  PROVE  /\ TableType'
         /\ last' \in {last, last + 1}
         /\ UNCHANGED retryCount
         /\ StatusMoves
         /\ Grows
         /\ Inserts
<1>1. CASE Holders(j) = {}
  BY <1>1, InsertEffects DEF Enqueue
<1>2. CASE Holders(j) # {}
  <2>1. UNCHANGED table /\ Record(j.member, BlockingMishap(j))
    BY <1>2 DEF Enqueue
  <2>2. /\ disturbed' \in [Members -> BOOLEAN]
        /\ \A n \in Members : disturbed[n] => disturbed'[n]
    BY <2>1, RecordType DEF IInv, TypeOK, Job
  <2>3. TableType'
    BY <2>1, <2>2 DEF IInv, TypeOK, TableType, table
  <2>4. StatusMoves /\ Grows
    BY <2>1, <2>2 DEF IInv, TypeOK, StatusMoves, Grows, table
  <2>5. Inserts
    BY <2>1 DEF IInv, TypeOK, Inserts, table
  <2> QED
    BY <2>1, <2>3, <2>4, <2>5 DEF table
<1> QED
  BY <1>1, <1>2

LEMMA EnqueueChangeEffects ==
  ASSUME IInv, NEW c \in Changers, EnqueueChange(c)
  PROVE  Effects
<1>1. \A kind \in Kinds : JobOf(c, kind) \in Job /\ JobOf(c, kind).member = change[c].member
  BY DEF IInv, TypeOK, JobOf, Job, Change
<1>2. UNCHANGED <<tier, latest, contact, worker, closing, history, faults>>
  BY DEF EnqueueChange
<1>3. UNCHANGED <<contact, failures, landed, refused>>
  BY <1>2 DEF history
<1>4. /\ TableType'
      /\ last' \in {last, last + 1}
      /\ UNCHANGED retryCount
      /\ StatusMoves
      /\ Grows
      /\ Inserts
  <2>1. CASE At(c, "enqueue") /\ Enqueue(JobOf(c, "tier"), change[c].seen)
    <3>1. change[c].seen \in Nat
      BY DEF IInv, TypeOK, Change
    <3>2. JobOf(c, "tier") \in Job /\ JobOf(c, "tier").member = change[c].member
      BY <1>1 DEF Kinds
    <3>3. \A r \in Rows : r <= change[c].seen /\ job[r].member = change[c].member => ~Open(r)
      BY <2>1 DEF IInv, Bookkeeping, SupersededStayClosed
    <3> QED
      BY <1>3, <2>1, <3>1, <3>2, <3>3, EnqueueEffects
  <2>2. CASE At(c, "fix") /\ Enqueue(JobOf(c, "fix"), 0)
    <3>1. JobOf(c, "fix") \in Job
      BY <1>1 DEF Kinds
    <3>2. \A r \in Rows : r <= 0 /\ job[r].member = JobOf(c, "fix").member => ~Open(r)
      BY DEF Rows
    <3> QED
      BY <1>3, <2>2, <3>1, <3>2, EnqueueEffects
  <2> QED
    BY <2>1, <2>2 DEF EnqueueChange
<1>5. /\ change' \in [Changers -> Change]
      /\ change'[c].at = "idle"
      /\ \A d \in Changers : d # c => change'[d] = change[d]
  BY FinishType DEF EnqueueChange, IInv, TypeOK
<1>6. TypeOK'
  BY <1>2, <1>4, <1>5 DEF IInv, TypeOK, TableType, worker, history
<1>7. WorkersConsistent'
  BY <1>2, <1>3, <1>4, WorkersKept
<1>8. Counts'
  BY <1>2, <1>4 DEF IInv, TypeOK, Bookkeeping, RowsConsistent, Counts, worker, history, Rows
<1>9. ContactMoves /\ ChangeMoves
  BY <1>2, <1>5 DEF ContactMoves, ChangeMoves
<1> QED
  BY <1>4, <1>6, <1>7, <1>8, <1>9 DEF Effects

LEMMA ChangeAbandonedEffects ==
  ASSUME IInv, NEW c \in Changers, ChangeAbandoned(c)
  PROVE  Effects
<1>1. TypeOK'
  <2>1. change' \in [Changers -> Change]
    BY FinishType DEF ChangeAbandoned, IInv, TypeOK
  <2>2. change[c].member \in Members
    BY DEF IInv, TypeOK, Change
  <2>3. disturbed' \in [Members -> BOOLEAN]
    BY <2>2, RecordType DEF ChangeAbandoned, IInv, TypeOK
  <2>4. faults' \in 0..MaxFaults
    BY BoundsAssumption DEF IInv, TypeOK, Fault, ChangeAbandoned
  <2> QED
    BY <2>1, <2>2, <2>3, <2>4 DEF IInv, TypeOK, ChangeAbandoned, table, worker, history
<1>2. WorkersConsistent'
  BY BoundsAssumption DEF ChangeAbandoned, At, Finish, NoChange, Record, Fault, table, worker, history, IInv, TypeOK, Bookkeeping, WorkersConsistent, ListedRow
<1>3. Counts'
  BY BoundsAssumption DEF ChangeAbandoned, At, Finish, NoChange, Record, Fault, table, worker, history, IInv, TypeOK, Bookkeeping, RowsConsistent, Counts
<1>4. StatusMoves
  BY BoundsAssumption DEF ChangeAbandoned, At, Finish, NoChange, Record, Fault, table, worker, history, IInv, TypeOK, StatusMoves, Open
<1>5. Grows
  BY BoundsAssumption DEF ChangeAbandoned, At, Finish, NoChange, Record, Fault, table, worker, history, IInv, TypeOK, Grows
<1>6. Inserts
  BY BoundsAssumption DEF ChangeAbandoned, At, Finish, NoChange, Record, Fault, table, worker, history, IInv, TypeOK, Inserts
<1>7. ContactMoves
  BY BoundsAssumption DEF ChangeAbandoned, At, Finish, NoChange, Record, Fault, table, worker, history, IInv, TypeOK, ContactMoves
<1>8. ChangeMoves
  BY BoundsAssumption DEF ChangeAbandoned, At, Finish, NoChange, Record, Fault, table, worker, history, IInv, TypeOK, ChangeMoves
<1> QED
  BY <1>1, <1>2, <1>3, <1>4, <1>5, <1>6, <1>7, <1>8 DEF Effects

LEMMA RequeueDeadEffects ==
  ASSUME IInv, NEW r \in Rows, RequeueDead(r)
  PROVE  Effects
<1> DEFINE j == CopyOf(r)
<1>1. j \in Job /\ j.member = job[r].member /\ j.ver = job[r].ver
  <2>1. job[r] \in Job
    BY DEF IInv, TypeOK
  <2>2. r \in Nat
    BY BoundsAssumption DEF Rows
  <2>3. j \in Job
    BY <2>1, <2>2 DEF CopyOf, Job, Kinds
  <2>4. j.member = job[r].member /\ j.ver = job[r].ver
    BY <2>1, <2>2 DEF CopyOf, Job, Kinds
  <2> QED
    BY <2>3, <2>4
<1>2. UNCHANGED <<tier, latest, contact, change, worker, history, faults>>
  BY DEF RequeueDead
<1>3. closing' \in SUBSET Rows /\ \A q \in Rows : q \in closing' => q <= last
  BY DEF RequeueDead, IInv, TypeOK, Bookkeeping, RowsConsistent, Rows
<1>4. CASE Holders(j) # {}
  <2>1. UNCHANGED <<table, disturbed>>
    BY <1>4 DEF RequeueDead
  <2>2. TypeOK'
    BY <1>2, <1>3, <2>1 DEF IInv, TypeOK, table, worker, history
  <2>3. WorkersConsistent' /\ Counts'
    BY <1>2, <1>3, <2>1 DEF IInv, Bookkeeping, WorkersConsistent, ListedRow, RowsConsistent,
                            Counts, table, worker, history
  <2>4. StatusMoves /\ Grows
    BY <1>2, <2>1 DEF IInv, TypeOK, StatusMoves, Grows, table, history
  <2>5. Inserts
    BY <2>1 DEF IInv, TypeOK, Inserts, table
  <2>6. ContactMoves /\ ChangeMoves
    BY <1>2 DEF ContactMoves, ChangeMoves
  <2> QED
    BY <2>2, <2>3, <2>4, <2>5, <2>6 DEF Effects
<1>5. CASE Holders(j) = {}
  <2>1. InsertRow(j) /\ Record(j.member, InsertMishap(j, 0))
    BY <1>1, <1>5 DEF RequeueDead
  <2>2. \A q \in Rows : q <= 0 /\ job[q].member = j.member => ~Open(q)
    BY DEF Rows
  <2>3. UNCHANGED <<contact, failures, landed, refused>>
    BY <1>2 DEF history
  <2>4. /\ TableType'
        /\ last' = last + 1
        /\ UNCHANGED retryCount
        /\ StatusMoves
        /\ Grows
        /\ Inserts
    BY <1>1, <1>5, <2>1, <2>2, <2>3, InsertEffects
  <2>5. TypeOK'
    BY <1>2, <1>3, <2>4 DEF IInv, TypeOK, TableType, worker, history
  <2>6. WorkersConsistent'
    BY <1>2, <2>3, <2>4, WorkersKept
  <2>7. Counts'
    BY <1>2, <1>3, <2>4 DEF IInv, TypeOK, Bookkeeping, RowsConsistent, Counts,
                            worker, history, Rows
  <2>8. ContactMoves /\ ChangeMoves
    BY <1>2 DEF ContactMoves, ChangeMoves
  <2> QED
    BY <2>4, <2>5, <2>6, <2>7, <2>8 DEF Effects
<1> QED
  BY <1>4, <1>5

LEMMA RequeueRefusedEffects ==
  ASSUME IInv, NEW r \in Rows, RequeueRefused(r)
  PROVE  Effects
<1>1. TypeOK'
  <2>1. job[r].member \in Members
    BY DEF IInv, TypeOK, Job
  <2>2. disturbed' \in [Members -> BOOLEAN]
    BY <2>1, RecordType DEF RequeueRefused, IInv, TypeOK
  <2>3. faults' \in 0..MaxFaults
    BY BoundsAssumption DEF IInv, TypeOK, Fault, RequeueRefused
  <2> QED
    BY <2>1, <2>2, <2>3 DEF IInv, TypeOK, RequeueRefused, table, worker, history
<1>2. WorkersConsistent'
  BY BoundsAssumption DEF RequeueRefused, Record, Fault, table, worker, history, IInv, TypeOK, Bookkeeping, WorkersConsistent, ListedRow
<1>3. Counts'
  BY DEF RequeueRefused, IInv, TypeOK, Bookkeeping, RowsConsistent, Counts, Rows, table, worker, history
<1>4. StatusMoves
  BY BoundsAssumption DEF RequeueRefused, Record, Fault, table, worker, history, IInv, TypeOK, StatusMoves, Open
<1>5. Grows
  BY BoundsAssumption DEF RequeueRefused, Record, Fault, table, worker, history, IInv, TypeOK, Grows
<1>6. Inserts
  BY BoundsAssumption DEF RequeueRefused, Record, Fault, table, worker, history, IInv, TypeOK, Inserts
<1>7. ContactMoves
  BY BoundsAssumption DEF RequeueRefused, Record, Fault, table, worker, history, IInv, TypeOK, ContactMoves
<1>8. ChangeMoves
  BY BoundsAssumption DEF RequeueRefused, Record, Fault, table, worker, history, IInv, TypeOK, ChangeMoves
<1> QED
  BY <1>1, <1>2, <1>3, <1>4, <1>5, <1>6, <1>7, <1>8 DEF Effects

LEMMA CloseDeadEffects ==
  ASSUME IInv, NEW r \in Rows, CloseDead(r)
  PROVE  Effects
<1>1. TypeOK'
  BY BoundsAssumption DEF CloseDead, table, worker, history, IInv, TypeOK, Change, Stages, Steps, Statuses
<1>2. WorkersConsistent'
  BY BoundsAssumption DEF CloseDead, table, worker, history, IInv, TypeOK, Bookkeeping, WorkersConsistent, ListedRow
<1>3. Counts'
  BY BoundsAssumption DEF CloseDead, table, worker, history, IInv, TypeOK, Bookkeeping, RowsConsistent, Counts
<1>4. StatusMoves
  <2>1. r <= last /\ last \in Nat /\ r \in Nat
    BY BoundsAssumption DEF CloseDead, IInv, TypeOK, Bookkeeping, RowsConsistent, Rows
  <2>2. status[r] # "absent"
    BY <2>1 DEF IInv, Bookkeeping, RowsConsistent
  <2>3. status' = [status EXCEPT ![r] = "superseded"]
    BY DEF CloseDead
  <2>4. \A q \in Rows : q # r => status'[q] = status[q]
    BY <2>3 DEF IInv, TypeOK
  <2>5. status'[r] = "superseded"
    BY <2>3 DEF IInv, TypeOK
  <2> QED
    BY <2>2, <2>4, <2>5 DEF StatusMoves
<1>5. Grows
  BY BoundsAssumption DEF CloseDead, table, worker, history, IInv, TypeOK, Grows
<1>6. Inserts
  BY BoundsAssumption DEF CloseDead, table, worker, history, IInv, TypeOK, Inserts
<1>7. ContactMoves
  BY BoundsAssumption DEF CloseDead, table, worker, history, IInv, TypeOK, ContactMoves
<1>8. ChangeMoves
  BY BoundsAssumption DEF CloseDead, table, worker, history, IInv, TypeOK, ChangeMoves
<1> QED
  BY <1>1, <1>2, <1>3, <1>4, <1>5, <1>6, <1>7, <1>8 DEF Effects

LEMMA RequeueInterruptedEffects ==
  ASSUME IInv, NEW r \in Rows, RequeueInterrupted(r)
  PROVE  Effects
<1>1. TypeOK'
  BY BoundsAssumption DEF RequeueInterrupted, Fault, table, worker, history, IInv, TypeOK, Change, Stages, Steps, Statuses
<1>2. WorkersConsistent'
  BY BoundsAssumption DEF RequeueInterrupted, Fault, table, worker, history, IInv, TypeOK, Bookkeeping, WorkersConsistent, ListedRow
<1>3. Counts'
  BY BoundsAssumption DEF RequeueInterrupted, Fault, table, worker, history, IInv, TypeOK, Bookkeeping, RowsConsistent, Counts
<1>4. StatusMoves
  BY BoundsAssumption DEF RequeueInterrupted, Fault, table, worker, history, IInv, TypeOK, StatusMoves, Open
<1>5. Grows
  BY BoundsAssumption DEF RequeueInterrupted, Fault, table, worker, history, IInv, TypeOK, Grows
<1>6. Inserts
  BY BoundsAssumption DEF RequeueInterrupted, Fault, table, worker, history, IInv, TypeOK, Inserts
<1>7. ContactMoves
  BY BoundsAssumption DEF RequeueInterrupted, Fault, table, worker, history, IInv, TypeOK, ContactMoves
<1>8. ChangeMoves
  BY BoundsAssumption DEF RequeueInterrupted, Fault, table, worker, history, IInv, TypeOK, ChangeMoves
<1> QED
  BY <1>1, <1>2, <1>3, <1>4, <1>5, <1>6, <1>7, <1>8 DEF Effects

LEMMA RecoverEffects ==
  ASSUME IInv, NEW w \in Workers, Recover(w)
  PROVE  Effects
<1>1. TypeOK'
  BY BoundsAssumption DEF Recover, Enter, Stuck, table, worker, history, IInv, TypeOK, Change, Stages, Steps, Statuses
<1>2. WorkersConsistent'
  BY BoundsAssumption DEF Recover, Enter, Stuck, table, worker, history, IInv, TypeOK, Bookkeeping, WorkersConsistent, ListedRow
<1>3. Counts'
  BY BoundsAssumption DEF Recover, Enter, Stuck, table, worker, history, IInv, TypeOK, Bookkeeping, RowsConsistent, Counts
<1>4. StatusMoves
  BY BoundsAssumption DEF Recover, Enter, Stuck, table, worker, history, IInv, TypeOK, StatusMoves, Open
<1>5. Grows
  BY BoundsAssumption DEF Recover, Enter, Stuck, table, worker, history, IInv, TypeOK, Grows
<1>6. Inserts
  BY BoundsAssumption DEF Recover, Enter, Stuck, table, worker, history, IInv, TypeOK, Inserts
<1>7. ContactMoves
  BY BoundsAssumption DEF Recover, Enter, Stuck, table, worker, history, IInv, TypeOK, ContactMoves
<1>8. ChangeMoves
  BY BoundsAssumption DEF Recover, Enter, Stuck, table, worker, history, IInv, TypeOK, ChangeMoves
<1> QED
  BY <1>1, <1>2, <1>3, <1>4, <1>5, <1>6, <1>7, <1>8 DEF Effects

LEMMA ClaimEffects ==
  ASSUME IInv, NEW w \in Workers, Claim(w)
  PROVE  Effects
<1>1. TypeOK'
  BY BoundsAssumption DEF Claim, Enter, ClaimRows, Claimable, table, worker, history, IInv, TypeOK, Change, Stages, Steps, Statuses
<1>2. WorkersConsistent'
  <2>1. ASSUME NEW v \in Workers, v # w
        PROVE  /\ step'[v] = step[v]
               /\ claimed'[v] = claimed[v]
               /\ now'[v] = now[v]
               /\ snap'[v] = snap[v]
    BY <2>1 DEF Claim, Enter, IInv, TypeOK
  <2>2. step'[w] \in {"idle", "working"}
    BY DEF Claim, Enter, IInv, TypeOK
  <2>3. ASSUME NEW r \in claimed'[w] PROVE r <= last
    BY <2>3 DEF Claim, Claimable, IInv, TypeOK, Bookkeeping, RowsConsistent, Rows
  <2>4. ASSUME NEW r \in Rows PROVE snap'[w][r] <= failures[r]
    BY <2>4 DEF Claim, IInv, TypeOK, Bookkeeping, RowsConsistent
  <2>5. UNCHANGED <<last, job, landed, refused, failures>>
    BY DEF Claim, ClaimRows, history
  <2> QED
    BY <2>1, <2>2, <2>3, <2>4, <2>5 DEF IInv, Bookkeeping, WorkersConsistent, ListedRow
<1>3. Counts'
  BY BoundsAssumption DEF Claim, Enter, ClaimRows, Claimable, table, worker, history, IInv, TypeOK, Bookkeeping, RowsConsistent, Counts
<1>4. StatusMoves
  BY BoundsAssumption DEF Claim, Enter, ClaimRows, Claimable, table, worker, history, IInv, TypeOK, StatusMoves, Open
<1>5. Grows
  BY BoundsAssumption DEF Claim, Enter, ClaimRows, Claimable, table, worker, history, IInv, TypeOK, Grows
<1>6. Inserts
  BY BoundsAssumption DEF Claim, Enter, ClaimRows, Claimable, table, worker, history, IInv, TypeOK, Inserts
<1>7. ContactMoves
  BY BoundsAssumption DEF Claim, Enter, ClaimRows, Claimable, table, worker, history, IInv, TypeOK, ContactMoves
<1>8. ChangeMoves
  BY BoundsAssumption DEF Claim, Enter, ClaimRows, Claimable, table, worker, history, IInv, TypeOK, ChangeMoves
<1> QED
  BY <1>1, <1>2, <1>3, <1>4, <1>5, <1>6, <1>7, <1>8 DEF Effects

LEMMA ClaimAnswerLostEffects ==
  ASSUME IInv, NEW w \in Workers, ClaimAnswerLost(w)
  PROVE  Effects
<1>1. TypeOK'
  BY BoundsAssumption DEF ClaimAnswerLost, ClaimRows, Claimable, Fault, table, worker, history, IInv, TypeOK, Change, Stages, Steps, Statuses
<1>2. WorkersConsistent'
  BY BoundsAssumption DEF ClaimAnswerLost, ClaimRows, Claimable, Fault, table, worker, history, IInv, TypeOK, Bookkeeping, WorkersConsistent, ListedRow
<1>3. Counts'
  BY BoundsAssumption DEF ClaimAnswerLost, ClaimRows, Claimable, Fault, table, worker, history, IInv, TypeOK, Bookkeeping, RowsConsistent, Counts
<1>4. StatusMoves
  BY BoundsAssumption DEF ClaimAnswerLost, ClaimRows, Claimable, Fault, table, worker, history, IInv, TypeOK, StatusMoves, Open
<1>5. Grows
  BY BoundsAssumption DEF ClaimAnswerLost, ClaimRows, Claimable, Fault, table, worker, history, IInv, TypeOK, Grows
<1>6. Inserts
  BY BoundsAssumption DEF ClaimAnswerLost, ClaimRows, Claimable, Fault, table, worker, history, IInv, TypeOK, Inserts
<1>7. ContactMoves
  BY BoundsAssumption DEF ClaimAnswerLost, ClaimRows, Claimable, Fault, table, worker, history, IInv, TypeOK, ContactMoves
<1>8. ChangeMoves
  BY BoundsAssumption DEF ClaimAnswerLost, ClaimRows, Claimable, Fault, table, worker, history, IInv, TypeOK, ChangeMoves
<1> QED
  BY <1>1, <1>2, <1>3, <1>4, <1>5, <1>6, <1>7, <1>8 DEF Effects

LEMMA PushSkipsEffects ==
  ASSUME IInv, NEW w \in Workers, NEW r \in Rows, PushSkips(w, r)
  PROVE  Effects
<1>1. TypeOK'
  <2>1. step' \in [Workers -> Steps] /\ now' \in [Workers -> 0..MaxRows]
    BY BoundsAssumption DEF PushSkips, Enter, IInv, TypeOK, Steps, Rows
  <2> QED
    BY <2>1 DEF IInv, TypeOK, PushSkips, table, history
<1>2. WorkersConsistent'
  BY BoundsAssumption DEF PushSkips, Enter, table, worker, history, IInv, TypeOK, Bookkeeping, WorkersConsistent, ListedRow
<1>3. Counts'
  BY BoundsAssumption DEF PushSkips, Enter, table, worker, history, IInv, TypeOK, Bookkeeping, RowsConsistent, Counts
<1>4. StatusMoves
  BY BoundsAssumption DEF PushSkips, Enter, table, worker, history, IInv, TypeOK, StatusMoves, Open
<1>5. Grows
  BY BoundsAssumption DEF PushSkips, Enter, table, worker, history, IInv, TypeOK, Grows
<1>6. Inserts
  BY BoundsAssumption DEF PushSkips, Enter, table, worker, history, IInv, TypeOK, Inserts
<1>7. ContactMoves
  BY BoundsAssumption DEF PushSkips, Enter, table, worker, history, IInv, TypeOK, ContactMoves
<1>8. ChangeMoves
  BY BoundsAssumption DEF PushSkips, Enter, table, worker, history, IInv, TypeOK, ChangeMoves
<1> QED
  BY <1>1, <1>2, <1>3, <1>4, <1>5, <1>6, <1>7, <1>8 DEF Effects

LEMMA PushClearEffects ==
  ASSUME IInv, NEW w \in Workers, NEW r \in Rows, PushClear(w, r)
  PROVE  Effects
<1>1. TypeOK'
  <2>1. job[r].member \in Members
    BY DEF IInv, TypeOK, Job
  <2>2. ContactType'
    BY <2>1, ClearType DEF PushClear, IInv, TypeOK, ContactType
  <2>3. disturbed' \in [Members -> BOOLEAN]
    BY <2>1, RecordType DEF PushClear, IInv, TypeOK
  <2>4. step' \in [Workers -> Steps] /\ now' \in [Workers -> 0..MaxRows]
    BY BoundsAssumption DEF PushClear, Enter, IInv, TypeOK, Steps, Rows
  <2> QED
    BY <2>1, <2>2, <2>3, <2>4 DEF IInv, TypeOK, ContactType, PushClear, table, history
<1>2. WorkersConsistent'
  BY BoundsAssumption DEF PushClear, Enter, Clear, Record, table, worker, history, IInv, TypeOK, Bookkeeping, WorkersConsistent, ListedRow
<1>3. Counts'
  BY BoundsAssumption DEF PushClear, Enter, Clear, Record, table, worker, history, IInv, TypeOK, Bookkeeping, RowsConsistent, Counts
<1>4. StatusMoves
  BY BoundsAssumption DEF PushClear, Enter, Clear, Record, table, worker, history, IInv, TypeOK, StatusMoves, Open
<1>5. Grows
  BY BoundsAssumption DEF PushClear, Enter, Clear, Record, table, worker, history, IInv, TypeOK, Grows
<1>6. Inserts
  BY BoundsAssumption DEF PushClear, Enter, Clear, Record, table, worker, history, IInv, TypeOK, Inserts
<1>7. ContactMoves
  <2>1. job[r].member \in Members /\ ContactType
    BY DEF IInv, TypeOK, Job, ContactType
  <2>2. \A n \in Members : contact'[n].ver = contact[n].ver
    BY <2>1, ClearType DEF PushClear
  <2> QED
    BY <2>2 DEF ContactMoves
<1>8. ChangeMoves
  BY BoundsAssumption DEF PushClear, Enter, Clear, Record, table, worker, history, IInv, TypeOK, ChangeMoves
<1> QED
  BY <1>1, <1>2, <1>3, <1>4, <1>5, <1>6, <1>7, <1>8 DEF Effects

LEMMA PushSucceedsEffects ==
  ASSUME IInv, NEW w \in Workers, PushSucceeds(w)
  PROVE  Effects
<1>1. TypeOK'
  <2>1. now[w] \in Rows
    BY RowInHand DEF PushSucceeds
  <2>2. job[now[w]].member \in Members /\ job[now[w]].ver \in Nat /\ job[now[w]].tier \in Tiers
    BY <2>1 DEF IInv, TypeOK, Job
  <2>3. ContactType'
    BY <2>2, WriteType DEF PushSucceeds, PushWrite, IInv, TypeOK, ContactType
  <2>4. disturbed' \in [Members -> BOOLEAN]
    BY <2>2, RecordType DEF PushSucceeds, PushWrite, IInv, TypeOK
  <2>5. landed' \in SUBSET Rows
    BY <2>1 DEF PushSucceeds, PushWrite, IInv, TypeOK
  <2>6. step' \in [Workers -> Steps]
    BY DEF PushSucceeds, Enter, IInv, TypeOK, Steps
  <2> QED
    BY <2>1, <2>2, <2>3, <2>4, <2>5, <2>6 DEF IInv, TypeOK, ContactType, PushSucceeds, table
<1>2. WorkersConsistent'
  BY BoundsAssumption DEF PushSucceeds, Enter, PushWrite, Write, Record, table, worker, history, IInv, TypeOK, Bookkeeping, WorkersConsistent, ListedRow
<1>3. Counts'
  BY BoundsAssumption DEF PushSucceeds, Enter, PushWrite, Write, Record, table, worker, history, IInv, TypeOK, Bookkeeping, RowsConsistent, Counts
<1>4. StatusMoves
  BY BoundsAssumption DEF PushSucceeds, Enter, PushWrite, Write, Record, table, worker, history, IInv, TypeOK, StatusMoves, Open
<1>5. Grows
  BY BoundsAssumption DEF PushSucceeds, Enter, PushWrite, Write, Record, table, worker, history, IInv, TypeOK, Grows
<1>6. Inserts
  BY BoundsAssumption DEF PushSucceeds, Enter, PushWrite, Write, Record, table, worker, history, IInv, TypeOK, Inserts
<1>7. ContactMoves
  <2>1. now[w] \in Rows /\ now[w] <= last
    BY RowInHand DEF PushSucceeds
  <2>2. CASE UNCHANGED contact
    BY <2>2 DEF ContactMoves
  <2>3. CASE PushWrite(w)
    <3> DEFINE m == job[now[w]].member
               v == job[now[w]].ver
    <3>1. m \in Members /\ v \in Nat /\ job[now[w]].tier \in Tiers
      BY <2>1 DEF IInv, TypeOK, Job
    <3>2. /\ contact'[m].ver = v
          /\ \A n \in Members : n # m => contact'[n] = contact[n]
      BY <3>1, <2>3, WriteType DEF PushWrite, IInv, TypeOK, ContactType
    <3>3. disturbed[m] => disturbed'[m]
      BY <3>1, <2>3, RecordType DEF PushWrite, IInv, TypeOK
    <3>4. ASSUME ~disturbed[m], NEW r \in Rows, Open(r), job[r].member = m
          PROVE  v <= job[r].ver
      <4>1. r <= last
        BY <3>4 DEF Open, IInv, TypeOK, Bookkeeping, RowsConsistent, Rows
      <4>2. CASE now[w] = r
        BY <4>2, <3>1
      <4>3. CASE now[w] < r
        BY <2>1, <3>4, <4>1, <4>3 DEF IInv, Bookkeeping, VersionsRise
      <4>4. CASE r < now[w]
        BY <2>1, <3>4, <4>4 DEF IInv, Bookkeeping, VersionsRise
      <4> QED
        BY <2>1, <4>2, <4>3, <4>4 DEF Rows
    <3>5. last' = last
      BY DEF PushSucceeds, table
    <3> QED
      BY <3>1, <3>2, <3>3, <3>4, <3>5 DEF ContactMoves
  <2> QED
    BY <2>2, <2>3 DEF PushSucceeds
<1>8. ChangeMoves
  BY BoundsAssumption DEF PushSucceeds, Enter, PushWrite, Write, Record, table, worker, history, IInv, TypeOK, ChangeMoves
<1> QED
  BY <1>1, <1>2, <1>3, <1>4, <1>5, <1>6, <1>7, <1>8 DEF Effects

LEMMA PushFailsEffects ==
  ASSUME IInv, NEW w \in Workers, PushFails(w)
  PROVE  Effects
<1>1. TypeOK'
  <2>1. now[w] \in Rows
    BY RowInHand DEF PushFails
  <2>2. job[now[w]].member \in Members /\ job[now[w]].ver \in Nat /\ job[now[w]].tier \in Tiers
    BY <2>1 DEF IInv, TypeOK, Job
  <2>3. ContactType'
    BY <2>2, WriteType DEF PushFails, PushWrite, IInv, TypeOK, ContactType
  <2>4. disturbed' \in [Members -> BOOLEAN]
    BY <2>2, RecordType DEF PushFails, PushWrite, IInv, TypeOK
  <2>5. landed' \in SUBSET Rows
    BY <2>1 DEF PushFails, PushWrite, IInv, TypeOK
  <2>6. step' \in [Workers -> Steps]
    BY DEF PushFails, Enter, IInv, TypeOK, Steps
  <2> QED
    BY <2>1, <2>2, <2>3, <2>4, <2>5, <2>6 DEF IInv, TypeOK, ContactType, PushFails, table
<1>2. WorkersConsistent'
  BY BoundsAssumption DEF PushFails, Enter, PushWrite, Write, Record, table, worker, history, IInv, TypeOK, Bookkeeping, WorkersConsistent, ListedRow
<1>3. Counts'
  BY BoundsAssumption DEF PushFails, Enter, PushWrite, Write, Record, table, worker, history, IInv, TypeOK, Bookkeeping, RowsConsistent, Counts
<1>4. StatusMoves
  BY BoundsAssumption DEF PushFails, Enter, PushWrite, Write, Record, table, worker, history, IInv, TypeOK, StatusMoves, Open
<1>5. Grows
  <2>1. UNCHANGED <<last, job, failures, refused>> /\ landed \subseteq landed'
    BY DEF PushFails, PushWrite, table
  <2>2. job[now[w]].member \in Members /\ disturbed \in [Members -> BOOLEAN]
    BY RowInHand DEF PushFails, IInv, TypeOK, Job
  <2>3. \A m \in Members : disturbed[m] => disturbed'[m]
    BY <2>2, RecordType DEF PushFails, PushWrite
  <2> QED
    BY <2>1, <2>3 DEF IInv, TypeOK, Grows
<1>6. Inserts
  <2>1. last' = last /\ last \in Nat
    BY BoundsAssumption DEF PushFails, table, IInv, TypeOK
  <2> QED
    BY <2>1 DEF Inserts
<1>7. ContactMoves
  <2>1. now[w] \in Rows /\ now[w] <= last
    BY RowInHand DEF PushFails
  <2>2. CASE UNCHANGED contact
    BY <2>2 DEF ContactMoves
  <2>3. CASE PushWrite(w)
    <3> DEFINE m == job[now[w]].member
               v == job[now[w]].ver
    <3>1. m \in Members /\ v \in Nat /\ job[now[w]].tier \in Tiers
      BY <2>1 DEF IInv, TypeOK, Job
    <3>2. /\ contact'[m].ver = v
          /\ \A n \in Members : n # m => contact'[n] = contact[n]
      BY <3>1, <2>3, WriteType DEF PushWrite, IInv, TypeOK, ContactType
    <3>3. disturbed[m] => disturbed'[m]
      BY <3>1, <2>3, RecordType DEF PushWrite, IInv, TypeOK
    <3>4. ASSUME ~disturbed[m], NEW r \in Rows, Open(r), job[r].member = m
          PROVE  v <= job[r].ver
      <4>1. r <= last
        BY <3>4 DEF Open, IInv, TypeOK, Bookkeeping, RowsConsistent, Rows
      <4>2. CASE now[w] = r
        BY <4>2, <3>1
      <4>3. CASE now[w] < r
        BY <2>1, <3>4, <4>1, <4>3 DEF IInv, Bookkeeping, VersionsRise
      <4>4. CASE r < now[w]
        BY <2>1, <3>4, <4>4 DEF IInv, Bookkeeping, VersionsRise
      <4> QED
        BY <2>1, <4>2, <4>3, <4>4 DEF Rows
    <3>5. last' = last
      BY DEF PushFails, table
    <3> QED
      BY <3>1, <3>2, <3>3, <3>4, <3>5 DEF ContactMoves
  <2> QED
    BY <2>2, <2>3 DEF PushFails
<1>8. ChangeMoves
  BY BoundsAssumption DEF PushFails, Enter, PushWrite, Write, Record, table, worker, history, IInv, TypeOK, ChangeMoves
<1> QED
  BY <1>1, <1>2, <1>3, <1>4, <1>5, <1>6, <1>7, <1>8 DEF Effects

LEMMA PushRefusedEffects ==
  ASSUME IInv, NEW w \in Workers, PushRefused(w)
  PROVE  Effects
<1>1. TypeOK'
  <2>1. now[w] \in Rows
    BY RowInHand DEF PushRefused
  <2>2. step' \in [Workers -> Steps]
    BY DEF PushRefused, Enter, IInv, TypeOK, Steps
  <2> QED
    BY <2>1, <2>2 DEF IInv, TypeOK, PushRefused, table
<1>2. WorkersConsistent'
  BY BoundsAssumption DEF PushRefused, Enter, table, worker, history, IInv, TypeOK, Bookkeeping, WorkersConsistent, ListedRow
<1>3. Counts'
  BY BoundsAssumption DEF PushRefused, Enter, table, worker, history, IInv, TypeOK, Bookkeeping, RowsConsistent, Counts
<1>4. StatusMoves
  BY BoundsAssumption DEF PushRefused, Enter, table, worker, history, IInv, TypeOK, StatusMoves, Open
<1>5. Grows
  BY BoundsAssumption DEF PushRefused, Enter, table, worker, history, IInv, TypeOK, Grows
<1>6. Inserts
  BY BoundsAssumption DEF PushRefused, Enter, table, worker, history, IInv, TypeOK, Inserts
<1>7. ContactMoves
  BY BoundsAssumption DEF PushRefused, Enter, table, worker, history, IInv, TypeOK, ContactMoves
<1>8. ChangeMoves
  BY BoundsAssumption DEF PushRefused, Enter, table, worker, history, IInv, TypeOK, ChangeMoves
<1> QED
  BY <1>1, <1>2, <1>3, <1>4, <1>5, <1>6, <1>7, <1>8 DEF Effects

LEMMA MarkCompletedEffects ==
  ASSUME IInv, NEW w \in Workers, MarkCompleted(w)
  PROVE  Effects
<1>1. TypeOK'
  <2>1. now[w] \in Rows
    BY RowInHand DEF MarkCompleted
  <2>2. status' \in [Rows -> Statuses] /\ old' \in [Rows -> BOOLEAN]
    BY <2>1, SetStatusType DEF MarkCompleted, IInv, TypeOK, Statuses
  <2>3. step' \in [Workers -> Steps] /\ claimed' \in [Workers -> SUBSET Rows]
    BY NextJobType DEF MarkCompleted, IInv
  <2>4. now' \in [Workers -> 0..MaxRows] /\ snap' \in [Workers -> [Rows -> Nat]]
    BY NextJobType DEF MarkCompleted, IInv
  <2> QED
    BY <2>1, <2>2, <2>3, <2>4 DEF IInv, TypeOK, MarkCompleted, history
<1>2. WorkersConsistent'
  BY BoundsAssumption DEF MarkCompleted, Enter, SetStatus, NextJob, table, worker, history, IInv, TypeOK, Bookkeeping, WorkersConsistent, ListedRow
<1>3. Counts'
  BY BoundsAssumption DEF MarkCompleted, Enter, SetStatus, NextJob, table, worker, history, IInv, TypeOK, Bookkeeping, RowsConsistent, Counts
<1>4. StatusMoves
  <2>1. now[w] \in Rows
    BY RowInHand DEF MarkCompleted
  <2>2. SetStatus(now[w], "completed") /\ step[w] = "answered"
    BY DEF MarkCompleted
  <2>3. \A q \in Rows : \/ status'[q] = status[q]
                        \/ q = now[w] /\ status[q] = "processing" /\ status'[q] = "completed"
    <3>1. status \in [Rows -> Statuses] /\ old \in [Rows -> BOOLEAN] /\ "completed" \in Statuses
      BY DEF IInv, TypeOK, Statuses
    <3> QED
      BY <2>1, <2>2, <3>1, SetStatusType
  <2> QED
    BY <2>2, <2>3 DEF StatusMoves, Open, IInv, Bookkeeping, WorkersConsistent, ListedRow
<1>5. Grows
  BY BoundsAssumption DEF MarkCompleted, Enter, SetStatus, NextJob, table, worker, history, IInv, TypeOK, Grows
<1>6. Inserts
  BY BoundsAssumption DEF MarkCompleted, Enter, SetStatus, NextJob, table, worker, history, IInv, TypeOK, Inserts
<1>7. ContactMoves
  BY BoundsAssumption DEF MarkCompleted, Enter, SetStatus, NextJob, table, worker, history, IInv, TypeOK, ContactMoves
<1>8. ChangeMoves
  BY BoundsAssumption DEF MarkCompleted, Enter, SetStatus, NextJob, table, worker, history, IInv, TypeOK, ChangeMoves
<1> QED
  BY <1>1, <1>2, <1>3, <1>4, <1>5, <1>6, <1>7, <1>8 DEF Effects

LEMMA MarkCompletedFailsEffects ==
  ASSUME IInv, NEW w \in Workers, MarkCompletedFails(w)
  PROVE  Effects
<1>1. TypeOK'
  BY BoundsAssumption DEF MarkCompletedFails, Enter, Fault, table, worker, history, IInv, TypeOK, Change, Stages, Steps, Statuses
<1>2. WorkersConsistent'
  BY BoundsAssumption DEF MarkCompletedFails, Enter, Fault, table, worker, history, IInv, TypeOK, Bookkeeping, WorkersConsistent, ListedRow
<1>3. Counts'
  BY BoundsAssumption DEF MarkCompletedFails, Enter, Fault, table, worker, history, IInv, TypeOK, Bookkeeping, RowsConsistent, Counts
<1>4. StatusMoves
  BY BoundsAssumption DEF MarkCompletedFails, Enter, Fault, table, worker, history, IInv, TypeOK, StatusMoves, Open
<1>5. Grows
  BY BoundsAssumption DEF MarkCompletedFails, Enter, Fault, table, worker, history, IInv, TypeOK, Grows
<1>6. Inserts
  BY BoundsAssumption DEF MarkCompletedFails, Enter, Fault, table, worker, history, IInv, TypeOK, Inserts
<1>7. ContactMoves
  BY BoundsAssumption DEF MarkCompletedFails, Enter, Fault, table, worker, history, IInv, TypeOK, ContactMoves
<1>8. ChangeMoves
  BY BoundsAssumption DEF MarkCompletedFails, Enter, Fault, table, worker, history, IInv, TypeOK, ChangeMoves
<1> QED
  BY <1>1, <1>2, <1>3, <1>4, <1>5, <1>6, <1>7, <1>8 DEF Effects

LEMMA MarkRefusedEffects ==
  ASSUME IInv, NEW w \in Workers, MarkRefused(w)
  PROVE  Effects
<1>1. TypeOK'
  <2>1. now[w] \in Rows
    BY RowInHand DEF MarkRefused
  <2>2. status' \in [Rows -> Statuses] /\ old' \in [Rows -> BOOLEAN]
    BY <2>1, SetStatusType DEF MarkRefused, IInv, TypeOK, Statuses
  <2>3. step' \in [Workers -> Steps] /\ claimed' \in [Workers -> SUBSET Rows]
    BY NextJobType DEF MarkRefused, IInv
  <2>4. now' \in [Workers -> 0..MaxRows] /\ snap' \in [Workers -> [Rows -> Nat]]
    BY NextJobType DEF MarkRefused, IInv
  <2> QED
    BY <2>1, <2>2, <2>3, <2>4 DEF IInv, TypeOK, MarkRefused, history
<1>2. WorkersConsistent'
  BY BoundsAssumption DEF MarkRefused, Enter, SetStatus, NextJob, table, worker, history, IInv, TypeOK, Bookkeeping, WorkersConsistent, ListedRow
<1>3. Counts'
  BY BoundsAssumption DEF MarkRefused, Enter, SetStatus, NextJob, table, worker, history, IInv, TypeOK, Bookkeeping, RowsConsistent, Counts
<1>4. StatusMoves
  <2>1. now[w] \in Rows
    BY RowInHand DEF MarkRefused
  <2>2. SetStatus(now[w], "dead") /\ step[w] = "refused"
    BY DEF MarkRefused
  <2>3. \A q \in Rows : \/ status'[q] = status[q]
                        \/ q = now[w] /\ status[q] = "processing" /\ status'[q] = "dead"
    <3>1. status \in [Rows -> Statuses] /\ old \in [Rows -> BOOLEAN] /\ "dead" \in Statuses
      BY DEF IInv, TypeOK, Statuses
    <3> QED
      BY <2>1, <2>2, <3>1, SetStatusType
  <2> QED
    BY <2>2, <2>3 DEF StatusMoves, Open, IInv, Bookkeeping, WorkersConsistent, ListedRow
<1>5. Grows
  BY BoundsAssumption DEF MarkRefused, Enter, SetStatus, NextJob, table, worker, history, IInv, TypeOK, Grows
<1>6. Inserts
  BY BoundsAssumption DEF MarkRefused, Enter, SetStatus, NextJob, table, worker, history, IInv, TypeOK, Inserts
<1>7. ContactMoves
  BY BoundsAssumption DEF MarkRefused, Enter, SetStatus, NextJob, table, worker, history, IInv, TypeOK, ContactMoves
<1>8. ChangeMoves
  BY BoundsAssumption DEF MarkRefused, Enter, SetStatus, NextJob, table, worker, history, IInv, TypeOK, ChangeMoves
<1> QED
  BY <1>1, <1>2, <1>3, <1>4, <1>5, <1>6, <1>7, <1>8 DEF Effects

LEMMA MarkFailedEffects ==
  ASSUME IInv, NEW w \in Workers, MarkFailed(w)
  PROVE  Effects
<1>1. TypeOK'
  <2>1. now[w] \in Rows
    BY RowInHand DEF MarkFailed
  <2>2. status' \in [Rows -> Statuses] /\ old' \in [Rows -> BOOLEAN]
    BY <2>1, SetStatusType DEF MarkFailed, IInv, TypeOK, Statuses
  <2>3. snap[w][now[w]] + 1 \in Nat
    BY <2>1 DEF IInv, TypeOK
  <2>4. \/ UNCHANGED <<retryCount, due>>
        \/ /\ retryCount' = [retryCount EXCEPT ![now[w]] =
                               IF status[now[w]] = "processing" THEN snap[w][now[w]] + 1 ELSE @]
           /\ due' = [due EXCEPT ![now[w]] = status[now[w]] # "processing" /\ @]
    BY DEF MarkFailed
  <2>5. retryCount' \in [Rows -> Nat]
    BY <2>1, <2>3, <2>4 DEF IInv, TypeOK
  <2>6. due' \in [Rows -> BOOLEAN]
    BY <2>1, <2>4 DEF IInv, TypeOK
  <2>7. failures' \in [Rows -> Nat]
    BY <2>1 DEF MarkFailed, IInv, TypeOK
  <2>8. step' \in [Workers -> Steps] /\ claimed' \in [Workers -> SUBSET Rows]
    BY NextJobType DEF MarkFailed, IInv
  <2>9. now' \in [Workers -> 0..MaxRows] /\ snap' \in [Workers -> [Rows -> Nat]]
    BY NextJobType DEF MarkFailed, IInv
  <2> QED
    BY <2>1, <2>2, <2>3, <2>4, <2>5, <2>6, <2>7, <2>8, <2>9 DEF IInv, TypeOK, MarkFailed
<1>2. WorkersConsistent'
  BY BoundsAssumption DEF MarkFailed, Enter, SetStatus, NextJob, MayRetry, table, worker, history, IInv, TypeOK, Bookkeeping, WorkersConsistent, ListedRow
<1>3. Counts'
  <2>1. now[w] \in Rows
    BY RowInHand DEF MarkFailed
  <2>2. snap[w][now[w]] \in Nat /\ snap[w][now[w]] <= failures[now[w]]
    BY <2>1 DEF IInv, TypeOK, Bookkeeping, WorkersConsistent, ListedRow
  <2>3. failures' = [failures EXCEPT ![now[w]] = @ + 1] /\ UNCHANGED <<last, closing>>
    BY DEF MarkFailed
  <2>4. \/ UNCHANGED retryCount
        \/ retryCount' = [retryCount EXCEPT ![now[w]] =
                             IF status[now[w]] = "processing" THEN snap[w][now[w]] + 1 ELSE @]
    BY DEF MarkFailed
  <2> QED
    BY <2>1, <2>2, <2>3, <2>4 DEF IInv, TypeOK, Bookkeeping, RowsConsistent, Counts
<1>4. StatusMoves
  <2>1. now[w] \in Rows
    BY RowInHand DEF MarkFailed
  <2>2. snap[w][now[w]] \in Nat /\ snap[w][now[w]] <= failures[now[w]] /\ failures[now[w]] \in Nat
    BY <2>1 DEF IInv, TypeOK, Bookkeeping, WorkersConsistent, ListedRow
  <2>3. failures'[now[w]] = failures[now[w]] + 1
    BY <2>1 DEF MarkFailed, IInv, TypeOK
  <2>4. MaxRetriesOf(now[w]) \in Nat
    BY RetriesAssumption DEF MaxRetriesOf
  <2>5. CASE MayRetry(now[w], snap[w][now[w]] + 1)
    <3>1. SetStatus(now[w], "failed")
      BY <2>5 DEF MarkFailed
    <3>2. \A q \in Rows : \/ status'[q] = status[q]
                          \/ q = now[w] /\ status[q] = "processing" /\ status'[q] = "failed"
      <4>1. status \in [Rows -> Statuses] /\ old \in [Rows -> BOOLEAN] /\ "failed" \in Statuses
        BY DEF IInv, TypeOK, Statuses
      <4> QED
        BY <2>1, <3>1, <4>1, SetStatusType
    <3> QED
      BY <3>2 DEF StatusMoves, Open
  <2>6. CASE ~MayRetry(now[w], snap[w][now[w]] + 1)
    <3>1. SetStatus(now[w], "dead")
      BY <2>6 DEF MarkFailed
    <3>2. \A q \in Rows : \/ status'[q] = status[q]
                          \/ q = now[w] /\ status[q] = "processing" /\ status'[q] = "dead"
      <4>1. status \in [Rows -> Statuses] /\ old \in [Rows -> BOOLEAN] /\ "dead" \in Statuses
        BY DEF IInv, TypeOK, Statuses
      <4> QED
        BY <2>1, <3>1, <4>1, SetStatusType
    <3>3. failures'[now[w]] >= MaxRetriesOf(now[w])
      BY <2>2, <2>3, <2>4, <2>6 DEF MayRetry
    <3> QED
      BY <3>2, <3>3 DEF StatusMoves, Open
  <2> QED
    BY <2>5, <2>6
<1>5. Grows
  BY BoundsAssumption DEF MarkFailed, Enter, SetStatus, NextJob, MayRetry, table, worker, history, IInv, TypeOK, Grows
<1>6. Inserts
  BY BoundsAssumption DEF MarkFailed, Enter, SetStatus, NextJob, MayRetry, table, worker, history, IInv, TypeOK, Inserts
<1>7. ContactMoves
  BY BoundsAssumption DEF MarkFailed, Enter, SetStatus, NextJob, MayRetry, table, worker, history, IInv, TypeOK, ContactMoves
<1>8. ChangeMoves
  BY BoundsAssumption DEF MarkFailed, Enter, SetStatus, NextJob, MayRetry, table, worker, history, IInv, TypeOK, ChangeMoves
<1> QED
  BY <1>1, <1>2, <1>3, <1>4, <1>5, <1>6, <1>7, <1>8 DEF Effects

LEMMA BatchAbandonedEffects ==
  ASSUME IInv, NEW w \in Workers, BatchAbandoned(w)
  PROVE  Effects
<1>1. TypeOK'
  BY BoundsAssumption DEF BatchAbandoned, Enter, Fault, table, worker, history, IInv, TypeOK, Change, Stages, Steps, Statuses
<1>2. WorkersConsistent'
  BY BoundsAssumption DEF BatchAbandoned, Enter, Fault, table, worker, history, IInv, TypeOK, Bookkeeping, WorkersConsistent, ListedRow
<1>3. Counts'
  BY BoundsAssumption DEF BatchAbandoned, Enter, Fault, table, worker, history, IInv, TypeOK, Bookkeeping, RowsConsistent, Counts
<1>4. StatusMoves
  BY BoundsAssumption DEF BatchAbandoned, Enter, Fault, table, worker, history, IInv, TypeOK, StatusMoves, Open
<1>5. Grows
  BY BoundsAssumption DEF BatchAbandoned, Enter, Fault, table, worker, history, IInv, TypeOK, Grows
<1>6. Inserts
  BY BoundsAssumption DEF BatchAbandoned, Enter, Fault, table, worker, history, IInv, TypeOK, Inserts
<1>7. ContactMoves
  BY BoundsAssumption DEF BatchAbandoned, Enter, Fault, table, worker, history, IInv, TypeOK, ContactMoves
<1>8. ChangeMoves
  BY BoundsAssumption DEF BatchAbandoned, Enter, Fault, table, worker, history, IInv, TypeOK, ChangeMoves
<1> QED
  BY <1>1, <1>2, <1>3, <1>4, <1>5, <1>6, <1>7, <1>8 DEF Effects

LEMMA RetryDueEffects ==
  ASSUME IInv, NEW r \in Rows, RetryDue(r)
  PROVE  Effects
<1>1. TypeOK'
  BY BoundsAssumption DEF RetryDue, table, worker, history, IInv, TypeOK, Change, Stages, Steps, Statuses
<1>2. WorkersConsistent'
  BY BoundsAssumption DEF RetryDue, table, worker, history, IInv, TypeOK, Bookkeeping, WorkersConsistent, ListedRow
<1>3. Counts'
  BY BoundsAssumption DEF RetryDue, table, worker, history, IInv, TypeOK, Bookkeeping, RowsConsistent, Counts
<1>4. StatusMoves
  BY BoundsAssumption DEF RetryDue, table, worker, history, IInv, TypeOK, StatusMoves, Open
<1>5. Grows
  BY BoundsAssumption DEF RetryDue, table, worker, history, IInv, TypeOK, Grows
<1>6. Inserts
  BY BoundsAssumption DEF RetryDue, table, worker, history, IInv, TypeOK, Inserts
<1>7. ContactMoves
  BY BoundsAssumption DEF RetryDue, table, worker, history, IInv, TypeOK, ContactMoves
<1>8. ChangeMoves
  BY BoundsAssumption DEF RetryDue, table, worker, history, IInv, TypeOK, ChangeMoves
<1> QED
  BY <1>1, <1>2, <1>3, <1>4, <1>5, <1>6, <1>7, <1>8 DEF Effects

LEMMA GrowsOldEffects ==
  ASSUME IInv, NEW r \in Rows, GrowsOld(r)
  PROVE  Effects
<1>1. TypeOK'
  BY BoundsAssumption DEF GrowsOld, table, worker, history, IInv, TypeOK, Change, Stages, Steps, Statuses
<1>2. WorkersConsistent'
  BY BoundsAssumption DEF GrowsOld, table, worker, history, IInv, TypeOK, Bookkeeping, WorkersConsistent, ListedRow
<1>3. Counts'
  BY BoundsAssumption DEF GrowsOld, table, worker, history, IInv, TypeOK, Bookkeeping, RowsConsistent, Counts
<1>4. StatusMoves
  BY BoundsAssumption DEF GrowsOld, table, worker, history, IInv, TypeOK, StatusMoves, Open
<1>5. Grows
  BY BoundsAssumption DEF GrowsOld, table, worker, history, IInv, TypeOK, Grows
<1>6. Inserts
  BY BoundsAssumption DEF GrowsOld, table, worker, history, IInv, TypeOK, Inserts
<1>7. ContactMoves
  BY BoundsAssumption DEF GrowsOld, table, worker, history, IInv, TypeOK, ContactMoves
<1>8. ChangeMoves
  BY BoundsAssumption DEF GrowsOld, table, worker, history, IInv, TypeOK, ChangeMoves
<1> QED
  BY <1>1, <1>2, <1>3, <1>4, <1>5, <1>6, <1>7, <1>8 DEF Effects

LEMMA StallsEffects ==
  ASSUME IInv, NEW r \in Rows, Stalls(r)
  PROVE  Effects
<1>1. TypeOK'
  BY BoundsAssumption DEF Stalls, Fault, table, worker, history, IInv, TypeOK, Change, Stages, Steps, Statuses
<1>2. WorkersConsistent'
  BY BoundsAssumption DEF Stalls, Fault, table, worker, history, IInv, TypeOK, Bookkeeping, WorkersConsistent, ListedRow
<1>3. Counts'
  BY BoundsAssumption DEF Stalls, Fault, table, worker, history, IInv, TypeOK, Bookkeeping, RowsConsistent, Counts
<1>4. StatusMoves
  BY BoundsAssumption DEF Stalls, Fault, table, worker, history, IInv, TypeOK, StatusMoves, Open
<1>5. Grows
  BY BoundsAssumption DEF Stalls, Fault, table, worker, history, IInv, TypeOK, Grows
<1>6. Inserts
  BY BoundsAssumption DEF Stalls, Fault, table, worker, history, IInv, TypeOK, Inserts
<1>7. ContactMoves
  BY BoundsAssumption DEF Stalls, Fault, table, worker, history, IInv, TypeOK, ContactMoves
<1>8. ChangeMoves
  BY BoundsAssumption DEF Stalls, Fault, table, worker, history, IInv, TypeOK, ChangeMoves
<1> QED
  BY <1>1, <1>2, <1>3, <1>4, <1>5, <1>6, <1>7, <1>8 DEF Effects

-----------------------------------------------------------------------------
(* The inductive invariant.                                                *)

LEMMA InitIInv == Init => IInv
<1> SUFFICES ASSUME Init PROVE IInv
  OBVIOUS
<1>1. TypeOK
  BY SomeMemberTier, SetsAssumption, BoundsAssumption
     DEF Init, TypeOK, Rows, Statuses, Job, Kinds, Change, NoChange, Stages, Steps
<1>2. WorkersConsistent
  BY DEF Init, WorkersConsistent, ListedRow
<1>3. RowsConsistent
  BY BoundsAssumption DEF Init, RowsConsistent, Rows
<1>4. VersionsRise /\ SupersededStayClosed
  BY BoundsAssumption DEF Init, VersionsRise, SupersededStayClosed, NoChange, At, Rows
<1>5. CompletedReachedHubSpot /\ DeadOnlyWhenExhausted
  BY DEF Init, CompletedReachedHubSpot, DeadOnlyWhenExhausted
<1>6. NoStaleRetry
  BY DEF Init, NoStaleRetry, Open
<1> QED
  BY <1>1, <1>2, <1>3, <1>4, <1>5, <1>6 DEF IInv, Bookkeeping

LEMMA EffectsRows ==
  ASSUME IInv, Effects
  PROVE  RowsConsistent'
<1> SUFFICES ASSUME NEW r \in Rows
             PROVE  /\ status'[r] = "absent" <=> r > last'
                    /\ retryCount'[r] <= failures'[r]
                    /\ r \in closing' => r <= last'
  BY DEF RowsConsistent
<1>1. status[r] = "absent" <=> r > last
  BY DEF IInv, Bookkeeping, RowsConsistent
<1>2. last \in Nat /\ last' \in {last, last + 1} /\ r \in Nat
  BY BoundsAssumption DEF IInv, TypeOK, Effects, Grows, Rows
<1>3. last' = last + 1 => status'[last + 1] = "pending"
  BY DEF Effects, Inserts
<1>4. \/ status'[r] = status[r]
      \/ status[r] # "absent" /\ status'[r] # "absent"
      \/ r = last + 1 /\ last' = r /\ status'[r] = "pending"
  BY DEF Effects, StatusMoves, Open
<1>5. status'[r] = "absent" <=> r > last'
  BY <1>1, <1>2, <1>3, <1>4
<1>6. retryCount'[r] <= failures'[r] /\ (r \in closing' => r <= last')
  BY DEF Effects, Counts
<1> QED
  BY <1>5, <1>6

\* A row that is open after a step was open before it, or was just inserted.
LEMMA OpenBefore ==
  ASSUME IInv, Effects, NEW r \in Rows, Open(r)'
  PROVE  Open(r) \/ (r = last + 1 /\ last' = r)
  BY DEF Effects, StatusMoves, Open

LEMMA OpenExists ==
  ASSUME IInv, NEW r \in Rows, Open(r)
  PROVE  r <= last
  BY BoundsAssumption DEF IInv, TypeOK, Bookkeeping, RowsConsistent, Open, Rows

LEMMA EffectsVersions ==
  ASSUME IInv, Effects
  PROVE  VersionsRise'
<1> SUFFICES ASSUME NEW r \in Rows, NEW s \in Rows, r < s, s <= last',
                    job'[r].member = job'[s].member, ~disturbed'[job'[r].member]
             PROVE  ~Open(r)' /\ job'[r].ver <= job'[s].ver
  BY DEF VersionsRise
<1>1. last \in Nat /\ last' \in {last, last + 1} /\ r \in Nat /\ s \in Nat
  BY BoundsAssumption DEF IInv, TypeOK, Effects, Grows, Rows
<1>2. r <= last /\ job'[r] = job[r]
  BY <1>1 DEF Effects, Grows
<1>3. job[r].member \in Members
  BY DEF IInv, TypeOK, Job
<1>4. ~disturbed[job[r].member]
  BY <1>2, <1>3 DEF Effects, Grows
<1>5. ~Open(r) => ~Open(r)'
  BY <1>1, <1>2, OpenBefore
<1>6. CASE s <= last
  <2>1. job'[s] = job[s]
    BY <1>6 DEF Effects, Grows
  <2>2. ~Open(r) /\ job[r].ver <= job[s].ver
    BY <1>2, <1>4, <1>6, <2>1 DEF IInv, Bookkeeping, VersionsRise
  <2> QED
    BY <1>2, <1>5, <2>1, <2>2
<1>7. CASE s > last
  <2>1. s = last + 1 /\ last' = last + 1
    BY <1>1, <1>7
  <2>2. \A q \in Rows : q <= last /\ job[q].member = job'[s].member
           => ~Open(q) /\ job[q].ver <= job'[s].ver
    BY <1>2, <2>1 DEF Effects, Inserts
  <2> QED
    BY <1>2, <1>5, <2>2
<1> QED
  BY <1>1, <1>6, <1>7

LEMMA EffectsSuperseded ==
  ASSUME IInv, Effects
  PROVE  SupersededStayClosed'
<1> SUFFICES ASSUME NEW c \in Changers, change'[c].at = "enqueue"
             PROVE  /\ change'[c].seen <= last'
                    /\ \A r \in Rows :
                          r <= change'[c].seen /\ job'[r].member = change'[c].member => ~Open(r)'
  BY DEF SupersededStayClosed, At
<1>1. last \in Nat /\ last' \in {last, last + 1} /\ change[c].seen \in Nat
  BY BoundsAssumption DEF IInv, TypeOK, Change, Effects, Grows
<1>2. CASE change'[c] = change[c]
  <2>1. change[c].seen <= last
    BY <1>2 DEF IInv, Bookkeeping, SupersededStayClosed, At
  <2>2. ASSUME NEW r \in Rows, r <= change[c].seen, job'[r].member = change[c].member
        PROVE  ~Open(r)'
    <3>1. r \in Nat
      BY BoundsAssumption DEF Rows
    <3>2. job'[r] = job[r]
      BY <1>1, <2>1, <2>2, <3>1 DEF Effects, Grows
    <3>3. ~Open(r)
      BY <1>2, <2>2, <3>2 DEF IInv, Bookkeeping, SupersededStayClosed, At
    <3> QED
      BY <1>1, <2>1, <2>2, <3>1, <3>3, OpenBefore
  <2> QED
    BY <1>1, <1>2, <2>1, <2>2
<1>3. CASE /\ change'[c].seen = last
           /\ last' = last
           /\ \A r \in Rows : job[r].member = change'[c].member =>
                 status'[r] \notin {"pending", "processing", "failed"}
  BY <1>1, <1>3 DEF Effects, Grows, Open
<1> QED
  BY <1>2, <1>3 DEF Effects, ChangeMoves

LEMMA EffectsCompleted ==
  ASSUME IInv, Effects
  PROVE  CompletedReachedHubSpot'
<1> SUFFICES ASSUME NEW r \in Rows, status'[r] = "completed", ListedRow(r)'
             PROVE  r \in landed'
  BY DEF CompletedReachedHubSpot
<1>1. status[r] # "absent"
  BY DEF Effects, StatusMoves, Open
<1>2. r <= last
  BY <1>1, BoundsAssumption DEF IInv, TypeOK, Bookkeeping, RowsConsistent, Rows
<1>3. ListedRow(r)
  BY <1>2 DEF Effects, Grows, ListedRow
<1> QED
  BY <1>3 DEF IInv, CompletedReachedHubSpot, Effects, StatusMoves, Grows, Open

LEMMA EffectsDead ==
  ASSUME IInv, Effects
  PROVE  DeadOnlyWhenExhausted'
<1> SUFFICES ASSUME NEW r \in Rows, status'[r] = "dead"
             PROVE  r \in refused' \/ failures'[r] >= MaxRetriesOf(r)'
  BY DEF DeadOnlyWhenExhausted
<1>1. status[r] # "absent"
  BY DEF Effects, StatusMoves, Open
<1>2. r <= last
  BY <1>1, BoundsAssumption DEF IInv, TypeOK, Bookkeeping, RowsConsistent, Rows
<1>3. MaxRetriesOf(r)' = MaxRetriesOf(r) /\ MaxRetriesOf(r) \in Nat
  BY <1>2, RetriesAssumption DEF Effects, Grows, MaxRetriesOf
<1>4. failures[r] \in Nat /\ failures'[r] \in Nat /\ failures[r] <= failures'[r]
  BY DEF IInv, Effects, TypeOK, Grows
<1>5. CASE status[r] = "dead"
  BY <1>3, <1>4, <1>5 DEF IInv, DeadOnlyWhenExhausted, Effects, Grows
<1>6. CASE status[r] # "dead"
  BY <1>3, <1>6 DEF Effects, StatusMoves, Grows
<1> QED
  BY <1>5, <1>6

LEMMA EffectsStale ==
  ASSUME IInv, Effects
  PROVE  NoStaleRetry'
<1> SUFFICES ASSUME NEW r \in Rows, Open(r)', ~disturbed'[job'[r].member]
             PROVE  job'[r].ver >= contact'[job'[r].member].ver
  BY DEF NoStaleRetry
<1>1. CASE Open(r)
  <2> DEFINE m == job[r].member
  <2>1. r <= last /\ job'[r] = job[r]
    BY <1>1, OpenExists DEF Effects, Grows
  <2>2. m \in Members /\ job[r].ver \in Nat
    BY DEF IInv, TypeOK, Job
  <2>3. ~disturbed[m] /\ ~disturbed'[m]
    BY <2>1, <2>2 DEF Effects, Grows
  <2>4. job[r].ver >= contact[m].ver
    BY <1>1, <2>3 DEF IInv, NoStaleRetry
  <2>5. contact[m].ver \in Nat /\ contact'[m].ver \in Nat
    BY <2>2 DEF IInv, Effects, TypeOK
  <2>6. contact'[m].ver = contact[m].ver \/ contact'[m].ver <= job[r].ver
    BY <1>1, <2>2, <2>3 DEF Effects, ContactMoves
  <2> QED
    BY <2>1, <2>2, <2>4, <2>5, <2>6
<1>2. CASE r = last + 1 /\ last' = r
  <2> DEFINE m == job'[r].member
  <2>1. m \in Members /\ job'[r].ver \in Nat
    BY DEF Effects, TypeOK, Job
  <2>2. contact' = contact /\ contact[m].ver <= job'[r].ver
    BY <1>2 DEF Effects, Inserts
  <2>3. contact[m].ver \in Nat
    BY <2>1 DEF IInv, TypeOK
  <2> QED
    BY <2>1, <2>2, <2>3
<1> QED
  BY <1>1, <1>2, OpenBefore

LEMMA EffectsIInv ==
  ASSUME IInv, Effects
  PROVE  IInv'
<1>1. TypeOK' /\ WorkersConsistent'
  BY DEF Effects
<1> QED
  BY <1>1, EffectsRows, EffectsVersions, EffectsSuperseded, EffectsCompleted, EffectsDead,
     EffectsStale DEF IInv, Bookkeeping

LEMMA NextEffects ==
  ASSUME IInv, Next
  PROVE  Effects
<1>1. ASSUME NEW c \in Changers, NEW m \in Members, NEW t \in Tiers, NEW first \in Stages,
             CommitTier(c, m, t, first)
      PROVE  Effects
  BY <1>1, CommitTierEffects
<1>2. ASSUME NEW c \in Changers, ChangeStep(c) PROVE Effects
  BY <1>2, DirectSkipsEffects, DirectClearEffects, DirectSucceedsEffects, DirectFailsEffects, SupersedeEffects,
     EnqueueChangeEffects, ChangeAbandonedEffects DEF ChangeStep
<1>3. ASSUME NEW w \in Workers, WorkerStep(w) PROVE Effects
  BY <1>3, RecoverEffects, ClaimEffects, ClaimAnswerLostEffects, PushSkipsEffects, PushClearEffects,
     PushSucceedsEffects, PushFailsEffects, PushRefusedEffects, MarkCompletedEffects,
     MarkCompletedFailsEffects, MarkRefusedEffects, MarkFailedEffects, BatchAbandonedEffects
     DEF WorkerStep
<1>4. ASSUME NEW r \in Rows, RowStep(r) PROVE Effects
  BY <1>4, RequeueDeadEffects, RequeueRefusedEffects, CloseDeadEffects,
     RequeueInterruptedEffects, RetryDueEffects, GrowsOldEffects, StallsEffects DEF RowStep
<1> QED
  BY <1>1, <1>2, <1>3, <1>4 DEF Next

LEMMA StutterIInv ==
  ASSUME IInv, UNCHANGED vars
  PROVE  IInv'
<1>1. TypeOK'
  BY DEF IInv, TypeOK, vars, table, worker, history
<1>2. Bookkeeping'
  BY DEF IInv, Bookkeeping, WorkersConsistent, ListedRow, RowsConsistent, VersionsRise,
         SupersededStayClosed, At, Open, vars, table, worker, history
<1>3. CompletedReachedHubSpot' /\ DeadOnlyWhenExhausted'
  BY DEF IInv, CompletedReachedHubSpot, ListedRow, DeadOnlyWhenExhausted, MaxRetriesOf, vars, table, history
<1>4. NoStaleRetry'
  BY DEF IInv, NoStaleRetry, Open, vars, table
<1> QED
  BY <1>1, <1>2, <1>3, <1>4 DEF IInv

\* The inductive invariant holds in every reachable state.
THEOREM Invariant == Spec => []IInv
<1>1. IInv /\ [Next]_vars => IInv'
  BY NextEffects, EffectsIInv, StutterIInv
<1> QED
  BY InitIInv, <1>1, PTL DEF Spec

-----------------------------------------------------------------------------
(* The theorems.                                                           *)

\* Every variable keeps its type, whatever workers, requests and restarts do.
THEOREM TypeCorrect == Spec => []TypeOK
<1>1. IInv => TypeOK
  BY DEF IInv
<1> QED
  BY Invariant, <1>1, PTL

\* What the workers hold agrees with the table: a worker completes only rows it
\* has pushed or whose tier has no HubSpot option, counts never overtake the failures, the rows of an undisturbed
\* member carry rising versions, and superseded rows stay closed until the
\* insert that follows.
THEOREM Consistent == Spec => []Bookkeeping
<1>1. IInv => Bookkeeping
  BY DEF IInv
<1> QED
  BY Invariant, <1>1, PTL

\* A completed row has reached HubSpot, whichever worker marked it, unless
\* HubSpot has no option for its tier.
THEOREM CompletedHonest == Spec => []CompletedReachedHubSpot
<1>1. IInv => CompletedReachedHubSpot
  BY DEF IInv
<1> QED
  BY Invariant, <1>1, PTL

\* No row dies before max_retries failures or an unrecoverable answer.
THEOREM DeadExhausted == Spec => []DeadOnlyWhenExhausted
<1>1. IInv => DeadOnlyWhenExhausted
  BY DEF IInv
<1> QED
  BY Invariant, <1>1, PTL

\* No retry of an undisturbed member is older than what HubSpot shows.
THEOREM RetriesFresh == Spec => []NoStaleRetry
<1>1. IInv => NoStaleRetry
  BY DEF IInv
<1> QED
  BY Invariant, <1>1, PTL

\* A completed or superseded row is never opened again.
THEOREM StaysClosed == Spec => ClosedForGood
<1> DEFINE Closed == \A r \in Rows : status[r] \in {"completed", "superseded"} =>
                        status'[r] \in {"completed", "superseded"}
<1>1. ASSUME IInv, Next PROVE Closed
  <2>1. StatusMoves
    BY <1>1, NextEffects DEF Effects
  <2>2. ASSUME NEW r \in Rows, status[r] \in {"completed", "superseded"}
        PROVE  status'[r] \in {"completed", "superseded"}
    <3>1. r # last + 1
      BY <1>1, <2>2, BoundsAssumption
         DEF IInv, TypeOK, Bookkeeping, RowsConsistent, Rows
    <3> QED
      BY <2>1, <2>2, <3>1 DEF StatusMoves, Open
  <2> QED
    BY <2>2
<1>2. ASSUME UNCHANGED vars PROVE Closed
  BY <1>2 DEF vars, table
<1>3. IInv /\ [Next]_vars => [Closed]_vars
  BY <1>1, <1>2
<1> QED
  BY Invariant, <1>3, PTL DEF Spec, ClosedForGood

=============================================================================
