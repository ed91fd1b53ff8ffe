------------------------- MODULE HubSpotTierProofs -------------------------
(***************************************************************************)
(* HubSpot follows the tier: HubSpotFollowsTier for every set of members,  *)
(* tiers, workers and requests and for every bound.                        *)
(*                                                                         *)
(* TierInv says where the newest version of an undisturbed member is, if   *)
(* HubSpot has an option for its tier: with the request that made it, at   *)
(* HubSpot, or in the member's last row.  It rests on IInv                 *)
(* (HubSpotQueueProofs), which may be used before and after each step.     *)
(***************************************************************************)
EXTENDS HubSpotQueueProofs

\* The numbers and members of rows, changes and contacts.
Numbers ==
    /\ MaxRows \in Nat /\ last \in Nat /\ last <= MaxRows
    /\ \A r \in Rows : /\ job[r].member \in Members
                       /\ job[r].ver \in Nat
                       /\ job[r].origin \in Nat
                       /\ status[r] = "absent" <=> r > last
    /\ \A c \in Changers : /\ change[c].member \in Members
                           /\ change[c].ver \in Nat
                           /\ change[c].seen \in Nat
    /\ \A m \in Members : contact[m].ver \in Nat /\ latest[m] \in Nat
    /\ disturbed \in [Members -> BOOLEAN]

LEMMA NumbersBefore == ASSUME IInv PROVE Numbers
  BY BoundsAssumption DEF IInv, TypeOK, Bookkeeping, RowsConsistent, Numbers, Job, Change

LEMMA NumbersAfter == ASSUME IInv' PROVE Numbers'
  BY BoundsAssumption DEF IInv, TypeOK, Bookkeeping, RowsConsistent, Numbers, Job, Change

LEMMA RowNumbers == \A r \in Rows : r \in Nat /\ r # 0
  BY BoundsAssumption DEF Rows

-----------------------------------------------------------------------------
(* Versions.                                                               *)

VersionInv == RowVersions /\ ChangeVersions /\ ContactVersions

\* A step moves the contact to a version that a row or a request carries, ...
ContactFrom(m) ==
    \/ contact'[m].ver = contact[m].ver /\ contact'[m].tier = contact[m].tier
    \/ \E r \in Existing : /\ job[r].member = m
                           /\ contact'[m].ver = job[r].ver
                           /\ contact'[m].tier = job[r].tier
    \/ \E c \in Changers : /\ Active(c, m)
                           /\ contact'[m].ver = change[c].ver
                           /\ contact'[m].tier = change[c].tier

\* ... ends a change or leaves its version alone, ...
ChangeFrom(c) ==
    \/ At(c, "idle")'
    \/ /\ ~At(c, "idle")
       /\ change'[c].member = change[c].member
       /\ change'[c].ver = change[c].ver
       /\ change'[c].tier = change[c].tier

\* ... and makes a new row of a row or of a request that it ends.
RowFrom(j) ==
    \/ \E r \in Existing : /\ j.member = job[r].member
                           /\ j.ver = job[r].ver
                           /\ j.tier = job[r].tier
                           /\ j.origin = r
    \/ \E c \in Changers : /\ Active(c, j.member)
                           /\ At(c, "idle")'
                           /\ j.ver = change[c].ver
                           /\ j.tier = change[c].tier
                           /\ j.kind # "requeue"

RowsFrom ==
    \/ last' = last /\ job' = job
    \/ /\ last' = last + 1
       /\ last + 1 \in Rows
       /\ contact' = contact
       /\ \A r \in Existing : job'[r] = job[r]
       /\ RowFrom(job'[last + 1])

VersionsFrom ==
    /\ UNCHANGED <<tier, latest>>
    /\ \A m \in Members : ContactFrom(m)
    /\ \A c \in Changers : ChangeFrom(c)
    /\ RowsFrom

LEMMA ExistingAfter ==
  ASSUME Numbers, RowsFrom
  PROVE  \/ last' = last /\ job' = job /\ Existing' = Existing
         \/ last' = last + 1 /\ last + 1 \in Rows /\ Existing' = Existing \cup {last + 1}
  BY DEF Numbers, RowsFrom, Existing, Rows

LEMMA ContactVersionsKept ==
  ASSUME Numbers, VersionInv, VersionsFrom
  PROVE  ContactVersions'
<1> SUFFICES ASSUME NEW m \in Members
             PROVE  contact'[m].ver <= latest[m]
  BY DEF ContactVersions, VersionsFrom
<1> QED
  BY DEF VersionInv, RowVersions, ChangeVersions, ContactVersions, VersionsFrom, ContactFrom,
         Active, Existing

\* What a version's carriers agree on, after the step.
LEMMA ContactAgrees ==
  ASSUME Numbers, VersionInv, VersionsFrom, NEW m \in Members
  PROVE  /\ \A r \in Existing : job[r].member = m /\ contact'[m].ver = job[r].ver
                                => contact'[m].tier = job[r].tier
         /\ \A c \in Changers : Active(c, m) /\ contact'[m].ver = change[c].ver
                                => contact'[m].tier = change[c].tier
<1>1. CASE contact'[m].ver = contact[m].ver /\ contact'[m].tier = contact[m].tier
  BY <1>1 DEF VersionInv, RowVersions, ChangeVersions, Active, Existing
<1>2. ASSUME NEW q \in Existing, job[q].member = m, contact'[m].ver = job[q].ver,
             contact'[m].tier = job[q].tier
      PROVE  /\ \A r \in Existing : job[r].member = m /\ contact'[m].ver = job[r].ver
                                    => contact'[m].tier = job[r].tier
             /\ \A c \in Changers : Active(c, m) /\ contact'[m].ver = change[c].ver
                                    => contact'[m].tier = change[c].tier
  BY <1>2 DEF VersionInv, RowVersions, ChangeVersions, Active, Existing
<1>3. ASSUME NEW d \in Changers, Active(d, m), contact'[m].ver = change[d].ver,
             contact'[m].tier = change[d].tier
      PROVE  /\ \A r \in Existing : job[r].member = m /\ contact'[m].ver = job[r].ver
                                    => contact'[m].tier = job[r].tier
             /\ \A c \in Changers : Active(c, m) /\ contact'[m].ver = change[c].ver
                                    => contact'[m].tier = change[c].tier
  BY <1>3 DEF VersionInv, RowVersions, ChangeVersions, Active, Existing
<1> QED
  BY <1>1, <1>2, <1>3 DEF VersionsFrom, ContactFrom

LEMMA RowVersionsKept ==
  ASSUME Numbers, VersionInv, VersionsFrom
  PROVE  RowVersions'
<1>1. CASE last' = last /\ job' = job /\ Existing' = Existing
  <2> SUFFICES ASSUME NEW r \in Existing
               PROVE  /\ contact'[job[r].member].ver = job[r].ver
                         => contact'[job[r].member].tier = job[r].tier
    BY <1>1 DEF RowVersions, VersionInv, VersionsFrom
  <2>1. r \in Rows /\ job[r].member \in Members
    BY DEF Existing, Numbers
  <2> QED
    BY <2>1, ContactAgrees
<1>2. CASE last' = last + 1 /\ last + 1 \in Rows /\ Existing' = Existing \cup {last + 1}
  <2> DEFINE n == last + 1
             j == job'[last + 1]
  <2>1. contact' = contact /\ (\A r \in Existing : job'[r] = job[r]) /\ RowFrom(j)
    BY <1>2 DEF VersionsFrom, RowsFrom, Numbers
  <2>2. n \notin Existing /\ \A r \in Existing : r < n /\ r \in Nat
    BY RowNumbers DEF Existing, Numbers
  <2>3. /\ j.ver <= latest[j.member]
        /\ contact[j.member].ver = j.ver => contact[j.member].tier = j.tier
        /\ \A s \in Existing : job[s].member = j.member /\ job[s].ver = j.ver
                               => job[s].tier = j.tier
        /\ j.kind = "requeue" => j.origin < n
    <3>1. CASE \E r \in Existing : /\ j.member = job[r].member
                                   /\ j.ver = job[r].ver
                                   /\ j.tier = job[r].tier
                                   /\ j.origin = r
      BY <2>2, <3>1 DEF VersionInv, RowVersions
    <3>2. CASE \E c \in Changers : /\ Active(c, j.member)
                                   /\ j.ver = change[c].ver
                                   /\ j.tier = change[c].tier
                                   /\ j.kind # "requeue"
      BY <3>2 DEF VersionInv, ChangeVersions, Active
    <3> QED
      BY <2>1, <3>1, <3>2 DEF RowFrom
  <2>4. latest' = latest
    BY DEF VersionsFrom
  <2>5. ASSUME NEW r \in Existing
        PROVE  /\ job'[r].ver <= latest[job'[r].member]
               /\ contact[job'[r].member].ver = job'[r].ver
                  => contact[job'[r].member].tier = job'[r].tier
               /\ \A s \in Existing \cup {n} :
                     job'[s].member = job'[r].member /\ job'[s].ver = job'[r].ver
                     => job'[s].tier = job'[r].tier
               /\ job'[r].kind = "requeue" => job'[r].origin < r
    BY <2>1, <2>3, <2>5 DEF VersionInv, RowVersions
  <2>6. \A s \in Existing \cup {n} :
           job'[s].member = j.member /\ job'[s].ver = j.ver => job'[s].tier = j.tier
    BY <2>1, <2>3
  <2> QED
    BY <1>2, <2>1, <2>3, <2>4, <2>5, <2>6 DEF RowVersions
<1> QED
  BY <1>1, <1>2, ExistingAfter DEF VersionsFrom

LEMMA ChangeVersionsKept ==
  ASSUME Numbers, VersionInv, VersionsFrom
  PROVE  ChangeVersions'
<1> SUFFICES ASSUME NEW c \in Changers, NEW m \in Members, Active(c, m)'
             PROVE  /\ change'[c].ver <= latest[m]
                    /\ change'[c].ver = latest[m] => change'[c].tier = tier[m]
                    /\ contact'[m].ver = change'[c].ver => contact'[m].tier = change'[c].tier
                    /\ \A d \in Changers \ {c} :
                          Active(d, m)' => change'[d].ver # change'[c].ver
                    /\ \A r \in Existing' :
                          job'[r].member = m => job'[r].ver # change'[c].ver
  <2>1. ASSUME NEW c \in Changers, ~At(c, "idle")'
        PROVE  change'[c].member \in Members
    BY <2>1 DEF VersionsFrom, ChangeFrom, Numbers
  <2> QED
    BY <2>1 DEF ChangeVersions, VersionsFrom, Active
<1>1. /\ ~At(c, "idle") /\ Active(c, m) /\ change[c].member = m
      /\ change'[c].member = m /\ change'[c].ver = change[c].ver
      /\ change'[c].tier = change[c].tier
  BY DEF VersionsFrom, ChangeFrom, Active
<1>2. contact'[m].ver = change[c].ver => contact'[m].tier = change[c].tier
  BY <1>1, ContactAgrees
<1>3. ASSUME NEW d \in Changers \ {c}, Active(d, m)'
      PROVE  change'[d].ver # change[c].ver
  BY <1>1, <1>3 DEF VersionInv, ChangeVersions, VersionsFrom, ChangeFrom, Active, At
<1>4. ASSUME NEW r \in Existing', job'[r].member = m
      PROVE  job'[r].ver # change[c].ver
  <2>1. CASE r \in Existing
    <3>1. job'[r] = job[r]
      BY <2>1 DEF VersionsFrom, RowsFrom
    <3> QED
      BY <1>1, <1>4, <2>1, <3>1 DEF VersionInv, ChangeVersions
  <2>2. CASE r \notin Existing
    <3>1. r = last + 1 /\ RowFrom(job'[r])
      BY <2>2, ExistingAfter DEF VersionsFrom, RowsFrom, Numbers
    <3>2. ASSUME NEW q \in Existing, job[q].member = m
          PROVE  job[q].ver # change[c].ver
      BY <1>1, <3>2 DEF VersionInv, ChangeVersions
    <3>3. ASSUME NEW d \in Changers, Active(d, m), At(d, "idle")'
          PROVE  change[d].ver # change[c].ver
      BY <1>1, <3>3 DEF VersionInv, ChangeVersions, Active, At
    <3> QED
      BY <1>4, <3>1, <3>2, <3>3 DEF RowFrom
  <2> QED
    BY <2>1, <2>2
<1>5. change[c].ver <= latest[m] /\ (change[c].ver = latest[m] => change[c].tier = tier[m])
  BY <1>1 DEF VersionInv, ChangeVersions
<1> QED
  BY <1>1, <1>2, <1>3, <1>4, <1>5

LEMMA VersionsKept ==
  ASSUME Numbers, VersionInv, VersionsFrom
  PROVE  VersionInv'
  BY ContactVersionsKept, RowVersionsKept, ChangeVersionsKept DEF VersionInv

-----------------------------------------------------------------------------
(* What a step must leave alone so that the newest version stays found.    *)

\* What the proofs of the steps start from.
Stepping == IInv /\ IInv' /\ Effects /\ TierInv

LEMMA SteppingFacts ==
  ASSUME Stepping
  PROVE  /\ Numbers /\ Numbers' /\ Grows /\ VersionInv
         /\ \A r \in Existing : job'[r] = job[r] /\ r \in Existing'
         /\ \A m \in Members : disturbed[m] => disturbed'[m]
<1>1. Numbers /\ Numbers' /\ Grows /\ VersionInv
  BY NumbersBefore, NumbersAfter DEF Stepping, Effects, TierInv, VersionInv
<1> QED
  BY <1>1, RowNumbers DEF Grows, Existing, Numbers

LEMMA LastBefore ==
  ASSUME Stepping, NEW r \in Existing, NEW m \in Members, IsLast(r, m)'
  PROVE  IsLast(r, m)
<1>1. /\ last \in Nat /\ last' \in Nat /\ MaxRows \in Nat
      /\ last <= MaxRows /\ last <= last'
      /\ \A s \in Existing : job'[s] = job[s]
  BY SteppingFacts DEF Numbers, Grows
<1>2. 1..last \subseteq 1..last' /\ \A s \in 1..last : s \in Existing
  BY <1>1 DEF Existing, Rows
<1>3. r \in 1..last
  BY <1>1 DEF Existing, Rows
<1> QED
  BY <1>1, <1>2, <1>3 DEF IsLast

\* The open row of an undisturbed member is its last one.
LEMMA OpenIsLast ==
  ASSUME IInv, NEW r \in Rows, Open(r), NEW m \in Members, job[r].member = m, ~disturbed[m]
  PROVE  /\ r \in Existing /\ IsLast(r, m)
         /\ \A s \in Existing : job[s].member = m =>
               s <= r /\ job[s].ver <= job[r].ver /\ (s # r => ~Open(s))
<1>1. Numbers /\ VersionsRise
  BY NumbersBefore DEF IInv, Bookkeeping
<1>2. r \in Existing
  BY <1>1 DEF Numbers, Open, Existing, Rows
<1>3. ASSUME NEW s \in Existing, job[s].member = m
      PROVE  s <= r /\ job[s].ver <= job[r].ver /\ (s # r => ~Open(s))
  <2>1. s \in Nat /\ r \in Nat /\ s \in Rows /\ s <= last /\ r <= last
    BY <1>2, RowNumbers DEF Existing
  <2>2. job[s].ver \in Nat /\ job[r].ver \in Nat
    BY <1>1, <2>1 DEF Numbers
  <2>3. ~(r < s)
    BY <1>1, <1>3, <2>1 DEF VersionsRise
  <2>4. s < r => ~Open(s) /\ job[s].ver <= job[r].ver
    BY <1>1, <1>3, <2>1 DEF VersionsRise
  <2> QED
    BY <2>1, <2>2, <2>3, <2>4
<1>4. IsLast(r, m)
  BY <1>1, <1>2, <1>3 DEF IsLast, Existing, Rows, Numbers
<1> QED
  BY <1>2, <1>3, <1>4

KeepsFollowing(m) ==
    /\ tier'[m] = tier[m] /\ latest'[m] = latest[m]
    /\ last' = last + 1 => job'[last + 1].member # m
    /\ \A c \in Changers :
          /\ Active(c, m) => /\ Active(c, m)'
                             /\ change'[c].ver = change[c].ver
                             /\ At(c, "enqueue") =>
                                   At(c, "enqueue")' /\ change'[c].seen = change[c].seen
          /\ Active(c, m)' => Active(c, m)
          /\ Meddles(c, m) => Meddles(c, m)'
    /\ \A r \in Existing : job[r].member = m /\ Open(r)' => Open(r)
    /\ \A r \in Existing : IsLast(r, m) =>
          /\ Open(r) => Open(r)' \/ status'[r] = "dead"
          /\ status[r] = "dead" => status'[r] = "dead"
    /\ AtHubSpot(m) =>
          \/ disturbed'[m]
          \/ /\ contact'[m].ver = contact[m].ver /\ contact'[m].tier = contact[m].tier
             /\ contact'[m].blank => contact[m].blank \/ \E c \in Changers : Meddles(c, m)'

LEMMA SameRows ==
  ASSUME Stepping, NEW m \in Members, last' = last + 1 => job'[last + 1].member # m
  PROVE  /\ \A r \in Existing' : job'[r].member = m => r \in Existing /\ job'[r] = job[r]
         /\ \A r \in Existing : IsLast(r, m) => IsLast(r, m)'
<1>1. /\ Numbers /\ Numbers' /\ Grows
      /\ \A r \in Existing : job'[r] = job[r] /\ r \in Existing'
  BY SteppingFacts
<1>2. ASSUME NEW r \in Existing', job'[r].member = m
      PROVE  r \in Existing /\ job'[r] = job[r]
  BY <1>1, <1>2, RowNumbers DEF Existing, Grows, Numbers
<1>3. ASSUME NEW r \in Existing, IsLast(r, m)
      PROVE  IsLast(r, m)'
  <2>1. r \in 1..last' /\ job'[r].member = m
    BY <1>1, <1>3 DEF IsLast, Grows, Numbers
  <2>2. ASSUME NEW s \in 1..last', job'[s].member = m
        PROVE  s <= r
    <3>1. s \in Existing'
      BY <1>1 DEF Existing, Numbers, Rows
    <3>2. s \in Existing /\ job[s].member = m
      BY <1>2, <2>2, <3>1
    <3> QED
      BY <1>1, <1>3, <3>2 DEF IsLast, Existing, Numbers, Rows
  <2> QED
    BY <2>1, <2>2 DEF IsLast
<1> QED
  BY <1>2, <1>3

LEMMA FollowingKept ==
  ASSUME Stepping, NEW m \in Members, KeepsFollowing(m)
  PROVE  Followed(m)'
<1>1. /\ \A r \in Existing' : job'[r].member = m => r \in Existing /\ job'[r] = job[r]
      /\ \A r \in Existing : IsLast(r, m) => IsLast(r, m)'
  BY SameRows DEF KeepsFollowing
<1>2. /\ Numbers /\ Numbers' /\ (disturbed[m] => disturbed'[m])
      /\ \A r \in Existing : job'[r] = job[r] /\ r \in Existing'
  BY SteppingFacts
<1>3. CASE WithItsRequest(m)
  BY <1>3 DEF WithItsRequest, KeepsFollowing, Followed
<1>4. CASE AtHubSpot(m) /\ ~disturbed'[m]
  <2>1. /\ contact'[m].ver = contact[m].ver /\ contact'[m].tier = contact[m].tier
        /\ contact'[m].blank => contact[m].blank \/ \E c \in Changers : Meddles(c, m)'
    BY <1>4 DEF KeepsFollowing
  <2>2. OpenRows(m)' = {}
    <3>1. ASSUME NEW r \in Rows, Open(r)', job'[r].member = m
          PROVE  FALSE
      <4>1. r \in Existing'
        BY <1>2, <3>1 DEF Numbers, Open, Existing, Rows
      <4>2. r \in Existing /\ job[r].member = m
        BY <1>1, <3>1, <4>1
      <4> QED
        BY <1>4, <3>1, <4>2 DEF KeepsFollowing, AtHubSpot, OpenRows
    <3> QED
      BY <3>1 DEF OpenRows
  <2>3. \A r \in Existing' : job'[r].member = m => job'[r].ver <= contact'[m].ver
    BY <1>1, <1>4, <2>1 DEF AtHubSpot
  <2>4. /\ contact'[m].tier = tier'[m]
        /\ \A c \in Changers : Active(c, m)' => change'[c].ver < contact'[m].ver
    BY <1>4, <2>1 DEF AtHubSpot, KeepsFollowing, NoneNewer
  <2>5. contact'[m].blank => \E c \in Changers : Meddles(c, m)'
    BY <1>4, <2>1 DEF AtHubSpot, KeepsFollowing
  <2> QED
    BY <2>2, <2>3, <2>4, <2>5 DEF AtHubSpot, Followed, NoneNewer
<1>5. ASSUME InLastRow(m) PROVE InLastRow(m)'
  <2>1. PICK r \in Existing :
           /\ IsLast(r, m)
           /\ job[r].tier = tier[m]
           /\ NoneNewer(m, job[r].ver)
           /\ \/ Open(r)
              \/ status[r] = "dead"
              \/ \E c \in Changers : Active(c, m) /\ At(c, "enqueue") /\ r <= change[c].seen
    BY <1>5 DEF InLastRow
  <2>2. /\ r \in Existing' /\ IsLast(r, m)' /\ job'[r] = job[r]
        /\ job'[r].tier = tier'[m]
    BY <1>1, <1>2, <2>1 DEF KeepsFollowing
  <2>3. \/ Open(r)'
        \/ status'[r] = "dead"
        \/ \E c \in Changers : Active(c, m)' /\ At(c, "enqueue")' /\ r <= change'[c].seen
    BY <2>1 DEF KeepsFollowing
  <2>4. \A c \in Changers : Active(c, m)' => change'[c].ver < job'[r].ver
    BY <2>1, <2>2 DEF KeepsFollowing, NoneNewer
  <2> QED
    BY <2>2, <2>3, <2>4 DEF InLastRow, NoneNewer
<1>6. CASE tier[m] \notin Listed
  BY <1>6 DEF KeepsFollowing, Followed
<1> QED
  BY <1>2, <1>3, <1>4, <1>5, <1>6 DEF Stepping, TierInv, Followed

\* Nothing happens to member m, except that its rows are claimed, fail, die or
\* are closed long after the last one.
Untouched(m) ==
    /\ tier'[m] = tier[m] /\ latest'[m] = latest[m] /\ contact'[m] = contact[m]
    /\ last' = last + 1 => job'[last + 1].member # m
    /\ \A c \in Changers :
          change'[c] = change[c] \/ ~(Active(c, m) \/ Active(c, m)')
    /\ \A r \in Existing : job[r].member = m =>
          \/ status'[r] = status[r]
          \/ Open(r) /\ status'[r] \in {"processing", "failed", "dead"}
          \/ ~IsLast(r, m) /\ status'[r] = "superseded"

LEMMA UntouchedFollows ==
  ASSUME NEW m \in Members, Untouched(m)
  PROVE  KeepsFollowing(m)
<1>1. \A c \in Changers :
         /\ Active(c, m) => /\ Active(c, m)'
                            /\ change'[c].ver = change[c].ver
                            /\ At(c, "enqueue") =>
                                  At(c, "enqueue")' /\ change'[c].seen = change[c].seen
         /\ Active(c, m)' => Active(c, m)
         /\ Meddles(c, m) => Meddles(c, m)'
  BY DEF Untouched, Active, Meddles, At
<1>2. \A r \in Existing : job[r].member = m /\ Open(r)' => Open(r)
  BY DEF Untouched, Open
<1>3. \A r \in Existing : IsLast(r, m) =>
         /\ Open(r) => Open(r)' \/ status'[r] = "dead"
         /\ status[r] = "dead" => status'[r] = "dead"
  BY DEF Untouched, Open, IsLast
<1> QED
  BY <1>1, <1>2, <1>3 DEF Untouched, KeepsFollowing

\* What keeps an answer standing.
KeepsAnswer(r, m) ==
    /\ disturbed'[m] \/ contact[m].ver <= contact'[m].ver
    /\ Open(r)' => Open(r)
    /\ \/ disturbed'[m]
       \/ ~Open(r)'
       \/ ~contact'[m].blank
       \/ \E c \in Changers : Active(c, m)' /\ Clearing(c)'
       \/ /\ contact[m].blank
          /\ \A c \in Changers : Active(c, m) /\ Clearing(c) => Active(c, m)' /\ Clearing(c)'

LEMMA AnswerKept ==
  ASSUME Stepping, NEW r \in Existing, NEW m \in Members, job[r].member = m,
         AnswerHolds(r), KeepsAnswer(r, m)
  PROVE  AnswerHolds(r)'
<1>1. /\ job'[r] = job[r]
      /\ disturbed[m] => disturbed'[m]
      /\ job[r].ver \in Nat /\ contact[m].ver \in Nat /\ contact'[m].ver \in Nat
  BY SteppingFacts DEF Numbers, Existing
<1>2. disturbed'[m] \/ job[r].ver <= contact'[m].ver
  BY <1>1 DEF AnswerHolds, KeepsAnswer
<1>3. \/ disturbed'[m] \/ ~Open(r)' \/ ~contact'[m].blank
      \/ \E c \in Changers : Active(c, m)' /\ Clearing(c)'
  BY <1>1 DEF AnswerHolds, KeepsAnswer
<1> QED
  BY <1>1, <1>2, <1>3 DEF AnswerHolds, Active

LEMMA UntouchedAnswers ==
  ASSUME Stepping, NEW r \in Existing, NEW m \in Members, job[r].member = m, Untouched(m)
  PROVE  KeepsAnswer(r, m)
<1>1. contact'[m] = contact[m] /\ contact[m].ver \in Nat
  BY SteppingFacts DEF Untouched, Numbers, Existing
<1>2. Open(r)' => Open(r)
  BY DEF Untouched, Open
<1>3. \A c \in Changers : Active(c, m) /\ Clearing(c) => Active(c, m)' /\ Clearing(c)'
  BY DEF Untouched, Active, Clearing, At
<1> QED
  BY <1>1, <1>2, <1>3 DEF KeepsAnswer

LEMMA ClosingKept ==
  ASSUME Stepping,
         \A r \in closing' \ closing :
            disturbed'[job'[r].member] \/ ~IsLast(r, job[r].member)'
  PROVE  ClosingNotLast'
<1> SUFFICES ASSUME NEW r \in closing'
             PROVE  disturbed'[job'[r].member] \/ ~IsLast(r, job[r].member)'
  BY DEF ClosingNotLast
<1>1. CASE r \in closing
  <2>1. r \in Existing
    BY <1>1 DEF Stepping, IInv, TypeOK, Bookkeeping, RowsConsistent, Existing
  <2>2. job'[r] = job[r] /\ job[r].member \in Members
    BY <2>1, SteppingFacts DEF Numbers, Existing
  <2>3. disturbed[job[r].member] \/ ~IsLast(r, job[r].member)
    BY <1>1 DEF Stepping, TierInv, ClosingNotLast
  <2> QED
    BY <2>1, <2>2, <2>3, LastBefore, SteppingFacts
<1> QED
  BY <1>1

\* The parts of TierInv, member by member and worker by worker.
LEMMA TierInvParts ==
  ASSUME Stepping, VersionInv',
         \A m \in Members : KeepsFollowing(m) \/ Followed(m)',
         \A w \in Workers : step'[w] = "answered" =>
            \/ ~ListedRow(now[w])'
            \/ AnswerHolds(now[w])'
            \/ /\ step[w] = "answered" /\ now'[w] = now[w]
               /\ \A r \in Existing, m \in Members :
                     now[w] = r /\ job[r].member = m /\ ListedRow(r) => KeepsAnswer(r, m),
         \A r \in closing' \ closing :
            disturbed'[job'[r].member] \/ ~IsLast(r, job[r].member)'
  PROVE  TierInv'
<1>1. \A m \in Members : Followed(m)'
  BY FollowingKept
<1>2. ASSUME NEW w \in Workers, step'[w] = "answered", ListedRow(now[w])'
      PROVE  AnswerHolds(now[w])'
  <2>1. CASE /\ step[w] = "answered" /\ now'[w] = now[w]
             /\ \A r \in Existing, m \in Members :
                   now[w] = r /\ job[r].member = m /\ ListedRow(r) => KeepsAnswer(r, m)
    <3>1. PICK r \in Existing, m \in Members :
             now[w] = r /\ job[r].member = m /\ ListedRow(r)
      <4>1. now[w] \in Existing /\ job[now[w]].member \in Members
        BY <2>1, RowInHand, NumbersBefore DEF Stepping, Existing, Numbers
      <4>2. ListedRow(now[w])
        BY <1>2, <2>1, <4>1, SteppingFacts DEF ListedRow
      <4> QED
        BY <4>1, <4>2
    <3>2. AnswerHolds(r)
      BY <2>1, <3>1 DEF Stepping, TierInv, AnswerStands
    <3>3. AnswerHolds(r)'
      BY <2>1, <3>1, <3>2, AnswerKept
    <3> QED
      BY <2>1, <3>1, <3>3 DEF AnswerHolds, Open
  <2> QED
    BY <1>2, <2>1
<1> QED
  BY <1>1, <1>2, ClosingKept DEF TierInv, VersionInv, AnswerStands

-----------------------------------------------------------------------------
(* Steps of the workers and of the startup that move neither contacts nor  *)
(* changes.                                                                *)

Unmoved == UNCHANGED <<tier, latest, contact, last, job, change>>

\* Rows are claimed, fail, die, or are closed when they are not the last.
RowsMove ==
    \A r \in Existing :
        \/ status'[r] = status[r]
        \/ Open(r) /\ status'[r] \in {"processing", "failed", "dead"}
        \/ status'[r] = "superseded"
           /\ (disturbed[job[r].member] \/ ~IsLast(r, job[r].member))

\* Nobody gets an answer from HubSpot.
NoNewAnswer ==
    \A w \in Workers : step'[w] = "answered" =>
        \/ job[now'[w]].tier \notin Listed
        \/ step[w] = "answered" /\ now'[w] = now[w]

LEMMA UnmovedVersions ==
  ASSUME Stepping, Unmoved
  PROVE  VersionInv'
<1>1. VersionsFrom
  BY DEF Unmoved, VersionsFrom, ContactFrom, ChangeFrom, RowsFrom, At
<1> QED
  BY <1>1, SteppingFacts, VersionsKept

LEMMA TableStep ==
  ASSUME Stepping, Unmoved, RowsMove, NoNewAnswer,
         \A r \in closing' \ closing :
            disturbed'[job'[r].member] \/ ~IsLast(r, job[r].member)'
  PROVE  TierInv'
<1>1. last' # last + 1
  BY NumbersBefore DEF Stepping, Numbers, Unmoved
<1>2. ASSUME NEW m \in Members
      PROVE  KeepsFollowing(m) \/ Followed(m)'
  <2>1. CASE disturbed[m]
    BY <2>1, SteppingFacts DEF Followed
  <2>2. CASE ~disturbed[m]
    <3>1. Untouched(m)
      BY <1>1, <2>2 DEF Unmoved, RowsMove, Untouched
    <3> QED
      BY <3>1, UntouchedFollows
  <2> QED
    BY <2>1, <2>2
<1>3. ASSUME NEW r \in Existing, NEW m \in Members, job[r].member = m
      PROVE  KeepsAnswer(r, m)
  <2>1. contact' = contact /\ contact[m].ver \in Nat /\ change' = change
    BY SteppingFacts DEF Unmoved, Numbers
  <2>2. Open(r)' => Open(r)
    BY DEF RowsMove, Open
  <2>3. \A c \in Changers : Active(c, m) /\ Clearing(c) => Active(c, m)' /\ Clearing(c)'
    BY <2>1 DEF Active, Clearing, At
  <2> QED
    BY <2>1, <2>2, <2>3 DEF KeepsAnswer
<1> QED
  BY <1>2, <1>3, UnmovedVersions, TierInvParts DEF NoNewAnswer, ListedRow, Unmoved

\* A step that touches neither rows nor closing.
LEMMA WorkerOnlyStep ==
  ASSUME Stepping, Unmoved, UNCHANGED <<status, closing>>, NoNewAnswer
  PROVE  TierInv'
  BY TableStep DEF RowsMove

LEMMA RecoverTier ==
  ASSUME Stepping, NEW w \in Workers, Recover(w)
  PROVE  TierInv'
<1>1. Unmoved /\ closing' = closing
  BY DEF Recover, Unmoved
<1>2. RowsMove
  BY DEF Recover, RowsMove, Stuck, Open, Existing
<1>3. NoNewAnswer
  BY DEF Recover, NoNewAnswer, Enter, Stepping, IInv, TypeOK
<1> QED
  BY <1>1, <1>2, <1>3, TableStep

LEMMA ClaimRowsMove ==
  ASSUME ClaimRows
  PROVE  RowsMove
  BY DEF ClaimRows, RowsMove, Claimable, Open, Existing

LEMMA ClaimTier ==
  ASSUME Stepping, NEW w \in Workers, Claim(w)
  PROVE  TierInv'
<1>1. Unmoved /\ closing' = closing /\ RowsMove
  BY ClaimRowsMove DEF Claim, ClaimRows, Unmoved
<1>2. NoNewAnswer
  BY DEF Claim, NoNewAnswer, Enter, Stepping, IInv, TypeOK
<1> QED
  BY <1>1, <1>2, TableStep

LEMMA ClaimAnswerLostTier ==
  ASSUME Stepping, NEW w \in Workers, ClaimAnswerLost(w)
  PROVE  TierInv'
<1>1. Unmoved /\ closing' = closing /\ RowsMove
  BY ClaimRowsMove DEF ClaimAnswerLost, ClaimRows, Unmoved
<1>2. NoNewAnswer
  BY DEF ClaimAnswerLost, NoNewAnswer, worker
<1> QED
  BY <1>1, <1>2, TableStep

LEMMA PushRefusedTier ==
  ASSUME Stepping, NEW w \in Workers, PushRefused(w)
  PROVE  TierInv'
<1>1. Unmoved /\ UNCHANGED <<status, closing>>
  BY DEF PushRefused, Unmoved, table
<1>2. NoNewAnswer
  BY DEF PushRefused, NoNewAnswer, Enter, Stepping, IInv, TypeOK
<1> QED
  BY <1>1, <1>2, WorkerOnlyStep

LEMMA MarkCompletedFailsTier ==
  ASSUME Stepping, NEW w \in Workers, MarkCompletedFails(w)
  PROVE  TierInv'
<1>1. Unmoved /\ UNCHANGED <<status, closing>>
  BY DEF MarkCompletedFails, Unmoved, table
<1>2. NoNewAnswer
  BY DEF MarkCompletedFails, NoNewAnswer, Enter, Stepping, IInv, TypeOK
<1> QED
  BY <1>1, <1>2, WorkerOnlyStep

\* The worker's next row is not in hand yet.
LEMMA NextJobAnswers ==
  ASSUME Stepping, NEW w \in Workers, NextJob(w)
  PROVE  NoNewAnswer
  BY DEF NextJob, NoNewAnswer, Enter, Stepping, IInv, TypeOK

LEMMA MarkRefusedTier ==
  ASSUME Stepping, NEW w \in Workers, MarkRefused(w)
  PROVE  TierInv'
<1>1. Unmoved /\ closing' = closing
  BY DEF MarkRefused, Unmoved
<1>2. RowsMove
  BY DEF MarkRefused, SetStatus, RowsMove, Open, Stepping, IInv, TypeOK, Existing
<1> QED
  BY <1>1, <1>2, NextJobAnswers, TableStep DEF MarkRefused

LEMMA MarkFailedTier ==
  ASSUME Stepping, NEW w \in Workers, MarkFailed(w)
  PROVE  TierInv'
<1>1. Unmoved /\ closing' = closing
  BY DEF MarkFailed, Unmoved
<1>2. SetStatus(now[w], "failed") \/ SetStatus(now[w], "dead")
  BY DEF MarkFailed
<1>3. RowsMove
  BY <1>2 DEF SetStatus, RowsMove, Open, Stepping, IInv, TypeOK, Existing
<1> QED
  BY <1>1, <1>3, NextJobAnswers, TableStep DEF MarkFailed

LEMMA BatchAbandonedTier ==
  ASSUME Stepping, NEW w \in Workers, BatchAbandoned(w)
  PROVE  TierInv'
<1>1. Unmoved /\ UNCHANGED <<status, closing>>
  BY DEF BatchAbandoned, Unmoved, table
<1>2. NoNewAnswer
  BY DEF BatchAbandoned, NoNewAnswer, Enter, Stepping, IInv, TypeOK
<1> QED
  BY <1>1, <1>2, WorkerOnlyStep

LEMMA TimeTier ==
  ASSUME Stepping, NEW r \in Rows, RetryDue(r) \/ GrowsOld(r) \/ Stalls(r)
  PROVE  TierInv'
<1>1. Unmoved /\ UNCHANGED <<status, closing>> /\ NoNewAnswer
  BY DEF RetryDue, GrowsOld, Stalls, Unmoved, NoNewAnswer, worker
<1> QED
  BY <1>1, WorkerOnlyStep

LEMMA RequeueInterruptedTier ==
  ASSUME Stepping, NEW r \in Rows, RequeueInterrupted(r)
  PROVE  TierInv'
<1>1. Unmoved /\ RowsMove /\ NoNewAnswer /\ closing' \subseteq closing
  BY DEF RequeueInterrupted, Unmoved, RowsMove, NoNewAnswer, worker, table
<1> QED
  BY <1>1, TableStep

LEMMA RequeueRefusedTier ==
  ASSUME Stepping, NEW r \in Rows, RequeueRefused(r)
  PROVE  TierInv'
<1>1. Unmoved /\ RowsMove /\ NoNewAnswer /\ closing' = closing \cup {r}
  BY DEF RequeueRefused, Unmoved, RowsMove, NoNewAnswer, worker, table
<1>2. disturbed'[job'[r].member]
  <2>1. job' = job /\ job[r].member \in Members
    BY <1>1, SteppingFacts DEF Unmoved, Numbers
  <2> QED
    BY <2>1 DEF RequeueRefused, Record, Stepping, IInv, TypeOK
<1> QED
  BY <1>1, <1>2, TableStep

LEMMA CloseDeadTier ==
  ASSUME Stepping, NEW r \in Rows, CloseDead(r)
  PROVE  TierInv'
<1>1. Unmoved /\ NoNewAnswer /\ closing' \subseteq closing
  BY DEF CloseDead, Unmoved, NoNewAnswer, worker
<1>2. disturbed[job[r].member] \/ ~IsLast(r, job[r].member)
  BY DEF CloseDead, Stepping, TierInv, ClosingNotLast
<1>3. RowsMove
  BY <1>2 DEF CloseDead, RowsMove, Stepping, IInv, TypeOK, Existing
<1> QED
  BY <1>1, <1>3, TableStep

-----------------------------------------------------------------------------
(* Requests of the workers to HubSpot.                                     *)

\* A worker comes too late for a member HubSpot is up to date about, or whose
\* open row another worker has its answer for.
LEMMA ComesTooLate ==
  ASSUME Stepping, NEW w \in Workers, NEW r \in Existing, NEW m \in Members,
         job[r].member = m, ~disturbed[m],
         \/ AtHubSpot(m)
         \/ \E v \in Workers \ {w} :
               /\ step[v] = "answered" /\ now[v] \in Rows /\ ListedRow(now[v])
               /\ job[now[v]].member = m /\ Open(now[v])
  PROVE  Overtaken(w, r)
<1>1. /\ r \in Rows /\ job[r].ver \in Nat /\ contact[m].ver \in Nat /\ Numbers
      /\ IInv
  BY SteppingFacts DEF Numbers, Existing, Stepping
<1>2. CASE AtHubSpot(m)
  <2>1. job[r].ver <= contact[m].ver /\ status[r] # "processing"
    BY <1>1, <1>2 DEF AtHubSpot, OpenRows, Open
  <2> QED
    BY <1>1, <2>1 DEF Overtaken
<1>3. ASSUME NEW v \in Workers \ {w}, step[v] = "answered", now[v] \in Rows, ListedRow(now[v]),
             job[now[v]].member = m, Open(now[v])
      PROVE  Overtaken(w, r)
  <2>1. AnswerHolds(now[v]) /\ job[now[v]].ver \in Nat
    BY <1>1, <1>3 DEF Stepping, TierInv, AnswerStands, Numbers
  <2>2. job[r].ver <= job[now[v]].ver /\ (r # now[v] => ~Open(r))
    BY <1>1, <1>3, OpenIsLast
  <2>3. job[r].ver <= contact[m].ver
    BY <1>1, <1>3, <2>1, <2>2 DEF AnswerHolds
  <2>4. r = now[v] => r \in claimed[v]
    BY <1>1, <1>3 DEF IInv, Bookkeeping, WorkersConsistent
  <2>5. r # now[v] => status[r] # "processing"
    BY <2>2 DEF Open
  <2> QED
    BY <1>1, <2>3, <2>4, <2>5 DEF Overtaken
<1> QED
  BY <1>2, <1>3

LEMMA PushStep ==
  ASSUME Stepping, NEW w \in Workers, NEW r \in Existing, NEW m \in Members,
         job[r].member = m,
         UNCHANGED <<tier, latest, table, change, closing>>,
         \A n \in Members : n # m => contact'[n] = contact[n],
         Overtaken(w, r) => disturbed'[m],
         \/ contact'[m].ver = contact[m].ver /\ contact'[m].tier = contact[m].tier
         \/ /\ contact'[m].ver = job[r].ver /\ contact'[m].tier = job[r].tier
            /\ ~contact'[m].blank,
         \A v \in Workers : step'[v] = "answered" =>
            \/ AnswerHolds(now[v])'
            \/ v # w /\ step[v] = "answered" /\ now'[v] = now[v]
  PROVE  TierInv'
<1>1. /\ Numbers /\ IInv /\ VersionInv
      /\ disturbed[m] => disturbed'[m]
      /\ last' # last + 1
      /\ r \in Rows /\ job[r].ver \in Nat /\ contact[m].ver \in Nat /\ contact'[m].ver \in Nat
  BY SteppingFacts DEF Numbers, Existing, Stepping, table
<1>2. VersionInv'
  <2>1. \A n \in Members : ContactFrom(n)
    BY DEF ContactFrom
  <2>2. RowsFrom /\ \A c \in Changers : ChangeFrom(c)
    BY DEF RowsFrom, ChangeFrom, table, At
  <2> QED
    BY <1>1, <2>1, <2>2, VersionsKept DEF VersionsFrom
<1>3. ASSUME NEW n \in Members, n # m
      PROVE  Untouched(n)
  BY <1>1, <1>3 DEF Untouched, table
<1>4. KeepsFollowing(m) \/ Followed(m)'
  <2>1. AtHubSpot(m) => disturbed'[m]
    BY <1>1, ComesTooLate
  <2>2. \A c \in Changers :
           /\ Active(c, m) => /\ Active(c, m)'
                              /\ change'[c].ver = change[c].ver
                              /\ At(c, "enqueue") =>
                                    At(c, "enqueue")' /\ change'[c].seen = change[c].seen
           /\ Active(c, m)' => Active(c, m)
           /\ Meddles(c, m) => Meddles(c, m)'
    BY DEF Active, Meddles, At
  <2>3. \A q \in Existing : (Open(q)' <=> Open(q)) /\ status'[q] = status[q]
    BY DEF Open, table
  <2> QED
    BY <1>1, <2>1, <2>2, <2>3 DEF KeepsFollowing
<1>5. ASSUME NEW v \in Workers, v # w, step[v] = "answered",
             NEW q \in Existing, now[v] = q, job[q].member = m, ListedRow(q)
      PROVE  KeepsAnswer(q, m)
  <2>1. disturbed'[m] \/ contact[m].ver <= contact'[m].ver
    BY <1>1 DEF Overtaken
  <2>2. Open(q)' <=> Open(q)
    BY DEF Open, table
  <2>3. disturbed'[m] \/ ~Open(q)
    BY <1>1, <1>5, ComesTooLate DEF Existing
  <2> QED
    BY <2>1, <2>2, <2>3 DEF KeepsAnswer
<1>6. ASSUME NEW v \in Workers, v # w, step[v] = "answered", NEW n \in Members,
             NEW q \in Existing, now[v] = q, job[q].member = n, ListedRow(q)
      PROVE  KeepsAnswer(q, n)
  BY <1>3, <1>5, <1>6, UntouchedAnswers
<1> QED
  BY <1>2, <1>3, <1>4, <1>6, UntouchedFollows, TierInvParts

LEMMA ClearKeeps ==
  ASSUME ContactType, NEW m \in Members, Clear(m)
  PROVE  /\ \A n \in Members : n # m => contact'[n] = contact[n]
         /\ contact'[m].ver = contact[m].ver /\ contact'[m].tier = contact[m].tier
         /\ contact'[m].blank
  BY DEF ContactType, Clear

LEMMA PushSkipsTier ==
  ASSUME Stepping, NEW w \in Workers, NEW r \in Rows, PushSkips(w, r)
  PROVE  TierInv'
<1>1. Unmoved /\ UNCHANGED <<status, closing>>
  BY DEF PushSkips, Unmoved, table
<1>2. NoNewAnswer
  BY DEF PushSkips, NoNewAnswer, Enter, Stepping, IInv, TypeOK
<1> QED
  BY <1>1, <1>2, WorkerOnlyStep

LEMMA PushClearTier ==
  ASSUME Stepping, NEW w \in Workers, NEW r \in Rows, PushClear(w, r)
  PROVE  TierInv'
<1> DEFINE m == job[r].member
<1>1. r \in Existing /\ m \in Members
  BY SteppingFacts DEF PushClear, Stepping, IInv, Bookkeeping, WorkersConsistent, Existing, Numbers
<1>2. /\ \A n \in Members : n # m => contact'[n] = contact[n]
      /\ contact'[m].ver = contact[m].ver /\ contact'[m].tier = contact[m].tier
  BY <1>1, ClearKeeps DEF PushClear, Stepping, IInv, TypeOK, ContactType
<1>3. Overtaken(w, r) => disturbed'[m]
  BY <1>1 DEF PushClear, Record, Stepping, IInv, TypeOK
<1>4. \A v \in Workers : step'[v] = "answered" =>
         v # w /\ step[v] = "answered" /\ now'[v] = now[v]
  BY DEF PushClear, Enter, Stepping, IInv, TypeOK
<1>5. UNCHANGED <<tier, latest, table, change, closing>>
  BY DEF PushClear
<1> QED
  BY <1>1, <1>2, <1>3, <1>4, <1>5, PushStep

LEMMA PushWriteFacts ==
  ASSUME Stepping, NEW w \in Workers, step[w] = "cleared", PushWrite(w)
  PROVE  LET r == now[w]
             m == job[now[w]].member
         IN  /\ r \in Existing /\ m \in Members
             /\ \A n \in Members : n # m => contact'[n] = contact[n]
             /\ contact'[m].ver = job[r].ver /\ contact'[m].tier = job[r].tier
             /\ ~contact'[m].blank
             /\ Overtaken(w, r) => disturbed'[m]
<1>1. now[w] \in Existing /\ job[now[w]].member \in Members
  BY RowInHand, SteppingFacts DEF Stepping, Existing, Numbers
<1> QED
  BY <1>1 DEF PushWrite, Write, Record, Stepping, IInv, TypeOK

LEMMA PushSucceedsTier ==
  ASSUME Stepping, NEW w \in Workers, PushSucceeds(w)
  PROVE  TierInv'
<1> DEFINE r == now[w]
           m == job[now[w]].member
<1>1. /\ r \in Existing /\ m \in Members
      /\ \A n \in Members : n # m => contact'[n] = contact[n]
      /\ contact'[m].ver = job[r].ver /\ contact'[m].tier = job[r].tier
      /\ ~contact'[m].blank
      /\ Overtaken(w, r) => disturbed'[m]
  BY PushWriteFacts DEF PushSucceeds
<1>2. UNCHANGED <<tier, latest, table, change, closing, now, job>>
  BY DEF PushSucceeds, table
<1>3. AnswerHolds(now[w])'
  <2>1. job[r].ver \in Nat
    BY <1>1, SteppingFacts DEF Numbers, Existing
  <2> QED
    BY <1>1, <1>2, <2>1 DEF AnswerHolds
<1>4. \A v \in Workers : v # w => step'[v] = step[v]
  BY DEF PushSucceeds, Enter, Stepping, IInv, TypeOK
<1> QED
  BY <1>1, <1>2, <1>3, <1>4, PushStep

LEMMA PushFailsTier ==
  ASSUME Stepping, NEW w \in Workers, PushFails(w)
  PROVE  TierInv'
<1> DEFINE r == now[w]
           m == job[now[w]].member
<1>1. UNCHANGED <<tier, latest, table, change, closing, now, job, status, last>>
  BY DEF PushFails, table
<1>2. \A v \in Workers : step'[v] = "answered" => v # w /\ step[v] = "answered"
  BY DEF PushFails, Enter, Stepping, IInv, TypeOK
<1>3. CASE PushWrite(w)
  <2>1. /\ r \in Existing /\ m \in Members
        /\ \A n \in Members : n # m => contact'[n] = contact[n]
        /\ contact'[m].ver = job[r].ver /\ contact'[m].tier = job[r].tier
        /\ ~contact'[m].blank
        /\ Overtaken(w, r) => disturbed'[m]
    BY <1>3, PushWriteFacts DEF PushFails
  <2> QED
    BY <1>1, <1>2, <2>1, PushStep
<1>4. CASE UNCHANGED <<contact, disturbed, landed>>
  BY <1>1, <1>2, <1>4, WorkerOnlyStep DEF Unmoved, NoNewAnswer
<1> QED
  BY <1>3, <1>4 DEF PushFails

LEMMA MarkCompletedTier ==
  ASSUME Stepping, NEW w \in Workers, MarkCompleted(w)
  PROVE  TierInv'
<1> SUFFICES ASSUME NEW r \in Existing, NEW m \in Members,
                    now[w] = r, job[r].member = m
             PROVE  TierInv'
  BY RowInHand, SteppingFacts DEF MarkCompleted, Stepping, Existing, Numbers
<1>1. Numbers /\ IInv /\ VersionInv /\ r \in Rows
  BY SteppingFacts DEF Stepping, Existing
<1>2. Unmoved /\ closing' = closing /\ NoNewAnswer
  BY NextJobAnswers DEF MarkCompleted, Unmoved
<1>3. /\ \A q \in Rows : q # r => status'[q] = status[q]
      /\ status'[r] = IF status[r] = "processing" THEN "completed" ELSE status[r]
  BY <1>1 DEF MarkCompleted, SetStatus, Stepping, IInv, TypeOK, Existing
<1>4. ASSUME NEW n \in Members, n # m
      PROVE  Untouched(n)
  BY <1>1, <1>2, <1>3, <1>4 DEF Untouched, Unmoved, Numbers, Existing
<1>5. KeepsFollowing(m) \/ Followed(m)'
  <2>1. CASE status[r] # "processing"
    <3>1. Untouched(m)
      BY <1>1, <1>2, <1>3, <2>1 DEF Untouched, Unmoved, Numbers, Existing
    <3> QED
      BY <1>1, <3>1, UntouchedFollows
  <2>2. CASE disturbed[m]
    BY <1>1, <2>2, SteppingFacts DEF Followed
  <2>3. CASE status[r] = "processing" /\ ~disturbed[m]
    <3>1. Open(r)
      BY <2>3 DEF Open
    <3>2. /\ IsLast(r, m)
          /\ \A s \in Existing : job[s].member = m =>
                s <= r /\ job[s].ver <= job[r].ver /\ (s # r => ~Open(s))
      BY <1>1, <2>3, <3>1, OpenIsLast DEF Existing
    <3>3. CASE tier[m] \notin Listed
      BY <1>2, <3>3 DEF Unmoved, Followed
    <3>4. CASE WithItsRequest(m)
      BY <1>2, <3>4 DEF WithItsRequest, Unmoved, Followed, Active, At
    <3>5. CASE AtHubSpot(m)
      BY <1>1, <3>1, <3>5 DEF AtHubSpot, OpenRows, Existing
    <3>6. CASE InLastRow(m) /\ tier[m] \in Listed
      <4>1. PICK s \in Existing : IsLast(s, m) /\ job[s].tier = tier[m] /\ NoneNewer(m, job[s].ver)
        BY <3>6 DEF InLastRow
      <4>2. s = r
        <5>1. s \in 1..last /\ r \in 1..last /\ s \in Nat /\ r \in Nat
          BY <3>2, <4>1, RowNumbers DEF IsLast, Existing
        <5> QED
          BY <3>2, <4>1, <5>1 DEF IsLast
      <4>3. /\ job[r].ver <= contact[m].ver
            /\ ~contact[m].blank \/ \E c \in Changers : Meddles(c, m)
        <5>1. AnswerHolds(r)
          BY <3>6, <4>1, <4>2 DEF MarkCompleted, Stepping, TierInv, AnswerStands, ListedRow
        <5> QED
          BY <2>3, <3>1, <5>1 DEF AnswerHolds, Meddles, Clearing, At
      <4>4. contact[m].ver = job[r].ver
        BY <1>1, <2>3, <3>1, <4>3 DEF IInv, NoStaleRetry, Numbers, Existing
      <4>5. contact[m].tier = job[r].tier
        BY <1>1, <4>4 DEF VersionInv, RowVersions
      <4>6. job[r].tier = tier[m] /\ NoneNewer(m, contact[m].ver)
        BY <4>1, <4>2, <4>4
      <4>7. OpenRows(m)' = {}
        <5>1. \A q \in Rows : Open(q) => q \in Existing
          BY <1>1, RowNumbers DEF Open, Existing, Numbers
        <5>2. ASSUME NEW q \in Rows, Open(q)', job'[q].member = m
              PROVE  FALSE
          BY <1>2, <1>3, <2>3, <3>2, <5>1, <5>2 DEF Open, Unmoved
        <5> QED
          BY <5>2 DEF OpenRows
      <4>8. Existing' = Existing /\ UNCHANGED <<contact, job, tier, change>>
        BY <1>2 DEF Unmoved, Existing
      <4>9. \A q \in Existing : job[q].member = m => job[q].ver <= contact[m].ver
        BY <3>2, <4>4
      <4> QED
        BY <4>3, <4>5, <4>6, <4>7, <4>8, <4>9
           DEF AtHubSpot, Followed, NoneNewer, Meddles, Active, At
    <3> QED
      BY <1>1, <2>3, <3>3, <3>4, <3>5, <3>6 DEF Stepping, TierInv, Followed
  <2> QED
    BY <2>1, <2>2, <2>3
<1>6. ASSUME NEW q \in Existing, NEW n \in Members, job[q].member = n
      PROVE  KeepsAnswer(q, n)
  <2>1. contact' = contact /\ contact[n].ver \in Nat /\ change' = change
    BY <1>1, <1>2 DEF Unmoved, Numbers
  <2>2. Open(q)' => Open(q)
    BY <1>1, <1>3 DEF Open, Existing
  <2>3. \A c \in Changers : Active(c, n) /\ Clearing(c) => Active(c, n)' /\ Clearing(c)'
    BY <2>1 DEF Active, Clearing, At
  <2> QED
    BY <2>1, <2>2, <2>3 DEF KeepsAnswer
<1> QED
  BY <1>2, <1>4, <1>5, <1>6, UnmovedVersions, UntouchedFollows, TierInvParts
     DEF NoNewAnswer, ListedRow, Unmoved

-----------------------------------------------------------------------------
(* Steps of the requests that change a tier.                               *)

\* A step of request c concerns its member alone.
LEMMA RequestStep ==
  ASSUME Stepping, VersionsFrom, NEW c \in Changers, NEW m \in Members, change[c].member = m,
         UNCHANGED <<step, now, closing>>,
         \A d \in Changers : d # c => change'[d] = change[d],
         change'[c].at = "idle" \/ change'[c].member = m,
         \A n \in Members : n # m => contact'[n] = contact[n],
         \A r \in Existing : job[r].member # m => status'[r] = status[r],
         last' = last + 1 => job'[last + 1].member = m,
         KeepsFollowing(m) \/ Followed(m)',
         \A q \in Existing : job[q].member = m => KeepsAnswer(q, m)
  PROVE  TierInv'
<1>1. VersionInv'
  BY SteppingFacts, VersionsKept
<1>2. ASSUME NEW n \in Members, n # m
      PROVE  Untouched(n)
  BY <1>2 DEF VersionsFrom, Untouched, Active, At
<1>3. ASSUME NEW q \in Existing, NEW n \in Members, job[q].member = n
      PROVE  KeepsAnswer(q, n)
  BY <1>2, <1>3, UntouchedAnswers
<1> QED
  BY <1>1, <1>2, <1>3, UntouchedFollows, TierInvParts

\* The request goes on: nobody loses its newest version.
StaysActive(c, m) ==
    /\ At(c, "direct") \/ At(c, "cleared")
    /\ ~At(c, "idle")' /\ ~At(c, "direct")'
    /\ change'[c].member = m
    /\ change'[c].ver = change[c].ver
    /\ change'[c].tier = change[c].tier
    /\ \A d \in Changers : d # c => change'[d] = change[d]

LEMMA GoesOn ==
  ASSUME Stepping, NEW c \in Changers, NEW m \in Members, change[c].member = m,
         StaysActive(c, m), UNCHANGED <<tier, latest, last, job, status>>,
         AtHubSpot(m) => \/ disturbed'[m]
                         \/ /\ contact'[m].ver = contact[m].ver
                            /\ contact'[m].tier = contact[m].tier
  PROVE  KeepsFollowing(m)
<1>1. last' # last + 1
  BY SteppingFacts DEF Numbers
<1>2. \A d \in Changers :
         /\ Active(d, m) => /\ Active(d, m)'
                            /\ change'[d].ver = change[d].ver
                            /\ At(d, "enqueue") =>
                                  At(d, "enqueue")' /\ change'[d].seen = change[d].seen
         /\ Active(d, m)' => Active(d, m)
         /\ Meddles(d, m) => Meddles(d, m)'
  BY DEF StaysActive, Active, Meddles, At
<1>3. \A r \in Existing : Open(r)' <=> Open(r)
  BY DEF Open
<1>4. Meddles(c, m)'
  BY DEF StaysActive, Active, Meddles
<1> QED
  BY <1>1, <1>2, <1>3, <1>4 DEF KeepsFollowing

LEMMA RequestFacts ==
  ASSUME Stepping, NEW c \in Changers
  PROVE  /\ change[c].member \in Members /\ change[c].ver \in Nat /\ change[c].tier \in Tiers
         /\ contact \in [Members -> [ver : Nat, tier : Tiers, blank : BOOLEAN]]
         /\ change \in [Changers -> Change]
         /\ disturbed \in [Members -> BOOLEAN]
         /\ last + 1 # last
  BY SteppingFacts DEF Stepping, IInv, TypeOK, Change, Numbers

LEMMA DirectClearTier ==
  ASSUME Stepping, NEW c \in Changers, DirectClear(c)
  PROVE  TierInv'
<1> SUFFICES ASSUME NEW m \in Members, change[c].member = m
             PROVE  TierInv'
  BY RequestFacts
<1>1. /\ change'[c].at = "cleared" /\ change'[c].member = m
      /\ change'[c].ver = change[c].ver /\ change'[c].tier = change[c].tier
      /\ \A d \in Changers : d # c => change'[d] = change[d]
  BY RequestFacts DEF DirectClear, Goto, Change
<1>2. /\ \A n \in Members : n # m => contact'[n] = contact[n]
      /\ contact'[m].ver = contact[m].ver /\ contact'[m].tier = contact[m].tier
  BY RequestFacts, ClearKeeps DEF DirectClear, ContactType
<1>3. UNCHANGED <<tier, latest, last, job, status, step, now, closing, disturbed>>
  BY DEF DirectClear, table, worker
<1>4. StaysActive(c, m)
  BY <1>1 DEF StaysActive, DirectClear, At
<1>5. VersionsFrom
  BY <1>1, <1>2, <1>3 DEF VersionsFrom, ContactFrom, ChangeFrom, RowsFrom, DirectClear, At
<1>6. KeepsFollowing(m)
  BY <1>2, <1>3, <1>4, GoesOn
<1>7. Active(c, m)' /\ Clearing(c)'
  BY <1>1 DEF Active, Clearing, At
<1>8. ASSUME NEW q \in Existing
      PROVE  KeepsAnswer(q, m)
  <2>1. (Open(q)' => Open(q)) /\ contact[m].ver \in Nat
    BY <1>3, RequestFacts DEF Open
  <2> QED
    BY <1>2, <1>7, <2>1 DEF KeepsAnswer
<1> QED
  BY <1>1, <1>2, <1>3, <1>5, <1>6, <1>8, RequestFacts, RequestStep

LEMMA DirectWriteFacts ==
  ASSUME Stepping, NEW c \in Changers, NEW m \in Members, change[c].member = m,
         ~At(c, "idle"), DirectWrite(c)
  PROVE  /\ \A n \in Members : n # m => contact'[n] = contact[n]
         /\ contact'[m].ver = change[c].ver /\ contact'[m].tier = change[c].tier
         /\ ~contact'[m].blank
         /\ contact[m].ver > change[c].ver \/ Bypassed(c) => disturbed'[m]
         /\ \A n \in Members : ContactFrom(n)
         /\ AtHubSpot(m) => disturbed'[m]
<1>1. /\ \A n \in Members : n # m => contact'[n] = contact[n]
      /\ contact'[m].ver = change[c].ver /\ contact'[m].tier = change[c].tier
      /\ ~contact'[m].blank
      /\ contact[m].ver > change[c].ver \/ Bypassed(c) => disturbed'[m]
  BY RequestFacts DEF DirectWrite, Write, Record
<1>2. Active(c, m)
  BY DEF Active
<1>3. \A n \in Members : ContactFrom(n)
  BY <1>1, <1>2 DEF ContactFrom
<1>4. AtHubSpot(m) => disturbed'[m]
  BY <1>1, <1>2, RequestFacts DEF AtHubSpot, NoneNewer
<1> QED
  BY <1>1, <1>3, <1>4

\* HubSpot gets what the direct write carries, or a later version was there.
LEMMA DirectAnswers ==
  ASSUME Stepping, NEW c \in Changers, NEW m \in Members, change[c].member = m,
         contact'[m].ver = change[c].ver, ~contact'[m].blank,
         contact[m].ver > change[c].ver => disturbed'[m],
         status' = status, NEW q \in Existing
  PROVE  KeepsAnswer(q, m)
<1>1. contact[m].ver \in Nat /\ change[c].ver \in Nat
  BY RequestFacts
<1>2. Open(q)' => Open(q)
  BY DEF Open
<1> QED
  BY <1>1, <1>2 DEF KeepsAnswer

LEMMA DirectFailsTier ==
  ASSUME Stepping, NEW c \in Changers, DirectFails(c)
  PROVE  TierInv'
<1> SUFFICES ASSUME NEW m \in Members, change[c].member = m
             PROVE  TierInv'
  BY RequestFacts
<1>1. /\ change'[c].at = "supersede" /\ change'[c].member = m
      /\ change'[c].ver = change[c].ver /\ change'[c].tier = change[c].tier
      /\ \A d \in Changers : d # c => change'[d] = change[d]
      /\ ~At(c, "idle")
  BY RequestFacts DEF DirectFails, Goto, Change, At
<1>2. UNCHANGED <<tier, latest, last, job, status, step, now, closing>>
  BY DEF DirectFails, table, worker
<1>3. StaysActive(c, m)
  BY <1>1 DEF StaysActive, DirectFails, At
<1>4. RowsFrom /\ \A d \in Changers : ChangeFrom(d)
  BY <1>1, <1>2 DEF ChangeFrom, RowsFrom, At
<1>5. CASE DirectWrite(c)
  <2>1. /\ \A n \in Members : n # m => contact'[n] = contact[n]
        /\ contact'[m].ver = change[c].ver /\ contact'[m].tier = change[c].tier
        /\ ~contact'[m].blank
        /\ contact[m].ver > change[c].ver \/ Bypassed(c) => disturbed'[m]
        /\ \A n \in Members : ContactFrom(n)
        /\ AtHubSpot(m) => disturbed'[m]
    BY <1>1, <1>5, DirectWriteFacts
  <2>2. VersionsFrom
    BY <1>2, <1>4, <2>1 DEF VersionsFrom
  <2>3. KeepsFollowing(m)
    BY <1>2, <1>3, <2>1, GoesOn
  <2>4. \A q \in Existing : KeepsAnswer(q, m)
    BY <1>2, <2>1, DirectAnswers
  <2> QED
    BY <1>1, <1>2, <2>1, <2>2, <2>3, <2>4, RequestFacts, RequestStep
<1>6. CASE UNCHANGED <<contact, disturbed>>
  <2>1. VersionsFrom
    BY <1>2, <1>4, <1>6 DEF VersionsFrom, ContactFrom
  <2>2. KeepsFollowing(m)
    BY <1>2, <1>3, <1>6, GoesOn
  <2>3. Active(c, m)' /\ Clearing(c)'
    BY <1>1 DEF Active, Clearing, At
  <2>4. ASSUME NEW q \in Existing
        PROVE  KeepsAnswer(q, m)
    <3>1. (Open(q)' => Open(q)) /\ contact[m].ver \in Nat
      BY <1>2, RequestFacts DEF Open
    <3> QED
      BY <1>6, <2>3, <3>1 DEF KeepsAnswer
  <2> QED
    BY <1>1, <1>2, <1>6, <2>1, <2>2, <2>4, RequestFacts, RequestStep
<1> QED
  BY <1>5, <1>6 DEF DirectFails

\* A newest version in the last row stays there when request c ends, unless
\* only c's insert can still follow that row.
LEMMA LastRowKept ==
  ASSUME Stepping, NEW c \in Changers, NEW m \in Members,
         UNCHANGED <<tier, last, job, status>>,
         At(c, "idle")', \A d \in Changers : d # c => change'[d] = change[d],
         NEW r \in Existing, IsLast(r, m), job[r].tier = tier[m], NoneNewer(m, job[r].ver),
         \/ Open(r)
         \/ status[r] = "dead"
         \/ \E d \in Changers : Active(d, m) /\ At(d, "enqueue") /\ r <= change[d].seen,
         At(c, "enqueue") => Open(r)
  PROVE  InLastRow(m)'
<1>1. r \in Existing' /\ IsLast(r, m)' /\ job'[r].tier = tier'[m]
  BY DEF Existing, IsLast
<1>2. ASSUME NEW d \in Changers, Active(d, m)'
      PROVE  d # c /\ Active(d, m) /\ change'[d] = change[d]
  BY <1>2 DEF Active, At
<1>3. \A d \in Changers : Active(d, m)' => change'[d].ver < job'[r].ver
  BY <1>2 DEF NoneNewer
<1>4. \/ Open(r)'
      \/ status'[r] = "dead"
      \/ \E d \in Changers : Active(d, m)' /\ At(d, "enqueue")' /\ r <= change'[d].seen
  <2>1. (Open(r) => Open(r)') /\ status'[r] = status[r]
    BY DEF Open
  <2>2. ASSUME NEW d \in Changers, Active(d, m), At(d, "enqueue"), r <= change[d].seen
        PROVE  \/ Open(r)'
               \/ Active(d, m)' /\ At(d, "enqueue")' /\ r <= change'[d].seen
    BY <2>1, <2>2 DEF Active, At
  <2> QED
    BY <2>1, <2>2
<1> QED
  BY <1>1, <1>3, <1>4 DEF InLastRow, NoneNewer

\* The other request that carries the newest version still does.
LEMMA CarrierKept ==
  ASSUME NEW c \in Changers, NEW m \in Members, WithItsRequest(m),
         ~Active(c, m) \/ change[c].ver # latest[m], UNCHANGED latest,
         \A d \in Changers : d # c => change'[d] = change[d]
  PROVE  WithItsRequest(m)'
<1>1. PICK d \in Changers : Active(d, m) /\ change[d].ver = latest[m]
  BY DEF WithItsRequest
<1>2. d # c /\ Active(d, m)' /\ change'[d].ver = latest'[m]
  BY <1>1 DEF Active, At
<1> QED
  BY <1>2 DEF WithItsRequest

\* The other requests of the carrier's member have smaller versions.
LEMMA CarrierNewest ==
  ASSUME Stepping, NEW c \in Changers, NEW m \in Members, Active(c, m),
         change[c].ver = latest[m]
  PROVE  /\ change[c].tier = tier[m]
         /\ \A d \in Changers \ {c} : Active(d, m) => change[d].ver < latest[m]
         /\ \A r \in Existing : job[r].member = m => job[r].ver < latest[m]
<1>1. VersionInv /\ Numbers
  BY SteppingFacts
<1>2. change[c].member = m /\ ~At(c, "idle") /\ change[c].tier = tier[m]
  BY <1>1 DEF VersionInv, ChangeVersions, Active
<1>3. ASSUME NEW d \in Changers \ {c}, Active(d, m)
      PROVE  change[d].ver < latest[m]
  <2>1. change[d].ver <= latest[m] /\ change[d].ver # change[c].ver
    BY <1>1, <1>2, <1>3 DEF VersionInv, ChangeVersions, Active
  <2> QED
    BY <1>1, <2>1 DEF Numbers
<1>4. ASSUME NEW r \in Existing, job[r].member = m
      PROVE  job[r].ver < latest[m]
  <2>1. job[r].ver <= latest[m] /\ job[r].ver # change[c].ver
    BY <1>1, <1>2, <1>4 DEF VersionInv, RowVersions, ChangeVersions
  <2> QED
    BY <1>1, <2>1 DEF Numbers, Existing
<1> QED
  BY <1>2, <1>3, <1>4

LEMMA DirectSucceedsTier ==
  ASSUME Stepping, NEW c \in Changers, DirectSucceeds(c)
  PROVE  TierInv'
<1> SUFFICES ASSUME NEW m \in Members, change[c].member = m
             PROVE  TierInv'
  BY RequestFacts
<1>1. /\ At(c, "idle")' /\ ~At(c, "idle") /\ Active(c, m) /\ ~At(c, "enqueue")
      /\ \A d \in Changers : d # c => change'[d] = change[d]
  BY RequestFacts, FinishType DEF DirectSucceeds, At, Active
<1>2. UNCHANGED <<tier, latest, last, job, status, step, now, closing>>
  BY DEF DirectSucceeds, table, worker
<1>3. /\ \A n \in Members : n # m => contact'[n] = contact[n]
      /\ contact'[m].ver = change[c].ver /\ contact'[m].tier = change[c].tier
      /\ ~contact'[m].blank
      /\ contact[m].ver > change[c].ver \/ Bypassed(c) => disturbed'[m]
      /\ \A n \in Members : ContactFrom(n)
      /\ AtHubSpot(m) => disturbed'[m]
  BY <1>1, DirectWriteFacts DEF DirectSucceeds
<1>4. VersionsFrom
  BY <1>1, <1>2, <1>3 DEF VersionsFrom, RowsFrom, ChangeFrom, At
<1>5. Followed(m)'
  <2>1. CASE change[c].ver = latest[m] /\ ~disturbed'[m]
    <3>1. /\ change[c].tier = tier[m]
          /\ \A d \in Changers \ {c} : Active(d, m) => change[d].ver < latest[m]
          /\ \A r \in Existing : job[r].member = m => job[r].ver < latest[m]
      BY <1>1, <2>1, CarrierNewest
    <3>2. Numbers
      BY SteppingFacts
    <3>3. ASSUME NEW r \in Rows, Open(r)', job'[r].member = m
          PROVE  FALSE
      <4>1. r \in Existing /\ r \in OpenRows(m)
        BY <1>2, <3>2, <3>3, RowNumbers DEF Open, OpenRows, Existing, Numbers
      <4> QED
        BY <1>2, <1>3, <2>1, <3>1, <3>3, <4>1 DEF Bypassed
    <3>4. \A d \in Changers : Active(d, m)' => change'[d].ver < contact'[m].ver
      BY <1>1, <1>3, <2>1, <3>1 DEF Active, At
    <3>5. Existing' = Existing /\ \A r \in Existing : job'[r].member = m => job'[r].ver <= contact'[m].ver
      BY <1>2, <1>3, <2>1, <3>1, <3>2 DEF Existing, Numbers
    <3> QED
      BY <1>2, <1>3, <3>1, <3>3, <3>4, <3>5 DEF AtHubSpot, Followed, OpenRows, NoneNewer
  <2>2. CASE WithItsRequest(m) /\ change[c].ver # latest[m]
    BY <1>1, <1>2, <2>2, CarrierKept DEF Followed
  <2>3. CASE InLastRow(m)
    BY <1>1, <1>2, <2>3, LastRowKept DEF InLastRow, Followed
  <2>4. CASE disturbed'[m]
    BY <2>4 DEF Followed
  <2>5. CASE tier[m] \notin Listed
    BY <1>2, <2>5 DEF Followed
  <2> QED
    BY <1>3, <2>1, <2>2, <2>3, <2>4, <2>5, SteppingFacts DEF Stepping, TierInv, Followed
<1>6. \A q \in Existing : KeepsAnswer(q, m)
  BY <1>2, <1>3, DirectAnswers
<1> QED
  BY <1>1, <1>2, <1>3, <1>4, <1>5, <1>6, RequestFacts, RequestStep DEF At

LEMMA DirectSkipsTier ==
  ASSUME Stepping, NEW c \in Changers, DirectSkips(c)
  PROVE  TierInv'
<1> SUFFICES ASSUME NEW m \in Members, change[c].member = m
             PROVE  TierInv'
  BY RequestFacts
<1>1. /\ At(c, "idle")' /\ At(c, "direct") /\ ~At(c, "enqueue") /\ Active(c, m)
      /\ \A d \in Changers : d # c => change'[d] = change[d]
  BY RequestFacts, FinishType DEF DirectSkips, At, Active
<1>2. UNCHANGED <<tier, latest, contact, last, job, status, step, now, closing>>
  BY DEF DirectSkips, table, worker
<1>3. VersionsFrom
  BY <1>1, <1>2 DEF VersionsFrom, RowsFrom, ContactFrom, ChangeFrom, At
<1>4. Followed(m)'
  <2>1. CASE tier[m] \notin Listed
    BY <1>2, <2>1 DEF Followed
  <2>2. CASE change[c].ver = latest[m] /\ tier[m] \in Listed
    <3>1. change[c].tier = tier[m]
      BY <1>1, <2>2, CarrierNewest
    <3> QED
      BY <2>2, <3>1 DEF DirectSkips
  <2>3. CASE WithItsRequest(m) /\ change[c].ver # latest[m]
    BY <1>1, <1>2, <2>3, CarrierKept DEF Followed
  <2>4. CASE AtHubSpot(m)
    <3>1. \A d \in Changers : Active(d, m)' => Active(d, m) /\ change'[d].ver = change[d].ver
      BY <1>1 DEF Active, At
    <3>2. \A d \in Changers : Meddles(d, m) => Meddles(d, m)'
      BY <1>1 DEF Meddles, Active, At
    <3>3. OpenRows(m)' = {} /\ Existing' = Existing
      BY <1>2, <2>4 DEF AtHubSpot, OpenRows, Open, Existing
    <3> QED
      BY <1>2, <2>4, <3>1, <3>2, <3>3 DEF AtHubSpot, NoneNewer, Followed
  <2>5. CASE InLastRow(m)
    BY <1>1, <1>2, <2>5, LastRowKept DEF InLastRow, Followed
  <2>6. CASE disturbed[m]
    BY <2>6, SteppingFacts DEF Followed
  <2> QED
    BY <2>1, <2>2, <2>3, <2>4, <2>5, <2>6 DEF Stepping, TierInv, Followed
<1>5. ASSUME NEW q \in Existing
      PROVE  KeepsAnswer(q, m)
  <2>1. (Open(q)' => Open(q)) /\ contact[m].ver \in Nat
    BY <1>2, RequestFacts DEF Open
  <2>2. \A d \in Changers : Active(d, m) /\ Clearing(d) => Active(d, m)' /\ Clearing(d)'
    BY <1>1 DEF Active, Clearing, At
  <2> QED
    BY <1>2, <2>1, <2>2 DEF KeepsAnswer
<1> QED
  BY <1>1, <1>2, <1>3, <1>4, <1>5, RequestFacts, RequestStep DEF At

LEMMA ChangeAbandonedTier ==
  ASSUME Stepping, NEW c \in Changers, ChangeAbandoned(c)
  PROVE  TierInv'
<1> SUFFICES ASSUME NEW m \in Members, change[c].member = m
             PROVE  TierInv'
  BY RequestFacts
<1>1. /\ At(c, "idle")'
      /\ \A d \in Changers : d # c => change'[d] = change[d]
  BY RequestFacts, FinishType DEF ChangeAbandoned, At
<1>2. UNCHANGED <<tier, latest, contact, last, job, status, step, now, closing>>
  BY DEF ChangeAbandoned, table, worker
<1>3. disturbed'[m]
  BY RequestFacts DEF ChangeAbandoned, Record
<1>4. VersionsFrom
  BY <1>1, <1>2 DEF VersionsFrom, RowsFrom, ContactFrom, ChangeFrom, At
<1>5. \A q \in Existing : KeepsAnswer(q, m)
  BY <1>2, <1>3 DEF KeepsAnswer, Open
<1> QED
  BY <1>1, <1>2, <1>3, <1>4, <1>5, RequestFacts, SteppingFacts, RequestStep DEF At, Followed, Numbers

LEMMA SupersedeTier ==
  ASSUME Stepping, NEW c \in Changers, Supersede(c)
  PROVE  TierInv'
<1> SUFFICES ASSUME NEW m \in Members, change[c].member = m
             PROVE  TierInv'
  BY RequestFacts
<1>1. Numbers /\ At(c, "supersede") /\ Active(c, m) /\ last \in Nat
  BY SteppingFacts DEF Supersede, Active, At, Numbers
<1>2. /\ change'[c].at = "enqueue" /\ change'[c].member = m /\ change'[c].ver = change[c].ver
      /\ change'[c].tier = change[c].tier /\ change'[c].seen = last
      /\ \A d \in Changers : d # c => change'[d] = change[d]
  BY <1>1, RequestFacts DEF Supersede, Change
<1>3. UNCHANGED <<tier, latest, contact, last, job, step, now, closing>>
  BY DEF Supersede, worker
<1>4. \A r \in Rows : status'[r] = IF Open(r) /\ job[r].member = m
                                   THEN "superseded" ELSE status[r]
  BY DEF Supersede, Supersedable, OpenRows
<1>5. VersionsFrom
  BY <1>1, <1>2, <1>3 DEF VersionsFrom, RowsFrom, ContactFrom, ChangeFrom, At, Active
<1>6. \A d \in Changers :
         /\ Active(d, m)' <=> Active(d, m)
         /\ Meddles(d, m) => Meddles(d, m)'
         /\ change'[d].ver = change[d].ver
         /\ At(d, "enqueue") => At(d, "enqueue")' /\ change'[d].seen = change[d].seen
  BY <1>1, <1>2 DEF Active, Meddles, At
<1>7. \A r \in Rows : job[r].member = m => ~Open(r)'
  BY <1>4 DEF Open
<1>8. Followed(m)'
  <2>1. CASE disturbed[m]
    BY <2>1, SteppingFacts DEF Followed
  <2>2. CASE WithItsRequest(m)
    BY <1>3, <1>6, <2>2 DEF WithItsRequest, Followed
  <2>3. CASE AtHubSpot(m)
    <3>1. OpenRows(m)' = {} /\ Existing' = Existing
      BY <1>3, <1>7 DEF OpenRows, Existing
    <3> QED
      BY <1>3, <1>6, <2>3, <3>1 DEF AtHubSpot, NoneNewer, Followed
  <2>4. ASSUME NEW r \in Existing, IsLast(r, m), job[r].tier = tier[m],
               NoneNewer(m, job[r].ver),
               \/ Open(r)
               \/ status[r] = "dead"
               \/ \E d \in Changers : Active(d, m) /\ At(d, "enqueue") /\ r <= change[d].seen
        PROVE  InLastRow(m)'
    <3>1. r \in Existing' /\ IsLast(r, m)' /\ job'[r].tier = tier'[m] /\ r \in Rows /\ r <= last
      BY <1>3, <2>4 DEF Existing, IsLast
    <3>2. \A d \in Changers : Active(d, m)' => change'[d].ver < job'[r].ver
      BY <1>3, <1>6, <2>4 DEF NoneNewer
    <3>3. Open(r) => Active(c, m)' /\ At(c, "enqueue")' /\ r <= change'[c].seen
      BY <1>1, <1>2, <1>6, <3>1 DEF At
    <3>4. status[r] = "dead" => status'[r] = "dead"
      BY <1>4, <3>1 DEF Open
    <3>5. \/ status'[r] = "dead"
          \/ \E d \in Changers : Active(d, m)' /\ At(d, "enqueue")' /\ r <= change'[d].seen
      BY <1>6, <2>4, <3>3, <3>4
    <3> QED
      BY <3>1, <3>2, <3>5 DEF InLastRow, NoneNewer
  <2>5. CASE tier[m] \notin Listed
    BY <1>3, <2>5 DEF Followed
  <2> QED
    BY <2>1, <2>2, <2>3, <2>4, <2>5 DEF Stepping, TierInv, Followed, InLastRow
<1>9. ASSUME NEW q \in Existing, job[q].member = m
      PROVE  KeepsAnswer(q, m)
  <2>1. ~Open(q)' /\ contact[m].ver \in Nat
    BY <1>1, <1>7, <1>9 DEF Existing, Numbers
  <2> QED
    BY <1>3, <2>1 DEF KeepsAnswer
<1> QED
  BY <1>1, <1>2, <1>3, <1>4, <1>5, <1>8, <1>9, RequestStep DEF Numbers, Existing

-----------------------------------------------------------------------------
(* Inserts.                                                                *)

\* What an insert of an undisturbed member finds, and what it leaves.
LEMMA InsertedRow ==
  ASSUME Stepping, NEW j, InsertRow(j), NEW m \in Members, j.member = m, ~disturbed'[m],
         NEW n, n = last + 1
  PROVE  /\ n \in Rows /\ n \in Existing' /\ last' = n /\ job'[n] = j
         /\ IsLast(n, m)' /\ Open(n)'
         /\ contact[m].ver <= j.ver
         /\ \A r \in Existing : job[r].member = m => ~Open(r) /\ job[r].ver <= j.ver
<1>1. /\ Numbers /\ Numbers' /\ Inserts /\ IInv /\ Grows
      /\ last' = n /\ n \in Rows
  BY SteppingFacts DEF Stepping, Effects, InsertRow, Inserts
<1>2. job'[n] = j /\ status'[n] = "pending"
  BY <1>1 DEF InsertRow, IInv, TypeOK
<1>3. /\ contact[m].ver <= j.ver
      /\ \A r \in Existing : job[r].member = m => ~Open(r) /\ job[r].ver <= j.ver
  BY <1>1, <1>2 DEF Inserts, Existing
<1>4. IsLast(n, m)' /\ n \in Existing'
  BY <1>1, <1>2 DEF IsLast, Existing, Numbers, Rows
<1> QED
  BY <1>1, <1>2, <1>3, <1>4 DEF Open

\* An insert leaves the other rows' answers alone.
LEMMA InsertAnswers ==
  ASSUME Stepping, contact' = contact, NEW m \in Members, NEW q \in Existing,
         \A r \in Existing : status'[r] = status[r],
         \A c \in Changers : Clearing(c) => change'[c] = change[c]
  PROVE  KeepsAnswer(q, m)
<1>1. contact[m].ver \in Nat /\ (Open(q)' => Open(q))
  BY SteppingFacts DEF Numbers, Open
<1>2. \A c \in Changers : Active(c, m) /\ Clearing(c) => Active(c, m)' /\ Clearing(c)'
  BY DEF Active, Clearing, At
<1> QED
  BY <1>1, <1>2 DEF KeepsAnswer

LEMMA InsertKeepsRows ==
  ASSUME Stepping, NEW j, InsertRow(j)
  PROVE  /\ \A r \in Existing : status'[r] = status[r] /\ job'[r] = job[r]
         /\ last' = last + 1 /\ last + 1 \in Rows /\ job'[last + 1] = j
<1>1. Numbers /\ IInv /\ last' = last + 1 /\ last + 1 \in Rows
  BY SteppingFacts DEF Stepping, Effects, InsertRow, Inserts
<1>2. \A r \in Existing : r # last + 1 /\ r \in Rows
  BY <1>1, RowNumbers DEF Existing, Numbers
<1>3. /\ status' = [status EXCEPT ![last + 1] = "pending"] /\ job' = [job EXCEPT ![last + 1] = j]
      /\ DOMAIN status = Rows /\ DOMAIN job = Rows
  BY <1>1 DEF InsertRow, IInv, TypeOK
<1> QED
  BY <1>1, <1>2, <1>3

LEMMA EnqueueInserted ==
  ASSUME Stepping, NEW c \in Changers, EnqueueChange(c), NEW m \in Members,
         change[c].member = m, NEW kind \in {"tier", "fix"}, InsertRow(JobOf(c, kind)),
         At(c, "enqueue") \/ At(c, "fix")
  PROVE  TierInv'
<1> DEFINE j == JobOf(c, kind)
<1>1. /\ j.member = m /\ j.ver = change[c].ver /\ j.tier = change[c].tier /\ j.kind # "requeue"
      /\ Active(c, m)
  BY DEF JobOf, Active, At
<1>2. /\ At(c, "idle")'
      /\ \A d \in Changers : d # c => change'[d] = change[d]
  BY RequestFacts, FinishType DEF EnqueueChange, At
<1>3. UNCHANGED <<tier, latest, contact, step, now, closing>>
  BY DEF EnqueueChange, worker
<1>4. /\ \A r \in Existing : status'[r] = status[r] /\ job'[r] = job[r]
      /\ last' = last + 1 /\ last + 1 \in Rows /\ job'[last + 1] = j
  BY InsertKeepsRows
<1>5. VersionsFrom
  <2>1. RowFrom(job'[last + 1])
    BY <1>1, <1>2, <1>4 DEF RowFrom
  <2>2. \A d \in Changers : ChangeFrom(d)
    BY <1>2 DEF ChangeFrom, At
  <2> QED
    BY <1>3, <1>4, <2>1, <2>2 DEF VersionsFrom, RowsFrom, ContactFrom
<1>6. Followed(m)'
  <2>1. CASE disturbed'[m]
    BY <2>1 DEF Followed
  <2>2. CASE ~disturbed'[m]
    <3> SUFFICES ASSUME NEW n, n = last + 1
                 PROVE  Followed(m)'
      OBVIOUS
    <3>1. /\ n \in Existing' /\ IsLast(n, m)' /\ Open(n)'
          /\ contact[m].ver <= j.ver
          /\ \A r \in Existing : job[r].member = m => ~Open(r) /\ job[r].ver <= j.ver
      BY <1>1, <2>2, InsertedRow
    <3>2. CASE change[c].ver = latest[m]
      <4>1. /\ change[c].tier = tier[m]
            /\ \A d \in Changers \ {c} : Active(d, m) => change[d].ver < latest[m]
        BY <1>1, <3>2, CarrierNewest
      <4>2. \A d \in Changers : Active(d, m)' => change'[d].ver < j.ver
        BY <1>1, <1>2, <3>2, <4>1 DEF Active, At
      <4>3. NoneNewer(m, job[n].ver)'
        BY <1>4, <4>2 DEF NoneNewer
      <4> QED
        BY <1>1, <1>3, <1>4, <3>1, <4>1, <4>3 DEF InLastRow, Followed
    <3>3. CASE WithItsRequest(m) /\ change[c].ver # latest[m]
      BY <1>2, <1>3, <3>3, CarrierKept DEF Followed
    <3>4. ASSUME AtHubSpot(m) PROVE FALSE
      BY <1>1, <3>1, <3>4, RequestFacts, SteppingFacts DEF AtHubSpot, NoneNewer, Numbers
    <3>5. ASSUME InLastRow(m) PROVE FALSE
      <4>1. PICK r \in Existing : IsLast(r, m) /\ NoneNewer(m, job[r].ver)
        BY <3>5 DEF InLastRow
      <4>2. job[r].member = m /\ change[c].ver < job[r].ver /\ job[r].ver \in Nat
        BY <1>1, <4>1, SteppingFacts DEF NoneNewer, IsLast, Numbers, Existing
      <4> QED
        BY <1>1, <3>1, <4>2, RequestFacts
    <3>6. CASE tier[m] \notin Listed
      BY <1>3, <3>6 DEF Followed
    <3> QED
      BY <2>2, <3>2, <3>3, <3>4, <3>5, <3>6, SteppingFacts DEF Stepping, TierInv, Followed
  <2> QED
    BY <2>1, <2>2
<1>7. \A q \in Existing : KeepsAnswer(q, m)
  <2>1. \A d \in Changers : Clearing(d) => change'[d] = change[d]
    BY <1>2 DEF Clearing, At
  <2> QED
    BY <1>3, <1>4, <2>1, InsertAnswers
<1> QED
  BY <1>1, <1>2, <1>3, <1>4, <1>5, <1>6, <1>7, RequestStep DEF At

\* The row that keeps the job of an undisturbed member out is open and shows
\* what the job would have shown.
LEMMA Holder ==
  ASSUME Stepping, NEW c \in Changers, NEW m \in Members, change[c].member = m,
         NEW j, j.member = m, j.ver = change[c].ver, j.tier = change[c].tier,
         Holders(j) # {}, ~BlockingMishap(j), ~disturbed[m]
  PROVE  \E h \in Existing :
            /\ Open(h) /\ IsLast(h, m)
            /\ job[h].tier = change[c].tier /\ job[h].ver + 1 >= change[c].ver
<1>1. Numbers /\ IInv
  BY SteppingFacts DEF Stepping
<1>2. PICK h \in Rows : h \in Holders(j)
  BY DEF Holders
<1>3. /\ status[h] \notin {"absent", "completed", "superseded", "dead"}
      /\ job[h].member = m /\ job[h].tier = j.tier /\ ~(job[h].ver + 1 < j.ver)
  BY <1>2 DEF Holders, SameKey, BlockingMishap
<1>4. Open(h)
  BY <1>1, <1>3 DEF Open, IInv, TypeOK, Statuses
<1>5. h \in Existing /\ IsLast(h, m)
  BY <1>1, <1>3, <1>4, OpenIsLast
<1>6. job[h].ver + 1 >= change[c].ver
  BY <1>1, <1>3 DEF Numbers
<1> QED
  BY <1>3, <1>4, <1>5, <1>6

LEMMA EnqueueBlocked ==
  ASSUME Stepping, NEW c \in Changers, EnqueueChange(c), NEW m \in Members,
         change[c].member = m, NEW kind \in {"tier", "fix"},
         Holders(JobOf(c, kind)) # {}, UNCHANGED table,
         Record(m, BlockingMishap(JobOf(c, kind))),
         At(c, "enqueue") \/ At(c, "fix")
  PROVE  TierInv'
<1> DEFINE j == JobOf(c, kind)
<1>1. /\ j.member = m /\ j.ver = change[c].ver /\ j.tier = change[c].tier
      /\ Active(c, m) /\ Numbers /\ VersionInv
  BY SteppingFacts DEF JobOf, Active, At
<1>2. /\ At(c, "idle")'
      /\ \A d \in Changers : d # c => change'[d] = change[d]
  BY RequestFacts, FinishType DEF EnqueueChange, At
<1>3. UNCHANGED <<tier, latest, contact, last, job, status, step, now, closing>>
  BY DEF EnqueueChange, worker, table
<1>4. VersionsFrom
  BY <1>2, <1>3 DEF VersionsFrom, RowsFrom, ContactFrom, ChangeFrom, At
<1>5. Followed(m)'
  <2>1. CASE disturbed'[m]
    BY <2>1 DEF Followed
  <2>2. CASE ~disturbed'[m]
    <3>1. ~disturbed[m] /\ ~BlockingMishap(j)
      BY <2>2, RequestFacts DEF Record
    <3>2. PICK h \in Existing :
             /\ Open(h) /\ IsLast(h, m)
             /\ job[h].tier = change[c].tier /\ job[h].ver + 1 >= change[c].ver
      BY <1>1, <3>1, Holder
    <3>3. CASE change[c].ver = latest[m]
      <4>1. /\ change[c].tier = tier[m]
            /\ \A d \in Changers \ {c} : Active(d, m) => change[d].ver < latest[m]
            /\ \A r \in Existing : job[r].member = m => job[r].ver < latest[m]
        BY <1>1, <3>3, CarrierNewest
      <4>2. /\ job[h].member = m /\ job[h].ver \in Nat /\ latest[m] \in Nat
            /\ latest[m] = job[h].ver + 1
        BY <1>1, <3>2, <3>3, <4>1 DEF IsLast, Numbers, Existing
      <4>3. ASSUME NEW d \in Changers, Active(d, m)'
            PROVE  change'[d].ver < job[h].ver
        <5>1. d # c /\ Active(d, m) /\ change'[d] = change[d]
          BY <1>2, <4>3 DEF Active, At
        <5>2. change[d].ver < latest[m] /\ change[d].ver \in Nat
          BY <1>1, <4>1, <5>1 DEF Numbers
        <5>3. change[d].ver # job[h].ver
          BY <1>1, <4>2, <5>1 DEF VersionInv, ChangeVersions, Active
        <5> QED
          BY <4>2, <5>1, <5>2, <5>3
      <4>4. h \in Existing' /\ IsLast(h, m)' /\ Open(h)' /\ NoneNewer(m, job[h].ver)'
        BY <1>3, <3>2, <4>3 DEF Existing, IsLast, Open, NoneNewer
      <4> QED
        BY <1>3, <3>2, <4>1, <4>4 DEF InLastRow, Followed
    <3>4. CASE WithItsRequest(m) /\ change[c].ver # latest[m]
      BY <1>2, <1>3, <3>4, CarrierKept DEF Followed
    <3>5. ASSUME AtHubSpot(m) PROVE FALSE
      BY <3>2, <3>5 DEF AtHubSpot, OpenRows, IsLast, Existing
    <3>6. CASE InLastRow(m)
      <4>1. \A r \in Existing : IsLast(r, m) => r = h
        <5>1. \A r \in Existing : IsLast(r, m) => r <= h /\ h <= r /\ r \in Nat /\ h \in Nat
          BY <3>2, RowNumbers DEF IsLast, Existing
        <5> QED
          BY <5>1
      <4> QED
        BY <1>2, <1>3, <3>2, <3>6, <4>1, LastRowKept DEF InLastRow, Followed
    <3>7. CASE tier[m] \notin Listed
      BY <1>3, <3>7 DEF Followed
    <3> QED
      BY <3>1, <3>3, <3>4, <3>5, <3>6, <3>7 DEF Stepping, TierInv, Followed
  <2> QED
    BY <2>1, <2>2
<1>6. \A q \in Existing : KeepsAnswer(q, m)
  <2>1. \A d \in Changers : Clearing(d) => change'[d] = change[d]
    BY <1>2 DEF Clearing, At
  <2> QED
    BY <1>3, <2>1, InsertAnswers
<1> QED
  BY <1>1, <1>2, <1>3, <1>4, <1>5, <1>6, RequestFacts, RequestStep DEF At

LEMMA EnqueueChangeTier ==
  ASSUME Stepping, NEW c \in Changers, EnqueueChange(c)
  PROVE  TierInv'
<1>1. PICK kind \in {"tier", "fix"}, seen \in Nat :
         Enqueue(JobOf(c, kind), seen) /\ (At(c, "enqueue") \/ At(c, "fix"))
  BY SteppingFacts DEF EnqueueChange, Numbers
<1>2. JobOf(c, kind).member = change[c].member /\ change[c].member \in Members
  BY RequestFacts DEF JobOf
<1> QED
  BY <1>1, <1>2, EnqueueInserted, EnqueueBlocked DEF Enqueue

LEMMA CopyFacts ==
  ASSUME Stepping, NEW r \in Rows
  PROVE  LET j == CopyOf(r) IN
         /\ j.member = job[r].member /\ j.ver = job[r].ver /\ j.tier = job[r].tier
         /\ j.origin = r /\ j.kind = "requeue"
<1>1. job[r] \in Job
  BY DEF Stepping, IInv, TypeOK
<1> QED
  BY <1>1 DEF CopyOf, Job

LEMMA RequeueInserted ==
  ASSUME Stepping, NEW r \in Rows, RequeueDead(r), Holders(CopyOf(r)) = {}
  PROVE  TierInv'
<1> DEFINE j == CopyOf(r)
<1> SUFFICES ASSUME NEW m \in Members, job[r].member = m, NEW n, n = last + 1
             PROVE  TierInv'
  BY SteppingFacts DEF Numbers
<1>1. /\ j.member = m /\ j.ver = job[r].ver /\ j.tier = job[r].tier /\ j.origin = r
      /\ InsertRow(j) /\ status[r] = "dead" /\ Numbers /\ IInv /\ VersionInv
  BY CopyFacts, SteppingFacts DEF RequeueDead, Stepping
<1>2. UNCHANGED <<tier, latest, contact, change, step, now>> /\ closing' = closing \cup {r}
  BY DEF RequeueDead, worker
<1>3. /\ \A q \in Existing : status'[q] = status[q] /\ job'[q] = job[q]
      /\ last' = n /\ n \in Rows /\ job'[n] = j
  BY <1>1, InsertKeepsRows
<1>4. r \in Existing /\ r \in Nat /\ r < n
  BY <1>1, RowNumbers DEF Existing, Numbers
<1>5. VersionInv'
  <2>1. RowFrom(job'[last + 1])
    BY <1>1, <1>3, <1>4 DEF RowFrom
  <2>2. VersionsFrom
    BY <1>2, <1>3, <2>1 DEF VersionsFrom, RowsFrom, ContactFrom, ChangeFrom, At
  <2> QED
    BY <1>1, <2>2, VersionsKept
<1>6. Followed(m)'
  <2>1. CASE disturbed'[m]
    BY <2>1 DEF Followed
  <2>2. CASE ~disturbed'[m]
    <3>1. /\ n \in Existing' /\ IsLast(n, m)' /\ Open(n)'
          /\ contact[m].ver <= j.ver
          /\ \A q \in Existing : job[q].member = m => ~Open(q) /\ job[q].ver <= j.ver
      BY <1>1, <2>2, InsertedRow
    <3>2. CASE WithItsRequest(m)
      BY <1>2, <3>2 DEF WithItsRequest, Followed, Active, At
    <3>3. ASSUME job[r].tier = tier[m], NoneNewer(m, job[r].ver)
          PROVE  InLastRow(m)'
      <4>1. NoneNewer(m, job[n].ver)' /\ job'[n].tier = tier'[m]
        BY <1>1, <1>2, <1>3, <3>3 DEF NoneNewer, Active, At
      <4> QED
        BY <3>1, <4>1 DEF InLastRow
    <3>4. CASE AtHubSpot(m)
      <4>1. contact[m].ver = job[r].ver
        BY <1>1, <1>4, <3>1, <3>4 DEF AtHubSpot, Numbers
      <4>2. job[r].tier = contact[m].tier
        BY <1>1, <1>4, <4>1 DEF VersionInv, RowVersions
      <4> QED
        BY <3>3, <3>4, <4>1, <4>2 DEF AtHubSpot, Followed
    <3>5. CASE InLastRow(m) /\ ~disturbed[m]
      <4>1. PICK s \in Existing : IsLast(s, m) /\ job[s].tier = tier[m] /\ NoneNewer(m, job[s].ver)
        BY <3>5 DEF InLastRow
      <4>2. /\ job[s].member = m /\ s \in Rows /\ s <= last /\ s \in Nat
            /\ job[s].ver \in Nat /\ job[r].ver \in Nat
            /\ r \in 1..last
        BY <1>1, <1>4, <4>1, RowNumbers DEF IsLast, Existing, Numbers
      <4>3. r <= s
        BY <4>1, <4>2 DEF IsLast
      <4>4. job[r].ver <= job[s].ver
        BY <1>1, <1>4, <3>5, <4>2, <4>3 DEF IInv, Bookkeeping, VersionsRise
      <4>5. job[s].ver = job[r].ver
        BY <1>1, <3>1, <4>2, <4>4
      <4>6. job[s].tier = job[r].tier
        BY <1>1, <1>4, <4>2, <4>5 DEF VersionInv, RowVersions
      <4> QED
        BY <3>3, <4>1, <4>5, <4>6 DEF Followed
    <3>6. CASE tier[m] \notin Listed
      BY <1>2, <3>6 DEF Followed
    <3> QED
      BY <2>2, <3>2, <3>4, <3>5, <3>6, SteppingFacts DEF Stepping, TierInv, Followed
  <2> QED
    BY <2>1, <2>2
<1>7. ASSUME NEW k \in Members, k # m
      PROVE  Untouched(k)
  BY <1>1, <1>2, <1>3, <1>7 DEF Untouched
<1>8. \A q \in Existing, k \in Members : KeepsAnswer(q, k)
  BY <1>2, <1>3, InsertAnswers
<1>9. ~IsLast(r, m)'
  <2>1. n \in 1..last' /\ job'[n].member = m /\ n \in Nat
    BY <1>1, <1>3, RowNumbers
  <2> QED
    BY <1>4, <2>1 DEF IsLast
<1>10. \A q \in closing' \ closing : disturbed'[job'[q].member] \/ ~IsLast(q, job[q].member)'
  <2>1. job'[r].member = m
    BY <1>3, <1>4
  <2> QED
    BY <1>2, <1>9, <2>1 DEF IsLast
<1> QED
  BY <1>2, <1>5, <1>6, <1>7, <1>8, <1>10, UntouchedFollows, TierInvParts

\* The copy is there already, so the dead row is not the last.
LEMMA RequeueBlocked ==
  ASSUME Stepping, NEW r \in Rows, RequeueDead(r), Holders(CopyOf(r)) # {}
  PROVE  TierInv'
<1> DEFINE j == CopyOf(r)
<1>1. Numbers /\ VersionInv
  BY SteppingFacts
<1>2. Unmoved /\ UNCHANGED <<status, step, now, disturbed>> /\ closing' = closing \cup {r}
  BY DEF RequeueDead, Unmoved, table, worker
<1>3. PICK h \in Rows : status[h] # "absent" /\ SameKey(job[h], j)
  BY DEF Holders
<1>4. job[h].kind = "requeue" /\ job[h].member = job[r].member /\ job[h].origin = r
  BY <1>3, CopyFacts DEF SameKey
<1>5. h \in Existing /\ h \in Nat /\ r \in Nat /\ h <= last
  BY <1>1, <1>3, RowNumbers DEF Existing, Numbers
<1>6. r < h
  BY <1>1, <1>4, <1>5 DEF VersionInv, RowVersions
<1>7. h \in 1..last
  BY <1>1, <1>5, RowNumbers DEF Numbers
<1>8. ~IsLast(r, job[r].member)
  BY <1>4, <1>5, <1>6, <1>7 DEF IsLast
<1>9. job' = job /\ last' = last
  BY <1>2 DEF Unmoved
<1>10. \A q \in closing' \ closing : disturbed'[job'[q].member] \/ ~IsLast(q, job[q].member)'
  BY <1>2, <1>8, <1>9 DEF IsLast
<1> QED
  BY <1>2, <1>10, TableStep DEF RowsMove, NoNewAnswer

LEMMA RequeueDeadTier ==
  ASSUME Stepping, NEW r \in Rows, RequeueDead(r)
  PROVE  TierInv'
  BY RequeueInserted, RequeueBlocked

-----------------------------------------------------------------------------
(* A new version.                                                          *)

LEMMA CommitTierTier ==
  ASSUME Stepping, NEW c \in Changers, NEW m \in Members, NEW t \in Tiers,
         NEW first \in Stages, CommitTier(c, m, t, first)
  PROVE  TierInv'
<1>1. Numbers /\ VersionInv /\ latest[m] \in Nat /\ At(c, "idle")
  BY SteppingFacts DEF CommitTier, Numbers
<1>2. UNCHANGED <<contact, last, job, status, step, now, closing, disturbed>>
  BY DEF CommitTier, table, worker
<1>3. /\ tier'[m] = t /\ latest'[m] = latest[m] + 1
      /\ \A n \in Members : n # m => tier'[n] = tier[n] /\ latest'[n] = latest[n]
      /\ \A n \in Members : latest'[n] \in Nat /\ latest[n] <= latest'[n]
  BY <1>1 DEF CommitTier, Stepping, IInv, TypeOK
<1>4. /\ change'[c].at = first /\ change'[c].member = m /\ change'[c].ver = latest[m] + 1
      /\ change'[c].tier = t /\ first \in {"supersede", "direct", "fix"}
      /\ \A d \in Changers : d # c => change'[d] = change[d]
  BY RequestFacts DEF CommitTier
<1>5. Existing' = Existing
  BY <1>2 DEF Existing
<1>6. RowVersions'
  <2>1. ASSUME NEW r \in Existing
        PROVE  job[r].ver <= latest'[job[r].member]
    <3>1. job[r].ver <= latest[job[r].member] /\ job[r].member \in Members /\ job[r].ver \in Nat
      BY <1>1 DEF VersionInv, RowVersions, Numbers, Existing
    <3> QED
      BY <1>1, <1>3, <3>1 DEF Numbers
  <2> QED
    BY <1>1, <1>2, <1>5, <2>1 DEF VersionInv, RowVersions
<1>7. ContactVersions'
  BY <1>1, <1>2, <1>3 DEF VersionInv, ContactVersions, Numbers
<1>8. ChangeVersions'
  <2>1. ASSUME NEW d \in Changers, d # c, ~At(d, "idle")
        PROVE  /\ change[d].member \in Members /\ change[d].ver \in Nat
               /\ change[d].ver <= latest[change[d].member]
               /\ change[d].ver <= latest'[change[d].member]
               /\ change[d].ver = latest'[change[d].member]
                  => change[d].tier = tier'[change[d].member]
               /\ Active(d, m) => change[d].ver # latest[m] + 1
    BY <1>1, <1>3, <2>1 DEF VersionInv, ChangeVersions, Numbers, Active
  <2>2. \A r \in Existing : job[r].member = m => job[r].ver # latest[m] + 1
    BY <1>1 DEF VersionInv, RowVersions, Numbers, Existing
  <2>3. contact[m].ver # latest[m] + 1
    BY <1>1 DEF VersionInv, ContactVersions, Numbers
  <2>4. ASSUME NEW d \in Changers, d # c, ~At(d, "idle")'
        PROVE  LET n == change[d].member IN
               /\ change'[d] = change[d]
               /\ change[d].ver <= latest'[n]
               /\ change[d].ver = latest'[n] => change[d].tier = tier'[n]
               /\ contact[n].ver = change[d].ver => contact[n].tier = change[d].tier
               /\ \A e \in Changers \ {d} : Active(e, n)' => change'[e].ver # change[d].ver
               /\ \A r \in Existing : job[r].member = n => job[r].ver # change[d].ver
    <3>1. change'[d] = change[d] /\ ~At(d, "idle")
      BY <1>4, <2>4 DEF At
    <3>2. ASSUME NEW e \in Changers \ {d}, e # c,
                 ~(change'[e].at = "idle"), change'[e].member = change[d].member
          PROVE  change'[e].ver # change[d].ver
      BY <1>1, <1>4, <3>1, <3>2 DEF VersionInv, ChangeVersions, Active, At
    <3>3. change[d].member = m => change[d].ver # latest[m] + 1
      BY <2>1, <2>4, <3>1 DEF Active
    <3>4. \A e \in Changers \ {d} :
             change'[e].at # "idle" /\ change'[e].member = change[d].member
             => change'[e].ver # change[d].ver
      BY <1>4, <3>2, <3>3
    <3>5. change'[d].member = change[d].member
      BY <3>1
    <3>6. \A e \in Changers \ {d} : Active(e, change[d].member)' => change'[e].ver # change[d].ver
      BY <3>4, <3>5 DEF Active, At
    <3> QED
      BY <1>1, <2>1, <2>4, <3>1, <3>6 DEF VersionInv, ChangeVersions
  <2>5. \A e \in Changers \ {c} : Active(e, m)' => change'[e].ver # latest[m] + 1
    BY <1>4, <2>1 DEF Active, At
  <2> QED
    BY <1>2, <1>3, <1>4, <1>5, <2>2, <2>3, <2>4, <2>5 DEF ChangeVersions, Active
<1>9. ASSUME NEW n \in Members
      PROVE  KeepsFollowing(n) \/ Followed(n)'
  <2>1. CASE n = m
    <3>1. Active(c, m)' /\ change'[c].ver = latest'[m]
      BY <1>3, <1>4 DEF Active, At
    <3> QED
      BY <2>1, <3>1 DEF WithItsRequest, Followed
  <2>2. CASE n # m
    <3>1. ~Active(c, n) /\ ~Active(c, n)'
      BY <1>1, <1>4, <2>2 DEF Active
    <3>2. last' # last + 1
      BY <1>1, <1>2 DEF Numbers
    <3>3. Untouched(n)
      BY <1>2, <1>3, <1>4, <2>2, <3>1, <3>2 DEF Untouched
    <3> QED
      BY <3>3, UntouchedFollows
  <2> QED
    BY <2>1, <2>2
<1>10. ASSUME NEW q \in Existing, NEW n \in Members
       PROVE  KeepsAnswer(q, n)
  <2>1. \A d \in Changers : Clearing(d) => change'[d] = change[d]
    BY <1>1, <1>4 DEF Clearing, At
  <2> QED
    BY <1>2, <2>1, InsertAnswers
<1> QED
  BY <1>2, <1>6, <1>7, <1>8, <1>9, <1>10, TierInvParts DEF VersionInv

-----------------------------------------------------------------------------
(* The theorems.                                                           *)

LEMMA InitTier == Init => TierInv
<1> SUFFICES ASSUME Init PROVE TierInv
  OBVIOUS
<1>1. Existing = {} /\ \A c \in Changers : At(c, "idle")
  BY BoundsAssumption DEF Init, Existing, Rows, At, NoChange
<1>2. RowVersions /\ ChangeVersions /\ ContactVersions
  BY <1>1 DEF Init, RowVersions, ChangeVersions, ContactVersions
<1>3. AnswerStands /\ ClosingNotLast
  BY DEF Init, AnswerStands, ClosingNotLast
<1>4. ASSUME NEW m \in Members
      PROVE  AtHubSpot(m)
  BY <1>1 DEF Init, AtHubSpot, OpenRows, Open, NoneNewer, Active
<1> QED
  BY <1>2, <1>3, <1>4 DEF TierInv, Followed

LEMMA StutterTier ==
  ASSUME TierInv, UNCHANGED vars
  PROVE  TierInv'
<1>1. RowVersions' /\ ChangeVersions' /\ ContactVersions'
  BY DEF TierInv, RowVersions, ChangeVersions, ContactVersions, Existing, Active, At, vars, table
<1>2. AnswerStands' /\ ClosingNotLast'
  BY DEF TierInv, AnswerStands, AnswerHolds, ListedRow, ClosingNotLast, IsLast, Open, Active,
         Clearing, At, vars, table, worker
<1>3. ASSUME NEW m \in Members PROVE Followed(m)'
  BY DEF TierInv, Followed, WithItsRequest, AtHubSpot, InLastRow, NoneNewer, Existing, IsLast,
         OpenRows, Open, Meddles, Active, At, vars, table
<1> QED
  BY <1>1, <1>2, <1>3 DEF TierInv

LEMMA NextTier ==
  ASSUME Stepping, Next
  PROVE  TierInv'
<1>1. ASSUME NEW c \in Changers, NEW m \in Members, NEW t \in Tiers, NEW first \in Stages,
             CommitTier(c, m, t, first)
      PROVE  TierInv'
  BY <1>1, CommitTierTier
<1>2. ASSUME NEW c \in Changers, ChangeStep(c) PROVE TierInv'
  BY <1>2, DirectSkipsTier, DirectClearTier, DirectSucceedsTier, DirectFailsTier, SupersedeTier,
     EnqueueChangeTier, ChangeAbandonedTier DEF ChangeStep
<1>3. ASSUME NEW w \in Workers, WorkerStep(w) PROVE TierInv'
  BY <1>3, RecoverTier, ClaimTier, ClaimAnswerLostTier, PushSkipsTier, PushClearTier, PushSucceedsTier,
     PushFailsTier, PushRefusedTier, MarkCompletedTier, MarkCompletedFailsTier,
     MarkRefusedTier, MarkFailedTier, BatchAbandonedTier DEF WorkerStep
<1>4. ASSUME NEW r \in Rows, RowStep(r) PROVE TierInv'
  BY <1>4, RequeueDeadTier, RequeueRefusedTier, CloseDeadTier, RequeueInterruptedTier,
     TimeTier DEF RowStep
<1> QED
  BY <1>1, <1>2, <1>3, <1>4 DEF Next

\* The newest version of every undisturbed member whose tier HubSpot has an
\* option for is with the request that made it, at HubSpot, or in the member's
\* last row, from which only a later insert or staff can take it; and a worker
\* that holds HubSpot's answer still finds the contact as it left it.
THEOREM TierInvariant == Spec => []TierInv
<1>1. IInv /\ TierInv /\ [Next]_vars => TierInv'
  BY NextEffects, EffectsIInv, NextTier, StutterTier DEF Stepping
<1> QED
  BY InitTier, Invariant, <1>1, PTL DEF Spec

\* Both inductive invariants hold throughout: the queue's bookkeeping, and
\* where the newest version of each member is.
THEOREM FullInvariant == Spec => []FullInv
  BY Invariant, TierInvariant, PTL DEF FullInv

\* HubSpot shows a member's tier, with a lifecycle stage, as soon as no change
\* is under way and no row is open, unless HubSpot has no option for the tier,
\* the last row ended dead or a recorded mishap struck the member: the list of
\* exceptions is complete for every number of members, servers, requests, retries and rows.
THEOREM FollowsTier == Spec => []HubSpotFollowsTier
<1>1. ASSUME IInv, TierInv PROVE HubSpotFollowsTier
  <2> SUFFICES ASSUME NEW m \in Members, Quiet(m), tier[m] \in Listed, ~disturbed[m],
                      ~EndedDead(m)
               PROVE  contact[m].tier = tier[m] /\ ~contact[m].blank
    BY DEF HubSpotFollowsTier
  <2>1. ~WithItsRequest(m)
    BY DEF Quiet, WithItsRequest
  <2>2. ~InLastRow(m)
    BY DEF Quiet, InLastRow, EndedDead, OpenRows, IsLast, Existing
  <2>3. AtHubSpot(m)
    BY <1>1, <2>1, <2>2 DEF TierInv, Followed
  <2> QED
    BY <2>3 DEF AtHubSpot, Meddles, Quiet
<1> QED
  BY Invariant, TierInvariant, <1>1, PTL

=============================================================================
