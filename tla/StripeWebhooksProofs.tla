------------------------ MODULE StripeWebhooksProofs ------------------------
(***************************************************************************)
(* Theorems about StripeWebhooks for every set of events, subscriptions    *)
(* and workers and every bound: no event is applied twice within the life  *)
(* of its claim, none is acknowledged without being settled, an old        *)
(* subscription's events never take a new one away, and a deletion is      *)
(* final while the events of its subscription are handled one at a time.   *)
(***************************************************************************)
EXTENDS StripeWebhooks, TLAPS

Active == [pc : Points, event : Events, at : 1..MaxTransactions, mode : Modes, seen : Statuses]

LEMMA BusyType ==
  ASSUME TypeOK, NEW w \in Workers, Busy(w)
  PROVE  tx[w] \in Active
  BY DEF TypeOK, Transactions, Active, Busy

LEMMA BusyFields ==
  ASSUME TypeOK, NEW w \in Workers, Busy(w)
  PROVE  /\ tx[w].event \in Events
         /\ tx[w].at \in 1..MaxTransactions
         /\ tx[w].mode \in Modes
         /\ tx[w].seen \in Statuses
         /\ tx[w].pc \in Points
         /\ Subscription[tx[w].event] \in Subscriptions
         /\ Type[tx[w].event] \in Types
  BY BusyType, EventsAssumption DEF Active

\* A transaction that moves on, ends or begins leaves the others alone.
LEMMA GotoType ==
  ASSUME TypeOK, NEW w \in Workers, Busy(w), NEW point \in Points, Goto(w, point)
  PROVE  tx' \in [Workers -> Transactions]
<1>1. tx[w] \in Active
  BY BusyType
<1>2. [tx[w] EXCEPT !.pc = point] \in Active
  BY <1>1 DEF Active
<1> QED
  BY <1>2 DEF TypeOK, Goto, Transactions, Active

LEMMA AnswerType ==
  ASSUME TypeOK, NEW w \in Workers, Busy(w), Answer(w)
  PROVE  /\ tx' \in [Workers -> Transactions]
         /\ acked' \subseteq Events
  BY BusyFields DEF TypeOK, Answer, Transactions

LEMMA HandlerType ==
  ASSUME TypeOK, NEW e \in Events, NEW seen \in Statuses
  PROVE  /\ NewMembership(e, seen) \in Statuses
         /\ NewSubscription(e, seen) \in Subscriptions \cup {NoSubscription}
<1>1. membership \in Statuses /\ subscription \in Subscriptions \cup {NoSubscription}
  BY DEF TypeOK
<1>2. Type[e] \in Types /\ Payload[e] \in StripeStatuses /\ Subscription[e] \in Subscriptions
  BY EventsAssumption
<1>3. Mapped[Payload[e]] \in Statuses
  BY <1>2 DEF Mapped, StripeStatuses, Statuses
<1>4. Subscribed(e, seen, membership) \in Statuses
  BY <1>1, <1>3 DEF Subscribed, Statuses
<1>5. Updated(e, membership) \in Statuses
  BY <1>1 DEF Updated, Statuses
<1>6. NewMembership(e, seen) \in Statuses
  BY <1>1, <1>2, <1>4, <1>5 DEF NewMembership, Types, Priority, Statuses
<1>7. NewSubscription(e, seen) \in Subscriptions \cup {NoSubscription}
  BY <1>1, <1>2 DEF NewSubscription
<1> QED
  BY <1>6, <1>7

LEMMA BeginType ==
  ASSUME TypeOK, NEW w \in Workers, NEW e \in Events, NEW mode \in Modes, Begin(w, e, mode)
  PROVE  /\ tx' \in [Workers -> Transactions]
         /\ tx'[w] \in Active
         /\ clock' \in 0..MaxTransactions
         /\ disordered' \subseteq Subscriptions
<1>1. clock + 1 \in 1..MaxTransactions
  BY BoundsAssumption DEF TypeOK, Begin
<1>2. "absent" \in Statuses /\ "begun" \in Points /\ "claimed" \in Points
  BY DEF Statuses, Points
<1>3. tx'[w] \in Active
  BY <1>1, <1>2 DEF TypeOK, Begin, Active
<1>4. tx' \in [Workers -> Transactions]
  BY <1>3 DEF TypeOK, Begin, Transactions, Active
<1>5. Subscription[e] \in Subscriptions
  BY EventsAssumption
<1> QED
  BY <1>1, <1>3, <1>4, <1>5 DEF TypeOK, Begin

LEMMA TypeStep ==
  ASSUME TypeOK, [Next]_vars
  PROVE  TypeOK'
<1>1. ASSUME NEW w \in Workers, NEW e \in Events, Deliver(w, e)
      PROVE  TypeOK'
  <2>1. Begin(w, e, "delivery") /\ "delivery" \in Modes
    BY <1>1 DEF Deliver, Modes
  <2> QED
    BY <1>1, <2>1, BeginType DEF TypeOK, Deliver, Begin, table, stripe
<1>2. ASSUME NEW w \in Workers, NEW e \in Events, NEW mode \in {"replay", "forced"},
             Replay(w, e, mode)
      PROVE  TypeOK'
  <2>1. Begin(w, e, mode) /\ mode \in Modes
    BY <1>2 DEF Replay, Modes
  <2>2. replays' \in 0..MaxReplays
    BY <1>2, BoundsAssumption DEF TypeOK, Replay
  <2> QED
    BY <2>1, <2>2, BeginType DEF TypeOK, Begin, table, stripe
<1>3. ASSUME NEW w \in Workers, Claim(w)
      PROVE  TypeOK'
  <2>1. Busy(w) /\ "claimed" \in Points
    BY <1>3 DEF Claim, At, Points
  <2>2. tx' \in [Workers -> Transactions] /\ acked' \subseteq Events
    <3>1. CASE Duplicate(tx[w].event)
      BY <1>3, <2>1, <3>1, AnswerType DEF Claim
    <3>2. CASE ~Duplicate(tx[w].event)
      BY <1>3, <2>1, <3>2, GotoType DEF Claim, TypeOK
    <3> QED BY <3>1, <3>2
  <2> QED
    BY <1>3, <2>2 DEF TypeOK, Claim, table, history
<1>4. ASSUME NEW w \in Workers, CheckOrder(w)
      PROVE  TypeOK'
  <2>1. Busy(w) /\ "ordered" \in Points /\ tx[w].event \in Events
    BY <1>4, BusyFields DEF CheckOrder, At, Points
  <2>2. tx' \in [Workers -> Transactions] /\ acked' \subseteq Events /\ stale' \subseteq Events
    <3>1. CASE OutOfOrder(tx[w].event)
      BY <1>4, <2>1, <3>1, AnswerType DEF CheckOrder, TypeOK
    <3>2. CASE ~OutOfOrder(tx[w].event)
      BY <1>4, <2>1, <3>2, GotoType DEF CheckOrder, TypeOK
    <3> QED BY <3>1, <3>2
  <2> QED
    BY <1>4, <2>2 DEF TypeOK, CheckOrder, table
<1>5. ASSUME NEW w \in Workers, ReadMember(w)
      PROVE  TypeOK'
  <2>1. tx[w] \in Active
    BY <1>5, BusyType DEF ReadMember, At
  <2>2. [tx[w] EXCEPT !.pc = "read", !.seen = membership] \in Active
    BY <2>1 DEF Active, Points, TypeOK
  <2>3. tx' \in [Workers -> Transactions]
    BY <1>5, <2>2 DEF ReadMember, TypeOK, Transactions, Active
  <2> QED
    BY <1>5, <2>3 DEF TypeOK, ReadMember, table, stripe, history
<1>6. ASSUME NEW w \in Workers, Commit(w)
      PROVE  TypeOK'
  <2>1. Busy(w) /\ Answer(w)
    BY <1>6 DEF Commit, At
  <2> DEFINE e == tx[w].event
  <2>2. /\ e \in Events /\ tx[w].at \in 1..MaxTransactions /\ tx[w].seen \in Statuses
        /\ Subscription[e] \in Subscriptions
    BY <2>1, BusyFields
  <2>3. tx' \in [Workers -> Transactions] /\ acked' \subseteq Events
    BY <2>1, AnswerType
  <2>4. membership' \in Statuses /\ subscription' \in Subscriptions \cup {NoSubscription}
    BY <1>6, <2>2, HandlerType DEF Commit
  <2>5. /\ processedAt' \in [Events -> 0..MaxTransactions]
        /\ applications' \in [Events -> Nat]
    BY <1>6, <2>2 DEF Commit, TypeOK
  <2>6. applied' \subseteq Events /\ latest' \in Subscriptions \cup {NoSubscription}
    BY <1>6, <2>2 DEF Commit, TypeOK
  <2> QED
    BY <1>6, <2>3, <2>4, <2>5, <2>6 DEF TypeOK, Commit
<1>7. ASSUME NEW w \in Workers, Swallow(w)
      PROVE  TypeOK'
  <2>1. Busy(w) /\ Answer(w)
    BY <1>7 DEF Swallow, At
  <2> QED
    BY <1>7, <2>1, AnswerType, BusyFields DEF TypeOK, Swallow, table
<1>8. ASSUME NEW w \in Workers, Fail(w)
      PROVE  TypeOK'
  BY <1>8 DEF TypeOK, Fail, Transactions, table, stripe, history
<1>9. ASSUME NEW t \in 1..MaxTransactions, Cleanup(t)
      PROVE  TypeOK'
  <2>1. /\ processedAt' \in [Events -> 0..MaxTransactions]
        /\ applications' \in [Events -> Nat]
    BY <1>9, BoundsAssumption DEF TypeOK, Cleanup, TooOld
  <2>2. closed' \subseteq Events
    BY <1>9 DEF TypeOK, Cleanup, ClosedBy
  <2> QED
    BY <1>9, <2>1, <2>2 DEF TypeOK, Cleanup
<1>10. CASE UNCHANGED vars
  BY <1>10 DEF TypeOK, vars, table, stripe, history
<1> QED
  BY <1>1, <1>2, <1>3, <1>4, <1>5, <1>6, <1>7, <1>8, <1>9, <1>10 DEF Next, Step

\* What a step of w leaves of the other transactions.
Others(w) == \A v \in Workers \ {w} : tx'[v] = tx[v] /\ (Busy(v)' <=> Busy(v))

LEMMA GotoFrame ==
  ASSUME TypeOK, NEW w \in Workers, Busy(w), NEW point \in Points, Goto(w, point)
  PROVE  /\ Others(w)
         /\ Busy(w)'
         /\ tx'[w].pc = point
         /\ tx'[w].event = tx[w].event
         /\ tx'[w].at = tx[w].at
         /\ tx'[w].mode = tx[w].mode
         /\ tx'[w].seen = tx[w].seen
<1>1. tx[w] \in Active
  BY BusyType
<1>2. tx'[w] = [tx[w] EXCEPT !.pc = point] /\ Others(w)
  BY DEF TypeOK, Goto, Others, Busy
<1>3. tx'[w] \in Active
  BY <1>1, <1>2 DEF Active
<1> QED
  BY <1>1, <1>2, <1>3 DEF Active, Busy, Idle

LEMMA ReadFrame ==
  ASSUME TypeOK, NEW w \in Workers, ReadMember(w)
  PROVE  /\ Others(w)
         /\ Busy(w)'
         /\ tx'[w].pc = "read"
         /\ tx'[w].event = tx[w].event
         /\ tx'[w].at = tx[w].at
         /\ tx'[w].mode = tx[w].mode
         /\ tx'[w].seen = membership
<1>1. tx[w] \in Active
  BY BusyType DEF ReadMember, At
<1>2. tx'[w] = [tx[w] EXCEPT !.pc = "read", !.seen = membership] /\ Others(w)
  BY DEF TypeOK, ReadMember, Others, Busy
<1>3. tx'[w] \in Active
  BY <1>1, <1>2 DEF Active, Points, TypeOK
<1> QED
  BY <1>1, <1>2, <1>3 DEF Active, Busy, Idle

LEMMA EndFrame ==
  ASSUME TypeOK, NEW w \in Workers, tx' = [tx EXCEPT ![w] = Idle]
  PROVE  Others(w) /\ ~Busy(w)'
  BY DEF TypeOK, Others, Busy

LEMMA BeginFrame ==
  ASSUME TypeOK, NEW w \in Workers, NEW e \in Events, NEW mode \in Modes, Begin(w, e, mode)
  PROVE  /\ Others(w)
         /\ Busy(w)'
         /\ tx'[w].pc = (IF mode = "forced" THEN "claimed" ELSE "begun")
         /\ tx'[w].event = e
         /\ tx'[w].at = clock + 1
         /\ tx'[w].mode = mode
<1>1. tx'[w] = [pc |-> IF mode = "forced" THEN "claimed" ELSE "begun", event |-> e,
                at |-> clock + 1, mode |-> mode, seen |-> "absent"]
  BY DEF TypeOK, Begin
<1>2. Others(w)
  BY DEF TypeOK, Begin, Others, Busy
<1>3. tx'[w] \in Active
  BY BeginType
<1> QED
  BY <1>1, <1>2, <1>3 DEF Busy, Idle, Active

-----------------------------------------------------------------------------
(* A committed claim and an uncommitted one exclude each other. *)

\* A step that begins, ends or moves a transaction and takes no claim.
LEMMA ClaimsKept ==
  ASSUME ClaimsInv, NEW w \in Workers, Others(w),
         UNCHANGED <<processedAt, applications>>,
         applied \subseteq applied', clock \in Nat, clock' \in Nat, clock <= clock',
         processedAt \in [Events -> Nat],
         \A v \in Workers : Busy(v) => tx[v].at \in Nat /\ tx[v].event \in Events,
         Busy(w)' => tx'[w].at <= clock',
         HoldsClaim(w)' => HoldsClaim(w) /\ tx'[w].event = tx[w].event
  PROVE  ClaimsInv'
<1>1. \A v \in Workers : HoldsClaim(v)' => HoldsClaim(v) /\ tx'[v].event = tx[v].event
  BY DEF Others, HoldsClaim
<1>2. \A v \in Workers : Busy(v)' => tx'[v].at <= clock'
  BY DEF Others, ClaimsInv
<1>3. \A e \in Events : processedAt'[e] <= clock'
  BY DEF ClaimsInv
<1> QED
  BY <1>1, <1>2, <1>3 DEF ClaimsInv

LEMMA ClaimsStep ==
  ASSUME TypeOK, ClaimsInv, [Next]_vars
  PROVE  ClaimsInv'
<1>0. /\ clock \in Nat
      /\ processedAt \in [Events -> Nat]
      /\ \A v \in Workers : Busy(v) => tx[v].at \in Nat /\ tx[v].event \in Events
  BY BusyFields, BoundsAssumption DEF TypeOK
<1>1. ASSUME NEW w \in Workers, NEW e \in Events, NEW mode \in Modes, Begin(w, e, mode)
      PROVE  ClaimsInv'
  <2>1. Others(w) /\ ~HoldsClaim(w)' /\ tx'[w].at = clock + 1
    BY <1>1, BeginFrame DEF HoldsClaim
  <2>2. clock' = clock + 1 /\ UNCHANGED <<processedAt, applications, applied>>
    BY <1>1 DEF Begin, table
  <2> QED
    BY <1>0, <2>1, <2>2, ClaimsKept
<1>2. ASSUME NEW w \in Workers, Claim(w)
      PROVE  ClaimsInv'
  <2>1. Busy(w) /\ UNCHANGED <<processedAt, applications, applied, clock>> /\ "claimed" \in Points
    BY <1>2 DEF Claim, At, table, history, Points
  <2>2. CASE Duplicate(tx[w].event)
    <3>1. Others(w) /\ ~Busy(w)'
      BY <1>2, <2>2, EndFrame DEF Claim, Answer
    <3> QED
      BY <1>0, <2>1, <3>1, ClaimsKept DEF HoldsClaim
  <2>3. CASE ~Duplicate(tx[w].event)
    <3>1. Goto(w, "claimed") /\ ClaimFree(tx[w].event)
      BY <1>2, <2>3 DEF Claim
    <3>2. Others(w) /\ tx'[w].event = tx[w].event /\ tx'[w].at = tx[w].at
      BY <2>1, <3>1, GotoFrame
    <3>3. /\ processedAt[tx[w].event] = 0
          /\ \A v \in Workers : HoldsClaim(v) => tx[v].event # tx[w].event
      BY <2>3, <3>1 DEF Duplicate, ClaimFree, ClaimedBy
    <3>4. \A v \in Workers : HoldsClaim(v)' => /\ tx'[v].event = tx[v].event
                                               /\ v # w => HoldsClaim(v)
      BY <3>2 DEF Others, HoldsClaim
    <3>5. \A v \in Workers : Busy(v)' => tx'[v].at <= clock'
      BY <2>1, <3>2 DEF Others, ClaimsInv
    <3> QED
      BY <2>1, <3>3, <3>4, <3>5 DEF ClaimsInv
  <2> QED BY <2>2, <2>3
<1>3. ASSUME NEW w \in Workers, CheckOrder(w)
      PROVE  ClaimsInv'
  <2>1. /\ Busy(w) /\ tx[w].pc = "claimed" /\ "ordered" \in Points
        /\ UNCHANGED <<processedAt, applications, applied, clock>>
    BY <1>3 DEF CheckOrder, At, table, Points
  <2>2. CASE OutOfOrder(tx[w].event)
    <3>1. Others(w) /\ ~Busy(w)'
      BY <1>3, <2>2, EndFrame DEF CheckOrder, Answer
    <3> QED
      BY <1>0, <2>1, <3>1, ClaimsKept DEF HoldsClaim
  <2>3. CASE ~OutOfOrder(tx[w].event)
    <3>1. Goto(w, "ordered")
      BY <1>3, <2>3 DEF CheckOrder
    <3>2. /\ Others(w) /\ tx'[w].event = tx[w].event /\ tx'[w].at = tx[w].at
          /\ tx'[w].mode = tx[w].mode
      BY <2>1, <3>1, GotoFrame
    <3>3. (HoldsClaim(w)' => HoldsClaim(w)) /\ tx'[w].at <= clock'
      BY <2>1, <3>2 DEF HoldsClaim, ClaimsInv
    <3> QED
      BY <1>0, <2>1, <3>2, <3>3, ClaimsKept
  <2> QED BY <2>2, <2>3
<1>4. ASSUME NEW w \in Workers, ReadMember(w)
      PROVE  ClaimsInv'
  <2>1. /\ Busy(w) /\ tx[w].pc = "ordered"
        /\ UNCHANGED <<processedAt, applications, applied, clock>>
    BY <1>4 DEF ReadMember, At, table, history
  <2>2. /\ Others(w) /\ tx'[w].event = tx[w].event /\ tx'[w].at = tx[w].at
        /\ tx'[w].mode = tx[w].mode
    BY <1>4, ReadFrame
  <2>3. (HoldsClaim(w)' => HoldsClaim(w)) /\ tx'[w].at <= clock'
    BY <2>1, <2>2 DEF HoldsClaim, ClaimsInv
  <2> QED
    BY <1>0, <2>1, <2>2, <2>3, ClaimsKept
<1>5. ASSUME NEW w \in Workers, Commit(w)
      PROVE  ClaimsInv'
  <2> DEFINE e == tx[w].event
  <2>1. /\ Busy(w) /\ Others(w) /\ ~Busy(w)' /\ tx[w].pc = "read"
        /\ UNCHANGED clock /\ applied' = applied \cup {e}
    BY <1>5, EndFrame DEF Commit, At, Answer
  <2>2. /\ e \in Events /\ tx[w].at \in 1..MaxTransactions
        /\ tx[w].at <= clock
    BY <2>1, BusyFields DEF ClaimsInv
  <2>3. \A v \in Workers : HoldsClaim(v)' => /\ v # w
                                             /\ HoldsClaim(v)
                                             /\ tx'[v].event = tx[v].event
    BY <2>1 DEF Others, HoldsClaim
  <2>4. \A v \in Workers : Busy(v)' => tx'[v].at <= clock'
    BY <2>1 DEF Others, ClaimsInv
  <2>5. CASE tx[w].mode = "forced"
    <3>1. UNCHANGED <<processedAt, applications>>
      BY <1>5, <2>5 DEF Commit
    <3> QED
      BY <2>1, <2>3, <2>4, <3>1 DEF ClaimsInv
  <2>6. CASE tx[w].mode # "forced"
    <3>1. /\ processedAt' = [processedAt EXCEPT ![e] = tx[w].at]
          /\ applications' = [applications EXCEPT ![e] = @ + 1]
      BY <1>5, <2>6 DEF Commit
    <3>2. HoldsClaim(w)
      BY <2>1, <2>6 DEF HoldsClaim
    <3>3. processedAt[e] = 0 /\ applications[e] = 0
      BY <2>2, <3>2 DEF ClaimsInv
    <3>4. \A v \in Workers \ {w} : HoldsClaim(v) => tx[v].event # e
      BY <3>2 DEF ClaimsInv
    <3>5. /\ processedAt'[e] = tx[w].at /\ applications'[e] = 1
          /\ \A f \in Events \ {e} : /\ processedAt'[f] = processedAt[f]
                                     /\ applications'[f] = applications[f]
      BY <2>2, <3>1, <3>3 DEF TypeOK
    <3>6. \A f \in Events : applications'[f] = IF processedAt'[f] = 0 THEN 0 ELSE 1
      BY <2>2, <3>5 DEF ClaimsInv
    <3>7. \A f \in Events : /\ processedAt'[f] # 0 => f \in applied'
                            /\ processedAt'[f] <= clock'
      BY <2>1, <2>2, <3>5 DEF ClaimsInv
    <3>8. \A v \in Workers : HoldsClaim(v)' => processedAt'[tx'[v].event] = 0
      BY <1>0, <2>3, <3>4, <3>5 DEF ClaimsInv, HoldsClaim
    <3> QED
      BY <2>3, <2>4, <3>6, <3>7, <3>8 DEF ClaimsInv
  <2> QED BY <2>5, <2>6
<1>6. ASSUME NEW w \in Workers, Swallow(w) \/ Fail(w)
      PROVE  ClaimsInv'
  <2>1. /\ Others(w) /\ ~Busy(w)'
        /\ UNCHANGED <<processedAt, applications, applied, clock>>
    BY <1>6, EndFrame DEF Swallow, Fail, Answer, table, history
  <2> QED
    BY <1>0, <2>1, ClaimsKept DEF HoldsClaim
<1>7. ASSUME NEW t \in 1..MaxTransactions, Cleanup(t)
      PROVE  ClaimsInv'
  <2>1. UNCHANGED <<tx, clock, applied>>
    BY <1>7 DEF Cleanup
  <2>2. \A e \in Events : \/ processedAt'[e] = 0 /\ applications'[e] = 0
                          \/ /\ processedAt'[e] = processedAt[e]
                             /\ applications'[e] = applications[e]
    BY <1>7 DEF Cleanup
  <2>3. \A v \in Workers : /\ HoldsClaim(v)' <=> HoldsClaim(v)
                           /\ Busy(v)' <=> Busy(v)
    BY <2>1 DEF HoldsClaim, Busy
  <2>4. \A e \in Events : /\ applications'[e] = IF processedAt'[e] = 0 THEN 0 ELSE 1
                          /\ processedAt'[e] # 0 => e \in applied'
                          /\ processedAt'[e] <= clock'
    BY <1>0, <2>1, <2>2 DEF ClaimsInv
  <2>5. \A v \in Workers : HoldsClaim(v)' => processedAt'[tx'[v].event] = 0
    BY <1>0, <2>1, <2>2, <2>3 DEF ClaimsInv, HoldsClaim
  <2> QED
    BY <2>1, <2>3, <2>4, <2>5 DEF ClaimsInv
<1>8. CASE UNCHANGED vars
  <2>1. \A v \in Workers : /\ HoldsClaim(v)' <=> HoldsClaim(v)
                           /\ Busy(v)' <=> Busy(v)
    BY <1>8 DEF HoldsClaim, Busy, vars
  <2> QED
    BY <1>8, <2>1 DEF ClaimsInv, vars, table, history
<1> QED
  BY <1>1, <1>2, <1>3, <1>4, <1>5, <1>6, <1>7, <1>8
     DEF Next, Step, Deliver, Replay, Modes

-----------------------------------------------------------------------------
(* Acknowledgements, and the member's current subscription. *)

LEMMA AckStep ==
  ASSUME TypeOK, ClaimsInv, AcknowledgedIsSettled, [Next]_vars
  PROVE  AcknowledgedIsSettled'
<1> DEFINE Settled == applied \cup stale \cup swallowed
<1>1. ASSUME NEW w \in Workers, Claim(w)
      PROVE  AcknowledgedIsSettled'
  <2>1. UNCHANGED <<applied, stale, swallowed>> /\ tx[w].event \in Events
    BY <1>1, BusyFields DEF Claim, history, At
  <2>2. acked' \subseteq acked \cup {tx[w].event}
    BY <1>1 DEF Claim, Answer
  <2>3. CASE Duplicate(tx[w].event)
    <3>1. tx[w].event \in applied
      BY <2>1, <2>3 DEF Duplicate, ClaimsInv
    <3> QED BY <2>1, <2>2, <3>1 DEF AcknowledgedIsSettled
  <2>4. CASE ~Duplicate(tx[w].event)
    BY <1>1, <2>1, <2>4 DEF Claim, AcknowledgedIsSettled
  <2> QED BY <2>3, <2>4
<1>2. ASSUME NEW w \in Workers, CheckOrder(w)
      PROVE  AcknowledgedIsSettled'
  BY <1>2 DEF CheckOrder, Answer, AcknowledgedIsSettled
<1>3. ASSUME NEW w \in Workers, Commit(w) \/ Swallow(w)
      PROVE  AcknowledgedIsSettled'
  BY <1>3 DEF Commit, Swallow, Answer, AcknowledgedIsSettled
<1>4. ASSUME NEW w \in Workers, NEW e \in Events, NEW mode \in Modes, Begin(w, e, mode)
      PROVE  AcknowledgedIsSettled'
  BY <1>4 DEF Begin, AcknowledgedIsSettled, stripe
<1>5. ASSUME NEW w \in Workers, ReadMember(w) \/ Fail(w)
      PROVE  AcknowledgedIsSettled'
  BY <1>5 DEF ReadMember, Fail, AcknowledgedIsSettled, stripe, history
<1>6. ASSUME NEW t \in 1..MaxTransactions, Cleanup(t)
      PROVE  AcknowledgedIsSettled'
  BY <1>6 DEF Cleanup, AcknowledgedIsSettled
<1>7. CASE UNCHANGED vars
  BY <1>7 DEF vars, AcknowledgedIsSettled, stripe, history
<1> QED
  BY <1>1, <1>2, <1>3, <1>4, <1>5, <1>6, <1>7 DEF Next, Step, Deliver, Replay, Modes

\* Only a commit changes the member's row or the histories of subscriptions.
MemberRow == <<membership, subscription, applied, latest>>

LEMMA OnlyCommitsWrite ==
  ASSUME TypeOK, [Next]_vars
  PROVE  \/ \E w \in Workers : Commit(w)
         \/ UNCHANGED MemberRow
  BY DEF Next, Step, Deliver, Replay, Begin, Claim, CheckOrder, ReadMember, Swallow, Fail,
         Cleanup, vars, table, history, MemberRow

\* A new subscription never leaves its member cancelled.
LEMMA SubscribedIsMember ==
  ASSUME TypeOK, NEW e \in Events, NEW seen \in Statuses, seen # "absent" => membership # "absent"
  PROVE  Subscribed(e, seen, membership) \notin {"absent", "cancelled"}
<1>1. Payload[e] \in StripeStatuses /\ membership \in Statuses
  BY EventsAssumption DEF TypeOK
<1>2. Mapped[Payload[e]] \notin {"absent"}
  BY <1>1 DEF Mapped, StripeStatuses
<1> QED
  BY <1>1, <1>2 DEF Subscribed, Lapsed

\* What the handlers make of the member's row.
LEMMA CommitEffect ==
  ASSUME TypeOK, SeenInv, SubscribedNotCancelled, NEW w \in Workers, Commit(w)
  PROVE  /\ membership' = "absent" => membership = "absent"
         /\ SubscribedNotCancelled'
         /\ \/ /\ Type[tx[w].event] = "created"
               /\ subscription' = Subscription[tx[w].event]
               /\ latest' = Subscription[tx[w].event]
            \/ /\ Type[tx[w].event] = "deleted"
               /\ Owns(tx[w].event)
               /\ tx[w].seen # "absent"
               /\ subscription' = NoSubscription
               /\ latest' = latest
            \/ /\ Type[tx[w].event] # "created"
               /\ Type[tx[w].event] = "deleted" => tx[w].seen = "absent" \/ ~Owns(tx[w].event)
               /\ subscription' = subscription
               /\ latest' = latest
<1> DEFINE e == tx[w].event
           seen == tx[w].seen
<1>1. /\ e \in Events /\ seen \in Statuses /\ Type[e] \in Types
      /\ Subscription[e] \in Subscriptions
  BY BusyFields DEF Commit, At
<1>2. seen # "absent" => membership # "absent"
  BY DEF SeenInv, Commit, At
<1>3. /\ membership' = NewMembership(e, seen)
      /\ subscription' = NewSubscription(e, seen)
      /\ latest' = IF Type[e] = "created" THEN Subscription[e] ELSE latest
  BY DEF Commit
<1> HIDE DEF e, seen
<1>4. CASE Type[e] = "created"
  <2>1. membership' = Subscribed(e, seen, membership) /\ subscription' = Subscription[e]
    BY <1>3, <1>4 DEF NewMembership, NewSubscription
  <2>2. membership' \notin {"absent", "cancelled"}
    BY <1>1, <1>2, <2>1, SubscribedIsMember
  <2> QED
    BY <1>3, <1>4, <2>1, <2>2 DEF SubscribedNotCancelled, e, seen
<1>5. CASE Type[e] # "created" /\ seen = "absent"
  <2>1. UNCHANGED <<membership, subscription, latest>>
    BY <1>3, <1>5 DEF NewMembership, NewSubscription
  <2> QED
    BY <1>5, <2>1 DEF SubscribedNotCancelled, e, seen
<1>6. CASE Type[e] \in {"updated", "paused", "resumed"} /\ seen # "absent"
  <2>1. UNCHANGED <<subscription, latest>>
    BY <1>3, <1>6 DEF NewSubscription
  <2>2. membership' \in {membership, "active", "past_due", "suspended", "frozen"}
    BY <1>3, <1>6 DEF NewMembership, Updated
  <2> QED
    BY <1>2, <1>6, <2>1, <2>2 DEF SubscribedNotCancelled, e, seen
<1>7. CASE Type[e] = "deleted" /\ seen # "absent" /\ ~Owns(e)
  <2>1. UNCHANGED <<membership, subscription, latest>>
    BY <1>3, <1>7 DEF NewMembership, NewSubscription
  <2> QED
    BY <1>7, <2>1 DEF SubscribedNotCancelled, e, seen
<1>8. CASE Type[e] = "deleted" /\ seen # "absent" /\ Owns(e)
  <2>1. /\ subscription' = NoSubscription /\ latest' = latest
        /\ membership' \in {"paused", "cancelled"}
    BY <1>3, <1>8 DEF NewMembership, NewSubscription
  <2> QED
    BY <1>8, <2>1 DEF SubscribedNotCancelled, e, seen
<1> QED
  BY <1>1, <1>4, <1>5, <1>6, <1>7, <1>8 DEF Types, Priority

LEMMA MemberStep ==
  ASSUME TypeOK, SeenInv, SubscribedNotCancelled, LatestIsKept, [Next]_vars
  PROVE  SubscribedNotCancelled' /\ LatestIsKept'
<1>1. ASSUME NEW w \in Workers, Commit(w)
      PROVE  SubscribedNotCancelled' /\ LatestIsKept'
  <2> DEFINE e == tx[w].event
  <2>1. SubscribedNotCancelled'
    BY <1>1, CommitEffect
  <2>2. /\ e \in Events /\ applied' = applied \cup {e} /\ Subscription[e] # NoSubscription
    BY <1>1, BusyFields, EventsAssumption DEF Commit, At
  <2>3. CASE subscription' = latest'
    BY <2>1, <2>3 DEF LatestIsKept
  <2>4. CASE /\ Type[e] = "deleted" /\ Owns(e)
             /\ subscription' = NoSubscription /\ latest' = latest
    <3>1. CASE latest = Subscription[e]
      BY <2>1, <2>2, <2>4, <3>1 DEF LatestIsKept
    <3>2. CASE latest # Subscription[e]
      BY <2>1, <2>2, <2>4, <3>2 DEF LatestIsKept, Owns
    <3> QED BY <3>1, <3>2
  <2>5. CASE subscription' = subscription /\ latest' = latest
    BY <2>1, <2>2, <2>5 DEF LatestIsKept
  <2> QED
    BY <1>1, <2>3, <2>4, <2>5, CommitEffect
<1>2. CASE UNCHANGED MemberRow
  BY <1>2 DEF MemberRow, SubscribedNotCancelled, LatestIsKept
<1> QED
  BY <1>1, <1>2, OnlyCommitsWrite

LEMMA SeenStep ==
  ASSUME TypeOK, SeenInv, SubscribedNotCancelled, [Next]_vars
  PROVE  SeenInv'
<1>0. membership' = "absent" => membership = "absent"
  BY OnlyCommitsWrite, CommitEffect DEF MemberRow
<1>1. ASSUME NEW w \in Workers, Others(w),
             Busy(w)' => \/ tx'[w].seen \in {"absent", membership}
                         \/ Busy(w) /\ tx'[w].seen = tx[w].seen
      PROVE  SeenInv'
  BY <1>0, <1>1 DEF SeenInv, Others
<1>2. ASSUME NEW w \in Workers, NEW e \in Events, NEW mode \in Modes, Begin(w, e, mode)
      PROVE  SeenInv'
  <2>1. tx'[w].seen = "absent"
    BY <1>2 DEF Begin, TypeOK
  <2>2. Others(w)
    BY <1>2, BeginFrame
  <2> QED
    BY <1>1, <2>1, <2>2
<1>3. ASSUME NEW w \in Workers, Claim(w) \/ CheckOrder(w)
      PROVE  SeenInv'
  <2>1. Busy(w) /\ "claimed" \in Points /\ "ordered" \in Points
    BY <1>3 DEF Claim, CheckOrder, At, Points
  <2>2. Answer(w) \/ Goto(w, "claimed") \/ Goto(w, "ordered")
    BY <1>3 DEF Claim, CheckOrder
  <2> QED
    BY <1>1, <2>1, <2>2, GotoFrame, EndFrame DEF Answer
<1>4. ASSUME NEW w \in Workers, ReadMember(w)
      PROVE  SeenInv'
  <2>1. Others(w) /\ tx'[w].seen = membership
    BY <1>4, ReadFrame
  <2> QED
    BY <1>1, <2>1
<1>5. ASSUME NEW w \in Workers, Commit(w) \/ Swallow(w) \/ Fail(w)
      PROVE  SeenInv'
  BY <1>1, <1>5, EndFrame DEF Commit, Swallow, Fail, Answer
<1>6. CASE UNCHANGED tx
  BY <1>0, <1>6 DEF SeenInv, Busy
<1> QED
  BY <1>2, <1>3, <1>4, <1>5, <1>6
     DEF Next, Step, Deliver, Replay, Modes, Cleanup, vars

-----------------------------------------------------------------------------
(* While the events of a subscription are handled one at a time. *)

\* A step of w that writes neither the rows nor the member, and begins nothing.
LEMMA OrderKept ==
  ASSUME TypeOK, OrderInv, NEW w \in Workers, Others(w),
         UNCHANGED <<processedAt, subscription, closed, disordered>>,
         Busy(w)' => /\ Busy(w)
                     /\ tx'[w].event = tx[w].event
                     /\ tx'[w].at = tx[w].at
                     /\ tx'[w].mode = tx[w].mode
                     /\ \/ tx'[w].pc # "read"
                        \/ tx'[w].seen # "absent"
                        \/ subscription = NoSubscription
  PROVE  OrderInv'
<1> SUFFICES ASSUME NEW u \in Workers, Busy(u)', Ordered(Subscription[tx[u].event])
             PROVE  LET e == tx[u].event
                        s == Subscription[e]
                    IN  /\ \A v \in Workers : Busy(v)' /\ Subscription[tx'[v].event] = s
                                              => tx'[v].event = e
                        /\ \A f \in Events : Subscription[f] = s /\ f # e
                                             => processedAt[f] < tx'[u].at
                        /\ tx'[u].mode = "forced" \/ e \in closed => processedAt[e] # 0
                        /\ Type[e] = "deleted" /\ tx'[u].pc = "read" /\ tx'[u].seen = "absent"
                              => subscription # s
  BY DEF OrderInv, Others, Ordered
<1>1. /\ Busy(u)
      /\ tx'[u].at = tx[u].at /\ tx'[u].mode = tx[u].mode
      /\ \A v \in Workers : Busy(v)' => Busy(v) /\ tx'[v].event = tx[v].event
  BY DEF Others
<1>2. Subscription[tx[u].event] # NoSubscription
  BY <1>1, BusyFields, EventsAssumption
<1>3. u # w => tx'[u] = tx[u]
  BY DEF Others
<1> QED
  BY <1>1, <1>2, <1>3 DEF OrderInv

LEMMA OrderStep ==
  ASSUME TypeOK, ClaimsInv, SubscribedNotCancelled, SeenInv, OrderInv, [Next]_vars
  PROVE  OrderInv'
<1>0. /\ clock \in Nat /\ processedAt \in [Events -> Nat]
      /\ \A v \in Workers : Busy(v) => /\ tx[v].event \in Events
                                       /\ tx[v].at \in 1..MaxTransactions
                                       /\ Subscription[tx[v].event] \in Subscriptions
  BY BusyFields, BoundsAssumption DEF TypeOK
<1>1. ASSUME NEW w \in Workers, NEW e \in Events, NEW mode \in Modes, Begin(w, e, mode)
      PROVE  OrderInv'
  <2>1. /\ Others(w) /\ Busy(w)'
        /\ tx'[w].pc # "read" /\ tx'[w].event = e /\ tx'[w].at = clock + 1
        /\ tx'[w].mode = mode
    BY <1>1, BeginFrame
  <2>2. /\ UNCHANGED <<processedAt, subscription, closed>>
        /\ ~Busy(w) /\ disordered \subseteq disordered'
    BY <1>1 DEF Begin, table, stripe
  <2>3. Subscription[e] \in Subscriptions
    BY EventsAssumption
  <2>4. Subscription[e] \in Subscriptions \ disordered' =>
          /\ \A v \in Workers : Busy(v) /\ Subscription[tx[v].event] = Subscription[e]
                                => tx[v].event = e
          /\ mode = "forced" \/ e \in closed => processedAt[e] # 0
    BY <1>1, <2>3 DEF Begin, Ordered
  <2> SUFFICES ASSUME NEW u \in Workers, Busy(u)',
                      Subscription[tx'[u].event] \in Subscriptions \ disordered'
               PROVE  LET d == tx'[u].event
                          s == Subscription[d]
                      IN  /\ \A v \in Workers : Busy(v)' /\ Subscription[tx'[v].event] = s
                                                => tx'[v].event = d
                          /\ \A f \in Events : Subscription[f] = s /\ f # d
                                               => processedAt[f] < tx'[u].at
                          /\ tx'[u].mode = "forced" \/ d \in closed => processedAt[d] # 0
                          /\ Type[d] = "deleted" /\ tx'[u].pc = "read" /\ tx'[u].seen = "absent"
                                => subscription # s
    BY <2>2 DEF OrderInv, Ordered
  <2>5. CASE u = w
    <3>1. \A v \in Workers : Busy(v)' /\ Subscription[tx'[v].event] = Subscription[e]
                             => tx'[v].event = e
      BY <2>1, <2>4, <2>5 DEF Others
    <3>2. \A f \in Events : processedAt[f] < clock + 1
      BY <1>0 DEF ClaimsInv
    <3> QED
      BY <2>1, <2>4, <2>5, <3>1, <3>2
  <2>6. CASE u # w
    <3>1. tx'[u] = tx[u] /\ Busy(u) /\ Ordered(Subscription[tx[u].event])
      BY <2>1, <2>2, <2>6 DEF Others, Ordered
    <3>2. \A v \in Workers : Busy(v)' /\ Subscription[tx'[v].event] = Subscription[tx[u].event]
                             => tx'[v].event = tx[u].event
      <4>1. CASE Subscription[tx[u].event] = Subscription[e]
        BY <2>1, <2>4, <3>1, <4>1 DEF Others
      <4>2. CASE Subscription[tx[u].event] # Subscription[e]
        BY <2>1, <3>1, <4>2 DEF Others, OrderInv
      <4> QED BY <4>1, <4>2
    <3> QED
      BY <3>1, <3>2 DEF OrderInv
  <2> QED BY <2>5, <2>6
<1>2. ASSUME NEW w \in Workers, Claim(w)
      PROVE  OrderInv'
  <2>1. Busy(w) /\ "claimed" \in Points /\ UNCHANGED <<processedAt, subscription, closed, disordered>>
    BY <1>2 DEF Claim, At, Points, table, history
  <2>2. CASE Answer(w)
    BY <2>1, <2>2, EndFrame, OrderKept DEF Answer
  <2>3. CASE Goto(w, "claimed")
    BY <2>1, <2>3, GotoFrame, OrderKept
  <2> QED BY <1>2, <2>2, <2>3 DEF Claim
<1>3. ASSUME NEW w \in Workers, CheckOrder(w)
      PROVE  OrderInv'
  <2>1. Busy(w) /\ "ordered" \in Points /\ UNCHANGED <<processedAt, subscription, closed, disordered>>
    BY <1>3 DEF CheckOrder, At, Points, table
  <2>2. CASE Answer(w)
    BY <2>1, <2>2, EndFrame, OrderKept DEF Answer
  <2>3. CASE Goto(w, "ordered")
    BY <2>1, <2>3, GotoFrame, OrderKept
  <2> QED BY <1>3, <2>2, <2>3 DEF CheckOrder
<1>4. ASSUME NEW w \in Workers, ReadMember(w)
      PROVE  OrderInv'
  <2>1. Busy(w) /\ UNCHANGED <<processedAt, subscription, closed, disordered>>
    BY <1>4 DEF ReadMember, At, table, stripe, history
  <2>2. membership = "absent" => subscription = NoSubscription
    BY DEF SubscribedNotCancelled
  <2> QED
    BY <1>4, <2>1, <2>2, ReadFrame, OrderKept
<1>5. ASSUME NEW w \in Workers, Swallow(w) \/ Fail(w)
      PROVE  OrderInv'
  <2>1. /\ Others(w) /\ ~Busy(w)'
        /\ UNCHANGED <<processedAt, subscription, closed, disordered>>
    BY <1>5, EndFrame DEF Swallow, Fail, Answer, table, stripe, history
  <2> QED
    BY <2>1, OrderKept
<1>6. ASSUME NEW w \in Workers, Commit(w)
      PROVE  OrderInv'
  <2> DEFINE e == tx[w].event
  <2>1. /\ Busy(w) /\ Others(w) /\ ~Busy(w)' /\ UNCHANGED <<closed, disordered>>
    BY <1>6, EndFrame DEF Commit, At, Answer
  <2>2. /\ e \in Events /\ processedAt' \in [Events -> Nat]
        /\ \A f \in Events : f # e => processedAt'[f] = processedAt[f]
        /\ processedAt[e] # 0 => processedAt'[e] # 0
    BY <1>0, <1>6, <2>1 DEF Commit
  <2> SUFFICES ASSUME NEW u \in Workers, u # w, Busy(u), Ordered(Subscription[tx[u].event])
               PROVE  LET d == tx[u].event
                          s == Subscription[d]
                      IN  /\ \A v \in Workers : Busy(v) /\ Subscription[tx[v].event] = s
                                                => tx[v].event = d
                          /\ \A f \in Events : Subscription[f] = s /\ f # d
                                               => processedAt'[f] < tx[u].at
                          /\ tx[u].mode = "forced" \/ d \in closed => processedAt'[d] # 0
                          /\ Type[d] = "deleted" /\ tx[u].pc = "read" /\ tx[u].seen = "absent"
                                => subscription' # s
    BY <2>1 DEF OrderInv, Others, Ordered
  <2>3. Subscription[e] = Subscription[tx[u].event] => e = tx[u].event
    BY <2>1 DEF OrderInv
  <2>4. \A f \in Events : Subscription[f] = Subscription[tx[u].event] /\ f # tx[u].event
                          => processedAt'[f] < tx[u].at
    BY <2>2, <2>3 DEF OrderInv
  <2>5. Type[tx[u].event] = "deleted" /\ tx[u].pc = "read" /\ tx[u].seen = "absent"
        => subscription' # Subscription[tx[u].event]
    <3>1. Subscription[tx[u].event] # NoSubscription
      BY <1>0, EventsAssumption
    <3> QED
      BY <1>6, <2>3, <3>1, CommitEffect DEF OrderInv
  <2> QED
    BY <1>0, <2>2, <2>4, <2>5 DEF OrderInv
<1>7. ASSUME NEW t \in 1..MaxTransactions, Cleanup(t)
      PROVE  OrderInv'
  <2>1. UNCHANGED <<tx, subscription, disordered>> /\ closed' = closed \cup ClosedBy(t)
    BY <1>7 DEF Cleanup
  <2>2. \A f \in Events : processedAt'[f] = IF TooOld(f, t) THEN 0 ELSE processedAt[f]
    BY <1>7 DEF Cleanup
  <2>3. \A f \in Events : TooOld(f, t) => f \in ClosedBy(t)
    BY EventsAssumption DEF ClosedBy
  <2>4. \A v \in Workers : Busy(v) => tx[v].event \notin ClosedBy(t)
    BY <1>7 DEF Cleanup
  <2> SUFFICES ASSUME NEW u \in Workers, Busy(u), Ordered(Subscription[tx[u].event])
               PROVE  LET d == tx[u].event
                          s == Subscription[d]
                      IN  /\ \A v \in Workers : Busy(v) /\ Subscription[tx[v].event] = s
                                                => tx[v].event = d
                          /\ \A f \in Events : Subscription[f] = s /\ f # d
                                               => processedAt'[f] < tx[u].at
                          /\ tx[u].mode = "forced" \/ d \in closed' => processedAt'[d] # 0
                          /\ Type[d] = "deleted" /\ tx[u].pc = "read" /\ tx[u].seen = "absent"
                                => subscription # s
    BY <2>1 DEF OrderInv, Busy, Ordered
  <2>5. tx[u].event \in Events /\ tx[u].at \in 1..MaxTransactions
    BY <1>0
  <2>6. processedAt'[tx[u].event] = processedAt[tx[u].event]
    BY <2>2, <2>3, <2>4, <2>5
  <2>7. \A f \in Events : processedAt[f] < tx[u].at => processedAt'[f] < tx[u].at
    BY <2>2, <2>5
  <2> QED
    BY <2>1, <2>4, <2>5, <2>6, <2>7 DEF OrderInv
<1>8. CASE UNCHANGED vars
  BY <1>8 DEF OrderInv, Busy, Ordered, vars, table, stripe, history
<1> QED
  BY <1>1, <1>2, <1>3, <1>4, <1>5, <1>6, <1>7, <1>8
     DEF Next, Step, Deliver, Replay, Modes

-----------------------------------------------------------------------------
(* A deletion goes on holding back the other events of its subscription,   *)
(* and once its row is gone there are no others left to hold back.         *)

LEMMA BlockedKept ==
  ASSUME NEW s \in Subscriptions, Blocked(s), NEW w \in Workers, Others(w),
         UNCHANGED processedAt,
         Busy(w)' /\ Subscription[tx'[w].event] = s /\ Type[tx'[w].event] # "deleted"
            => tx'[w].pc \in {"begun", "claimed"}
  PROVE  Blocked(s)'
<1>1. DeletionLast(s)'
  BY DEF Blocked, DeletionLast
<1>2. NothingPasses(s)'
  BY DEF Blocked, NothingPasses, Others
<1> QED BY <1>1, <1>2 DEF Blocked

LEMMA OverKept ==
  ASSUME NEW s \in Subscriptions, Over(s), UNCHANGED processedAt, closed \subseteq closed'
  PROVE  Over(s)'
  BY DEF Over

\* What is not the deletion does not get past the check.
LEMMA DeletionBlocks ==
  ASSUME NEW e \in Events, Type[e] # "deleted", DeletionLast(Subscription[e])
  PROVE  OutOfOrder(e)
<1>1. PICK d \in Events : /\ Subscription[d] = Subscription[e]
                          /\ Type[d] = "deleted"
                          /\ processedAt[d] # 0
                          /\ \A f \in Events : Subscription[f] = Subscription[e]
                                               => processedAt[f] <= processedAt[d]
  BY DEF DeletionLast
<1>2. d \in LastBefore(e)
  BY <1>1 DEF LastBefore
<1>3. Type[e] \in {"created", "updated", "paused", "resumed"}
  BY EventsAssumption DEF Types, Priority
<1>4. Priority[Type[d]] > Priority[Type[e]]
  BY <1>1, <1>3 DEF Priority
<1> QED
  BY <1>1, <1>2, <1>4 DEF OutOfOrder

\* A step other than a commit.
LEMMA GuardKept ==
  ASSUME TypeOK, [Next]_vars, ~\E w \in Workers : Commit(w),
         NEW s \in Subscriptions, Blocked(s) \/ Over(s)
  PROVE  (Blocked(s) \/ Over(s))'
<1>1. ASSUME NEW w \in Workers, Others(w), UNCHANGED <<processedAt, closed>>,
             Busy(w)' /\ Subscription[tx'[w].event] = s /\ Type[tx'[w].event] # "deleted"
                => \/ tx'[w].pc \in {"begun", "claimed"}
                   \/ ~Blocked(s)
      PROVE  Blocked(s)' \/ Over(s)'
  <2>1. CASE Blocked(s)
    BY <1>1, <2>1, BlockedKept
  <2>2. CASE Over(s)
    BY <1>1, <2>2, OverKept
  <2> QED BY <2>1, <2>2
<1>2. ASSUME NEW w \in Workers, NEW e \in Events, NEW mode \in Modes, Begin(w, e, mode)
      PROVE  Blocked(s)' \/ Over(s)'
  <2>1. Others(w) /\ tx'[w].pc \in {"begun", "claimed"}
    BY <1>2, BeginFrame
  <2>2. UNCHANGED <<processedAt, closed>>
    BY <1>2 DEF Begin, table, stripe
  <2> QED
    BY <1>1, <2>1, <2>2
<1>3. ASSUME NEW w \in Workers, Claim(w)
      PROVE  Blocked(s)' \/ Over(s)'
  <2>1. Busy(w) /\ "claimed" \in Points /\ UNCHANGED <<processedAt, closed>>
    BY <1>3 DEF Claim, At, Points, table
  <2>2. CASE Answer(w)
    BY <1>1, <2>1, <2>2, EndFrame DEF Answer
  <2>3. CASE Goto(w, "claimed")
    BY <1>1, <2>1, <2>3, GotoFrame
  <2> QED BY <1>3, <2>2, <2>3 DEF Claim
<1>4. ASSUME NEW w \in Workers, CheckOrder(w)
      PROVE  Blocked(s)' \/ Over(s)'
  <2>1. /\ Busy(w) /\ "ordered" \in Points /\ UNCHANGED <<processedAt, closed>>
        /\ tx[w].event \in Events
    BY <1>4, BusyFields DEF CheckOrder, At, Points, table
  <2>2. CASE OutOfOrder(tx[w].event)
    <3>1. Others(w) /\ ~Busy(w)'
      BY <1>4, <2>2, EndFrame DEF CheckOrder, Answer
    <3> QED
      BY <1>1, <2>1, <3>1
  <2>3. CASE ~OutOfOrder(tx[w].event)
    <3>1. Goto(w, "ordered")
      BY <1>4, <2>3 DEF CheckOrder
    <3>2. Others(w) /\ tx'[w].event = tx[w].event
      BY <2>1, <3>1, GotoFrame
    <3>3. Subscription[tx[w].event] = s /\ Type[tx[w].event] # "deleted" => ~Blocked(s)
      BY <2>1, <2>3, DeletionBlocks DEF Blocked
    <3> QED
      BY <1>1, <2>1, <3>2, <3>3
  <2> QED BY <2>2, <2>3
<1>5. ASSUME NEW w \in Workers, ReadMember(w)
      PROVE  Blocked(s)' \/ Over(s)'
  <2>1. Busy(w) /\ tx[w].pc = "ordered" /\ UNCHANGED <<processedAt, closed>>
    BY <1>5 DEF ReadMember, At, table, stripe
  <2>2. Others(w) /\ tx'[w].event = tx[w].event
    BY <1>5, ReadFrame
  <2>3. Subscription[tx[w].event] = s /\ Type[tx[w].event] # "deleted" => ~Blocked(s)
    BY <2>1 DEF Blocked, NothingPasses
  <2> QED
    BY <1>1, <2>1, <2>2, <2>3
<1>6. ASSUME NEW w \in Workers, Swallow(w) \/ Fail(w)
      PROVE  Blocked(s)' \/ Over(s)'
  <2>1. Others(w) /\ ~Busy(w)' /\ UNCHANGED <<processedAt, closed>>
    BY <1>6, EndFrame DEF Swallow, Fail, Answer, table, stripe
  <2> QED
    BY <1>1, <2>1
<1>7. ASSUME NEW t \in 1..MaxTransactions, Cleanup(t)
      PROVE  Blocked(s)' \/ Over(s)'
  <2>1. UNCHANGED tx /\ closed' = closed \cup ClosedBy(t) /\ processedAt \in [Events -> Nat]
    BY <1>7, BoundsAssumption DEF Cleanup, TypeOK
  <2>2. \A f \in Events : processedAt'[f] = IF TooOld(f, t) THEN 0 ELSE processedAt[f]
    BY <1>7 DEF Cleanup
  <2>3. CASE Over(s)
    BY <2>1, <2>2, <2>3 DEF Over
  <2>4. CASE Blocked(s)
    <3>1. PICK d \in Events : /\ Subscription[d] = s
                              /\ Type[d] = "deleted"
                              /\ processedAt[d] # 0
                              /\ \A f \in Events : Subscription[f] = s
                                                   => processedAt[f] <= processedAt[d]
      BY <2>4 DEF Blocked, DeletionLast
    <3>2. CASE TooOld(d, t)
      <4>1. \A f \in Events : Subscription[f] = s => f \in ClosedBy(t)
        BY <3>1, <3>2, DeletionAssumption DEF ClosedBy
      <4>2. \A f \in Events : Subscription[f] = s => processedAt'[f] = 0
        BY <2>1, <2>2, <3>1, <3>2 DEF TooOld
      <4> QED
        BY <2>1, <4>1, <4>2 DEF Over
    <3>3. CASE ~TooOld(d, t)
      <4>1. processedAt'[d] = processedAt[d]
        BY <2>2, <3>3
      <4>2. \A f \in Events : Subscription[f] = s => processedAt'[f] <= processedAt'[d]
        BY <2>1, <2>2, <3>1, <4>1
      <4>3. DeletionLast(s)'
        BY <3>1, <4>1, <4>2 DEF DeletionLast
      <4>4. NothingPasses(s)'
        BY <2>1, <2>4 DEF Blocked, NothingPasses, Busy
      <4> QED BY <4>3, <4>4 DEF Blocked
    <3> QED BY <3>2, <3>3
  <2> QED BY <2>3, <2>4
<1>8. CASE UNCHANGED vars
  BY <1>8 DEF Blocked, DeletionLast, NothingPasses, Over, Busy, vars, table, stripe
<1> QED
  BY <1>2, <1>3, <1>4, <1>5, <1>6, <1>7, <1>8 DEF Next, Step, Deliver, Replay, Modes

\* A transaction about an orderly, deleted subscription that is ready to commit
\* is its deletion.
LEMMA OnlyDeletionCommits ==
  ASSUME OrderInv, NEW w \in Workers, Busy(w), tx[w].pc = "read", tx[w].event \in Events,
         Ordered(Subscription[tx[w].event]),
         \/ Blocked(Subscription[tx[w].event])
         \/ Over(Subscription[tx[w].event])
  PROVE  Type[tx[w].event] = "deleted"
<1>1. CASE Blocked(Subscription[tx[w].event])
  BY <1>1 DEF Blocked, NothingPasses
<1>2. CASE Over(Subscription[tx[w].event])
  BY <1>2 DEF Over, OrderInv
<1> QED BY <1>1, <1>2

LEMMA DeletionStep ==
  ASSUME TypeOK, ClaimsInv, OrderInv, DeletionInv, [Next]_vars
  PROVE  DeletionInv'
<1>1. ASSUME ~\E w \in Workers : Commit(w)
      PROVE  DeletionInv'
  <2>1. UNCHANGED applied /\ disordered \subseteq disordered'
    BY <1>1, OnlyCommitsWrite
       DEF MemberRow, Next, Step, Deliver, Replay, Begin, Claim, CheckOrder, ReadMember,
           Swallow, Fail, Cleanup, vars, history
  <2> SUFFICES ASSUME NEW d \in applied, Type[d] = "deleted",
                      Subscription[d] \in Subscriptions \ disordered'
               PROVE  (Blocked(Subscription[d]) \/ Over(Subscription[d]))'
    BY <2>1 DEF DeletionInv, Ordered
  <2>2. Blocked(Subscription[d]) \/ Over(Subscription[d])
    BY <2>1 DEF DeletionInv, Ordered
  <2> QED
    BY <1>1, <2>2, GuardKept
<1>2. ASSUME NEW w \in Workers, Commit(w)
      PROVE  DeletionInv'
  <2> DEFINE e == tx[w].event
  <2>1. /\ Busy(w) /\ tx[w].pc = "read" /\ Others(w) /\ ~Busy(w)'
        /\ UNCHANGED <<closed, disordered>> /\ applied' = applied \cup {e}
    BY <1>2, EndFrame DEF Commit, At, Answer
  <2>2. /\ e \in Events /\ tx[w].at \in 1..MaxTransactions
        /\ processedAt \in [Events -> Nat]
    BY <2>1, BusyFields, BoundsAssumption DEF TypeOK
  <2> SUFFICES ASSUME NEW d \in applied \cup {e}, Type[d] = "deleted",
                      Ordered(Subscription[d])
               PROVE  Blocked(Subscription[d])' \/ Over(Subscription[d])'
    BY <2>1 DEF DeletionInv, Ordered
  <2> DEFINE s == Subscription[d]
  <2>3. s \in Subscriptions
    BY DEF Ordered
  <2>4. CASE Subscription[e] # s
    <3>1. \A f \in Events : Subscription[f] = s => processedAt'[f] = processedAt[f]
      BY <1>2, <2>2, <2>4 DEF Commit
    <3>2. Blocked(s) \/ Over(s)
      BY <2>4 DEF DeletionInv
    <3>3. Blocked(s) => Blocked(s)'
      BY <2>1, <3>1 DEF Blocked, DeletionLast, NothingPasses, Others
    <3>4. Over(s) => Over(s)'
      BY <2>1, <3>1 DEF Over
    <3> QED BY <3>2, <3>3, <3>4
  <2>5. CASE Subscription[e] = s
    <3>1. Type[e] = "deleted"
      BY <2>1, <2>2, <2>5, OnlyDeletionCommits DEF DeletionInv
    <3>2. CASE tx[w].mode = "forced"
      <4>1. UNCHANGED processedAt
        BY <1>2, <3>2 DEF Commit
      <4>2. processedAt[e] # 0
        BY <2>1, <2>5, <3>2 DEF OrderInv
      <4>3. e \in applied
        BY <2>2, <4>2 DEF ClaimsInv
      <4>4. Blocked(s) \/ Over(s)
        BY <2>5, <3>1, <4>3 DEF DeletionInv
      <4>5. Blocked(s) => Blocked(s)'
        BY <2>1, <2>3, <4>1, BlockedKept
      <4>6. Over(s) => Over(s)'
        BY <2>1, <2>3, <4>1, OverKept
      <4> QED BY <4>4, <4>5, <4>6
    <3>3. CASE tx[w].mode # "forced"
      <4>1. /\ processedAt'[e] = tx[w].at
            /\ \A f \in Events \ {e} : processedAt'[f] = processedAt[f]
        BY <1>2, <2>2, <3>3 DEF Commit
      <4>2. \A f \in Events : Subscription[f] = s /\ f # e => processedAt[f] < tx[w].at
        BY <2>1, <2>5 DEF OrderInv
      <4>3. DeletionLast(s)'
        <5>1. \A f \in Events : Subscription[f] = s => processedAt'[f] <= processedAt'[e]
          BY <2>2, <4>1, <4>2
        <5> QED
          BY <2>2, <2>5, <3>1, <4>1, <5>1 DEF DeletionLast
      <4>4. NothingPasses(s)'
        <5>1. \A v \in Workers : Busy(v) /\ Subscription[tx[v].event] = s => tx[v].event = e
          BY <2>1, <2>5 DEF OrderInv
        <5> QED
          BY <2>1, <3>1, <5>1 DEF NothingPasses, Others
      <4> QED BY <4>3, <4>4 DEF Blocked
    <3> QED BY <3>2, <3>3
  <2> QED BY <2>4, <2>5
<1> QED BY <1>1, <1>2

LEMMA FinalStep ==
  ASSUME TypeOK, ClaimsInv, SeenInv, SubscribedNotCancelled, OrderInv, DeletionInv,
         DeletionIsFinal, [Next]_vars
  PROVE  DeletionIsFinal'
<1>1. CASE UNCHANGED MemberRow
  <2>1. disordered \subseteq disordered'
    BY DEF Next, Step, Deliver, Replay, Begin, Claim, CheckOrder, ReadMember, Commit,
           Swallow, Fail, Cleanup, vars, history
  <2> QED
    BY <1>1, <2>1 DEF DeletionIsFinal, MemberRow
<1>2. ASSUME NEW w \in Workers, Commit(w)
      PROVE  DeletionIsFinal'
  <2> DEFINE e == tx[w].event
  <2>1. /\ Busy(w) /\ tx[w].pc = "read" /\ UNCHANGED disordered
        /\ applied' = applied \cup {e}
    BY <1>2 DEF Commit, At
  <2>2. e \in Events /\ Subscription[e] \in Subscriptions /\ applied \subseteq Events
    BY <2>1, BusyFields DEF TypeOK
  <2> SUFFICES ASSUME NEW d \in applied \cup {e}, Type[d] = "deleted",
                      Subscription[d] \notin disordered
               PROVE  subscription' # Subscription[d]
    BY <2>1 DEF DeletionIsFinal
  <2>3. Subscription[d] \in Subscriptions
    BY <2>2, EventsAssumption
  <2>4. Subscription[d] # NoSubscription
    BY <2>3, EventsAssumption
  <2>5. CASE Type[e] = "created" /\ subscription' = Subscription[e]
    <3>1. d \in applied
      BY <2>5
    <3>2. Ordered(Subscription[d])
      BY <2>3 DEF Ordered
    <3>3. Blocked(Subscription[d]) \/ Over(Subscription[d])
      BY <3>1, <3>2 DEF DeletionInv
    <3>4. Subscription[e] # Subscription[d]
      BY <2>1, <2>2, <2>5, <3>2, <3>3, OnlyDeletionCommits
    <3> QED BY <2>5, <3>4
  <2>6. CASE subscription' = NoSubscription
    BY <2>4, <2>6
  <2>7. CASE /\ Type[e] = "deleted" => tx[w].seen = "absent" \/ ~Owns(e)
             /\ subscription' = subscription
    <3>1. CASE d \in applied
      BY <2>7, <3>1 DEF DeletionIsFinal
    <3>2. CASE d = e /\ tx[w].seen = "absent"
      BY <2>1, <2>3, <2>7, <3>2 DEF OrderInv, Ordered
    <3>3. CASE d = e /\ ~Owns(e)
      BY <2>7, <3>3 DEF Owns
    <3> QED BY <2>7, <3>1, <3>2, <3>3
  <2> QED
    BY <1>2, <2>5, <2>6, <2>7, CommitEffect
<1> QED BY <1>1, <1>2, OnlyCommitsWrite

-----------------------------------------------------------------------------

LEMMA InitIInv ==
  ASSUME Init
  PROVE  IInv
<1>1. \A w \in Workers : ~Busy(w)
  BY DEF Init, Busy
<1>2. TypeOK
  BY BoundsAssumption DEF Init, TypeOK, Statuses, Transactions
<1>3. ClaimsInv /\ SeenInv /\ OrderInv
  BY <1>1 DEF Init, ClaimsInv, SeenInv, OrderInv, HoldsClaim
<1>4. AcknowledgedIsSettled /\ LatestIsKept /\ SubscribedNotCancelled
  BY DEF Init, AcknowledgedIsSettled, LatestIsKept, SubscribedNotCancelled
<1>5. DeletionInv /\ DeletionIsFinal
  BY DEF Init, DeletionInv, DeletionIsFinal
<1> QED BY <1>2, <1>3, <1>4, <1>5 DEF IInv

\* The transactions of a customer's events keep the inductive invariant.
THEOREM Inductive == Spec => []IInv
<1>1. Init => IInv
  BY InitIInv
<1>2. IInv /\ [Next]_vars => IInv'
  <2> SUFFICES ASSUME IInv, [Next]_vars
               PROVE  IInv'
    OBVIOUS
  <2>1. TypeOK'
    BY TypeStep DEF IInv
  <2>2. ClaimsInv' /\ AcknowledgedIsSettled'
    BY ClaimsStep, AckStep DEF IInv
  <2>3. LatestIsKept' /\ SubscribedNotCancelled' /\ SeenInv'
    BY MemberStep, SeenStep DEF IInv
  <2>4. OrderInv'
    BY OrderStep DEF IInv
  <2>5. DeletionInv'
    BY DeletionStep DEF IInv
  <2>6. DeletionIsFinal'
    BY FinalStep DEF IInv
  <2> QED BY <2>1, <2>2, <2>3, <2>4, <2>5, <2>6 DEF IInv
<1> QED BY <1>1, <1>2, PTL DEF Spec

\* The rows, the member and the transactions keep their types.
THEOREM TypeCorrect == Spec => []TypeOK
<1>1. IInv => TypeOK
  BY DEF IInv
<1> QED BY <1>1, Inductive, PTL

\* tryClaimEvent and the commit apply an event at most once while its claim lives.
THEOREM AppliesOnce == Spec => []AppliedOnce
<1>1. IInv => AppliedOnce
  <2> SUFFICES ASSUME ClaimsInv, NEW e \in Events
               PROVE  applications[e] <= 1
    BY DEF IInv, AppliedOnce
  <2>1. applications[e] = 0 \/ applications[e] = 1
    BY DEF ClaimsInv
  <2> QED BY <2>1
<1> QED BY <1>1, Inductive, PTL

\* A 200 is answered for what was applied, rejected as out of order, or rolled
\* back by an error that a handler caught.
THEOREM AcknowledgesSettled == Spec => []AcknowledgedIsSettled
<1>1. IInv => AcknowledgedIsSettled
  BY DEF IInv
<1> QED BY <1>1, Inductive, PTL

\* The events of an old subscription never take a new one from the member,
\* in whatever order and however concurrently they are handled.
THEOREM KeepsLatest == Spec => []LatestIsKept
<1>1. IInv => LatestIsKept
  BY DEF IInv
<1> QED BY <1>1, Inductive, PTL

\* The handlers leave no cancelled member with a subscription.
THEOREM SubscribersAreMembers == Spec => []SubscribedNotCancelled
<1>1. IInv => SubscribedNotCancelled
  BY DEF IInv
<1> QED BY <1>1, Inductive, PTL

\* checkResourceEventOrder makes a deletion final while the events of its
\* subscription are handled one at a time.
THEOREM DeletionFinal == Spec => []DeletionIsFinal
<1>1. IInv => DeletionIsFinal
  BY DEF IInv
<1> QED BY <1>1, Inductive, PTL

-----------------------------------------------------------------------------
(* The transactions implement the inbox. *)

LEMMA InitInbox == Init => Inbox!Init
BY DEF Init, Inbox!Init, Recorded

\* What the endpoint may tell Stripe.
LEMMA AnswersOrNot ==
  ASSUME NEW w \in Workers, Answer(w), NEW e, e = tx[w].event
  PROVE  Inbox!MayAnswer(e)
BY DEF Answer, Inbox!MayAnswer

\* A transaction that begins may mix up the events of its subscription.
LEMMA BeginMixes ==
  ASSUME NEW w \in Workers, NEW e \in Events, NEW mode, Begin(w, e, mode)
  PROVE  [Inbox!Next]_(Inbox!vars)
<1>1. UNCHANGED <<table, stripe, applied, stale, swallowed>>
  BY DEF Begin
<1>2. Recorded' = Recorded
  BY <1>1 DEF Recorded, table
<1>3. CASE disordered' = disordered
  BY <1>1, <1>2, <1>3 DEF Inbox!vars, table, stripe
<1>4. CASE disordered' = disordered \cup {Subscription[e]}
  <2>1. Inbox!Mix(e)
    BY <1>1, <1>2, <1>4 DEF Inbox!Mix, table, stripe
  <2> QED
    BY <2>1 DEF Inbox!Next
<1> QED
  BY <1>3, <1>4 DEF Begin

\* A duplicate is answered for an event on record.
LEMMA ClaimAnswers ==
  ASSUME TypeOK, NEW w \in Workers, Claim(w)
  PROVE  [Inbox!Next]_(Inbox!vars)
<1>1. PICK e \in Events : e = tx[w].event
  BY BusyFields DEF Claim, At
<1>2. UNCHANGED <<table, closed, history>> /\ Recorded' = Recorded
  BY DEF Claim, Recorded, table
<1>3. CASE acked' = acked
  BY <1>2, <1>3 DEF Inbox!vars, table, history
<1>4. CASE acked' # acked
  <2>1. e \in Recorded /\ acked' = acked \cup {e}
    BY <1>1, <1>4 DEF Claim, Duplicate, Answer, Recorded
  <2>2. Inbox!AnswerAgain(e)
    BY <1>2, <2>1 DEF Inbox!AnswerAgain, table, history
  <2> QED
    BY <2>2 DEF Inbox!Next
<1> QED
  BY <1>3, <1>4

\* An event is out of order after another one of its subscription.
LEMMA CheckRejects ==
  ASSUME TypeOK, NEW w \in Workers, CheckOrder(w)
  PROVE  [Inbox!Next]_(Inbox!vars)
<1>1. PICK e \in Events : e = tx[w].event
  BY BusyFields DEF CheckOrder, At
<1>2. /\ UNCHANGED <<table, closed, applied, swallowed, disordered>>
      /\ Recorded' = Recorded
  BY DEF CheckOrder, Recorded, table
<1>3. CASE OutOfOrder(e)
  <2>1. \E f \in Recorded \ {e} : Subscription[f] = Subscription[e]
    BY <1>3 DEF OutOfOrder, LastBefore, Recorded
  <2>2. Answer(w) /\ stale' = stale \cup {e}
    BY <1>1, <1>3 DEF CheckOrder
  <2>3. Inbox!Reject(e)
    BY <1>1, <1>2, <2>1, <2>2, AnswersOrNot DEF Inbox!Reject, table
  <2> QED
    BY <2>3 DEF Inbox!Next
<1>4. CASE ~OutOfOrder(e)
  BY <1>1, <1>2, <1>4 DEF CheckOrder, Inbox!vars, table
<1> QED
  BY <1>3, <1>4

LEMMA SwallowUndoes ==
  ASSUME TypeOK, NEW w \in Workers, Swallow(w)
  PROVE  Inbox!Next
<1>1. PICK e \in Events : e = tx[w].event
  BY BusyFields DEF Swallow, At
<1>2. /\ UNCHANGED <<table, closed, applied, stale, disordered>>
      /\ swallowed' = swallowed \cup {e} /\ Answer(w) /\ Recorded' = Recorded
  BY <1>1 DEF Swallow, Recorded, table
<1>3. Inbox!Undo(e)
  BY <1>1, <1>2, AnswersOrNot DEF Inbox!Undo, table
<1> QED
  BY <1>3 DEF Inbox!Next

\* What the handler read long before the commit still turns the right subject:
\* a deletion that found no member finds none of its subscription now.
LEMMA CommitTurns ==
  ASSUME IInv, NEW w \in Workers, Commit(w), NEW e \in Events, e = tx[w].event
  PROVE  Inbox!Turn(e)
<1>1. Busy(w) /\ tx[w].pc = "read"
  BY DEF Commit, At
<1>2. Subscription[e] \in Subscriptions
  BY EventsAssumption
<1>3. CASE Type[e] = "created" /\ subscription' = Subscription[e]
  BY <1>3 DEF Inbox!Turn
<1>4. CASE Type[e] = "deleted" /\ Owns(e) /\ subscription' = NoSubscription
  BY <1>4 DEF Inbox!Turn, Owns
<1>5. CASE /\ Type[e] # "created" /\ subscription' = subscription
           /\ Type[e] = "deleted" => tx[w].seen = "absent" \/ ~Owns(e)
  <2>1. CASE Type[e] # "deleted"
    BY <1>5, <2>1 DEF Inbox!Turn
  <2>2. CASE ~Owns(e)
    BY <1>5, <2>2 DEF Inbox!Turn, Owns
  <2>3. CASE Type[e] = "deleted" /\ tx[w].seen = "absent"
    <3>1. Subscription[e] \in disordered \/ subscription # Subscription[e]
      BY <1>1, <1>2, <2>3 DEF IInv, OrderInv, Ordered
    <3> QED
      BY <1>5, <3>1 DEF Inbox!Turn, Inbox!Mixed
  <2> QED
    BY <1>5, <2>1, <2>2, <2>3
<1> QED
  BY <1>3, <1>4, <1>5, CommitEffect DEF IInv

\* Nothing but its deletion is committed for an orderly subscription that has
\* been deleted, however long ago the order was checked.
LEMMA CommitApplies ==
  ASSUME IInv, NEW w \in Workers, Commit(w), NEW e \in Events, e = tx[w].event
  PROVE  Inbox!Apply(e)
<1>1. Busy(w) /\ tx[w].pc = "read"
  BY DEF Commit, At
<1>2. Subscription[e] \in Subscriptions
  BY EventsAssumption
<1>3. ASSUME Subscription[e] \notin disordered, NEW d \in applied, Type[d] = "deleted",
             Subscription[d] = Subscription[e]
      PROVE  Type[e] = "deleted"
  <2>1. Ordered(Subscription[e])
    BY <1>2, <1>3 DEF Ordered
  <2>2. Blocked(Subscription[e]) \/ Over(Subscription[e])
    BY <1>3, <2>1 DEF IInv, DeletionInv
  <2> QED
    BY <1>1, <2>1, <2>2, OnlyDeletionCommits DEF IInv
<1>4. Inbox!Mixed(e) \/ Type[e] = "deleted" \/ ~Inbox!Closed(e)
  BY <1>3 DEF Inbox!Mixed, Inbox!Closed
<1>5. applied' = applied \cup {e} /\ UNCHANGED <<stale, swallowed, closed, disordered>>
  BY DEF Commit
<1> QED
  BY <1>4, <1>5, CommitTurns DEF Inbox!Apply

LEMMA CommitHandles ==
  ASSUME IInv, NEW w \in Workers, Commit(w)
  PROVE  Inbox!Next
<1>1. PICK e \in Events : e = tx[w].event
  BY BusyFields DEF IInv, Commit, At
<1>2. Busy(w) /\ tx[w].pc = "read" /\ Answer(w)
  BY DEF Commit, At
<1>3. Inbox!Apply(e)
  BY <1>1, CommitApplies
<1>4. tx[w].mode = "forced" \/ e \in closed
      => Subscription[e] \in disordered \/ processedAt[e] # 0
  <2>1. Subscription[e] \in Subscriptions
    BY EventsAssumption
  <2> QED
    BY <1>1, <1>2, <2>1 DEF IInv, OrderInv, Ordered
<1>5. CASE tx[w].mode = "forced"
  <2>1. UNCHANGED <<processedAt, acked>>
    BY <1>2, <1>5 DEF Commit, Answer
  <2>2. Recorded' = Recorded
    BY <2>1 DEF Recorded
  <2>3. Inbox!Force(e)
    BY <1>3, <1>4, <1>5, <2>1, <2>2 DEF Inbox!Force, Inbox!Mixed, Recorded
  <2> QED
    BY <2>3 DEF Inbox!Next
<1>6. CASE tx[w].mode # "forced"
  <2>1. processedAt[e] = 0
    BY <1>1, <1>2, <1>6 DEF IInv, ClaimsInv, HoldsClaim
  <2>2. /\ processedAt' = [processedAt EXCEPT ![e] = tx[w].at]
        /\ tx[w].at # 0
    BY <1>1, <1>2, <1>6, BusyFields DEF Commit, IInv
  <2>3. Recorded' = Recorded \cup {e}
    BY <2>2 DEF Recorded, IInv, TypeOK
  <2>4. Inbox!Handle(e)
    BY <1>1, <1>2, <1>3, <1>4, <2>1, <2>3, AnswersOrNot
       DEF Inbox!Handle, Inbox!Mixed, Recorded
  <2> QED
    BY <2>4 DEF Inbox!Next
<1> QED
  BY <1>5, <1>6

LEMMA CleanupForgets ==
  ASSUME TypeOK, NEW t \in 1..MaxTransactions, Cleanup(t)
  PROVE  Inbox!Next
<1>1. PICK gone \in SUBSET Recorded : gone = {e \in Recorded : TooOld(e, t)}
  OBVIOUS
<1>2. Recorded' = Recorded \ gone
  BY <1>1 DEF Cleanup, Recorded
<1>3. gone \subseteq ClosedBy(t)
  BY <1>1, EventsAssumption DEF ClosedBy, Recorded
<1>4. Inbox!Forget(gone)
  BY <1>2, <1>3 DEF Inbox!Forget, Cleanup
<1> QED
  BY <1>4 DEF Inbox!Next

LEMMA StepInbox == IInv /\ [Next]_vars => [Inbox!Next]_(Inbox!vars)
<1> SUFFICES ASSUME IInv, [Next]_vars PROVE [Inbox!Next]_(Inbox!vars)
  OBVIOUS
<1>1. TypeOK
  BY DEF IInv
<1>2. ASSUME NEW w \in Workers, Step(w)
      PROVE  [Inbox!Next]_(Inbox!vars)
  <2>1. ReadMember(w) \/ Fail(w) => UNCHANGED Inbox!vars
    BY DEF ReadMember, Fail, Inbox!vars, Recorded, table, stripe, history
  <2> QED
    BY <1>1, <1>2, <2>1, ClaimAnswers, CheckRejects, CommitHandles, SwallowUndoes DEF Step
<1>3. UNCHANGED vars => UNCHANGED Inbox!vars
  BY DEF vars, Inbox!vars, Recorded, table, stripe, history
<1> QED
  BY <1>1, <1>2, <1>3, BeginMixes, CleanupForgets DEF Next, Deliver, Replay

\* The transactions of processStripeWebhook, with their claims, their order check
\* and what they read before, do what an inbox does that handles each event in one
\* step: once while it is on record, never after the deletion of a subscription
\* whose events came one at a time, and answered only when it is settled.
THEOREM OneStepPerEvent == Spec => ImplementsInbox
BY InitInbox, StepInbox, Inductive, PTL DEF Spec, Inbox!Spec, ImplementsInbox

=============================================================================
