--------------------------- MODULE StripeWebhooks ---------------------------
(***************************************************************************)
(* The subscription webhooks of one Stripe customer: Stripe delivers each  *)
(* event until it is answered 200, in any order, repeatedly and            *)
(* concurrently, and processStripeWebhook claims it, checks its order and  *)
(* applies it to the customer's users row in one transaction.              *)
(*                                                                         *)
(* A delivery (or a replay by an administrator) is a worker that goes      *)
(* through the statements of its transaction.  Postgres runs at READ       *)
(* COMMITTED: a claim and the new users row are seen by the others once    *)
(* they are committed.  The handler's UPDATEs lock the users row up to the *)
(* commit, so they and the commit are one step.                            *)
(*                                                                         *)
(* The customer is billed by Stripe, and the prices of its subscriptions   *)
(* belong to tiers of the club.  Billing groups, tiers, discounts and the  *)
(* deferred actions are left out.                                          *)
(***************************************************************************)
EXTENDS Naturals

CONSTANTS
    Events,          \* the Stripe events (event.id)
    Subscriptions,   \* the resources they are about
    NoSubscription,  \* stripe_subscription_id NULL
    Subscription,    \* the resource of each event
    Type,            \* event.type without its prefix customer.subscription.
    Payload,         \* the subscription's status in event.data.object
    Recovery,        \* updates whose previous status was past_due or unpaid
    EmittedAt,       \* event.created
    Workers,         \* transactions running at a time
    MaxTransactions, \* bound: deliveries and replays
    MaxReplays       \* bound: replays by an administrator

\* EVENT_PRIORITY of the subscription events.
Priority == [created |-> 1, updated |-> 5, paused |-> 8, resumed |-> 9, deleted |-> 20]

Types == DOMAIN Priority
StripeStatuses == {"active", "trialing", "past_due", "unpaid", "canceled",
                   "incomplete", "paused"}

ASSUME EventsAssumption ==
    /\ Subscription \in [Events -> Subscriptions]
    /\ NoSubscription \notin Subscriptions
    /\ Type \in [Events -> Types]
    /\ Payload \in [Events -> StripeStatuses]
    /\ Recovery \subseteq Events
    /\ EmittedAt \in [Events -> Nat]
\* Stripe emits nothing about a subscription after its deletion.
ASSUME DeletionAssumption ==
    \A e, f \in Events : Type[f] = "deleted" /\ Subscription[e] = Subscription[f]
                         => EmittedAt[e] <= EmittedAt[f]
ASSUME BoundsAssumption == MaxTransactions \in Nat /\ MaxReplays \in Nat

\* membership_status; "absent" while the customer has no users row.
Statuses == {"absent", "pending", "active", "trialing", "past_due",
             "suspended", "frozen", "paused", "cancelled"}

VARIABLES
    processedAt,   \* table webhook_processed_events: processed_at, 0 without a row
    membership,    \* users.membership_status
    subscription,  \* users.stripe_subscription_id
    tx,            \* the workers' transactions
    clock,         \* the number of transactions begun
    replays,       \* how many of them were replays
    acked,         \* events Stripe has seen a 200 for
    closed,        \* events whose three days of retries are over
    applications,  \* history: commits of each event under its present claim
    applied,       \* history: events committed at least once
    stale,         \* history: events rejected by the order check
    swallowed,     \* history: events rolled back by an error the handler caught
    disordered,    \* history: subscriptions with two events at once, or replayed late
    latest         \* history: the subscription created last

table == <<processedAt, membership, subscription>>
stripe == <<acked, closed>>
history == <<applications, applied, stale, swallowed, disordered, latest>>
vars == <<table, tx, clock, replays, stripe, history>>

-----------------------------------------------------------------------------
(* The events as the handlers see them. *)

Idle == [pc |-> "idle"]
Points == {"begun", "claimed", "ordered", "read"}
Modes == {"delivery", "replay", "forced"}

Transactions ==
    {Idle} \cup [pc : Points, event : Events, at : 1..MaxTransactions,
                 mode : Modes, seen : Statuses]

Busy(w) == tx[w] # Idle
Handling(w, e) == Busy(w) /\ tx[w].event = e

\* statusMap of handleSubscriptionCreated
Mapped == [active |-> "active", trialing |-> "trialing", past_due |-> "past_due",
           unpaid |-> "past_due", canceled |-> "cancelled",
           incomplete |-> "pending", paused |-> "frozen"]

\* The statuses a new subscription replaces; "pending" stands for inactive and
\* non-member too, "cancelled" for the other forms of former membership.
LapsedButCancelled == {"pending", "suspended", "frozen"}
Lapsed == {"pending", "cancelled", "suspended", "frozen"}

\* What subscription.created makes of a status: the INSERT of a user it did not
\* find or the first UPDATE of the one it found, then the activation with the tier.
Subscribed(e, seen, current) ==
    LET first == IF seen = "absent" \/ current \in Lapsed THEN Mapped[Payload[e]] ELSE current
    IN  IF first \notin Lapsed THEN first
        ELSE IF Payload[e] \in {"active", "trialing"} THEN "active" ELSE "pending"

\* What subscription.updated makes of it.
Updated(e, current) ==
    CASE Payload[e] = "active" ->
           IF current \in {"pending", "past_due", "trialing"}
                          \cup (IF e \in Recovery THEN {"suspended"} ELSE {})
           THEN "active" ELSE current
      [] Payload[e] = "past_due" -> "past_due"
      [] Payload[e] = "unpaid" -> "suspended"
      [] OTHER -> current

\* A row that subscription.deleted finds still belongs to its subscription.
DeletesAny(e) == TRUE
Owns(e) == subscription \in {Subscription[e], NoSubscription}

\* The users row after the handler of e, which first saw the status seen.
NewMembership(e, seen) ==
    IF seen = "absent" /\ Type[e] # "created" THEN membership
    ELSE CASE Type[e] = "created" -> Subscribed(e, seen, membership)
           [] Type[e] = "updated" -> Updated(e, membership)
           [] Type[e] = "paused"  -> "frozen"
           [] Type[e] = "resumed" -> "active"
           [] Type[e] = "deleted" -> IF ~Owns(e) THEN membership
                                     ELSE IF seen = "trialing" THEN "paused" ELSE "cancelled"

NewSubscription(e, seen) ==
    CASE Type[e] = "created" -> Subscription[e]
      [] Type[e] = "deleted" /\ seen # "absent" /\ Owns(e) -> NoSubscription
      [] OTHER -> subscription

-----------------------------------------------------------------------------

Init ==
    /\ processedAt = [e \in Events |-> 0]
    /\ membership \in {"absent", "pending"}
    /\ subscription = NoSubscription
    /\ tx = [w \in Workers |-> Idle]
    /\ clock = 0
    /\ replays = 0
    /\ acked = {}
    /\ closed = {}
    /\ applications = [e \in Events |-> 0]
    /\ applied = {}
    /\ stale = {}
    /\ swallowed = {}
    /\ disordered = {}
    /\ latest = NoSubscription

\* BEGIN.  A forced replay skips the claim.
Begin(w, e, mode) ==
    /\ ~Busy(w)
    /\ clock < MaxTransactions
    /\ clock' = clock + 1
    /\ tx' = [tx EXCEPT ![w] = [pc |-> IF mode = "forced" THEN "claimed" ELSE "begun",
                                event |-> e, at |-> clock + 1, mode |-> mode,
                                seen |-> "absent"]]
    /\ LET together == \E v \in Workers : /\ Busy(v)
                                          /\ tx[v].event # e
                                          /\ Subscription[tx[v].event] = Subscription[e]
           unrecorded == processedAt[e] = 0 /\ (mode = "forced" \/ e \in closed)
       IN  disordered' = IF together \/ unrecorded
                         THEN disordered \cup {Subscription[e]} ELSE disordered
    /\ UNCHANGED <<table, stripe, applications, applied, stale, swallowed, latest>>

\* Stripe delivers an event it has no 200 for, again after a failure or a
\* timeout, while an earlier delivery may still be running.
Deliver(w, e) ==
    /\ e \notin acked \cup closed
    /\ Begin(w, e, "delivery")
    /\ UNCHANGED replays

\* POST /api/admin/stripe/replay-webhook
Replay(w, e, mode) ==
    /\ replays < MaxReplays
    /\ Begin(w, e, mode)
    /\ replays' = replays + 1

At(w, point) == Busy(w) /\ tx[w].pc = point
Goto(w, point) == tx' = [tx EXCEPT ![w].pc = point]

\* The transaction is over.  Stripe gets the 200 of a delivery, or it is lost
\* with the process or comes after Stripe's timeout.
Answer(w) ==
    /\ tx' = [tx EXCEPT ![w] = Idle]
    /\ \/ UNCHANGED acked
       \/ /\ tx[w].mode = "delivery"
          /\ acked' = acked \cup {tx[w].event}

\* An uncommitted or committed row of the same event.
HoldsClaim(w) == Busy(w) /\ tx[w].pc # "begun" /\ tx[w].mode # "forced"
ClaimedBy(v, e) == HoldsClaim(v) /\ tx[v].event = e

DuplicateWhenClaimed(e) == processedAt[e] # 0 \/ \E v \in Workers : ClaimedBy(v, e)
Duplicate(e) == processedAt[e] # 0

\* tryClaimEvent waits while another transaction has inserted the same event.
ClaimUnguarded(e) == TRUE
ClaimFree(e) == \A v \in Workers : ~ClaimedBy(v, e)

Claim(w) ==
    /\ At(w, "begun")
    /\ LET e == tx[w].event
       IN  IF Duplicate(e) THEN Answer(w)
           ELSE ClaimFree(e) /\ Goto(w, "claimed") /\ UNCHANGED acked
    /\ UNCHANGED <<table, clock, replays, closed, history>>

\* The last row of the subscription that has another event type.
FirstBefore(e) ==
    LET others == {f \in Events : /\ processedAt[f] # 0
                                  /\ Subscription[f] = Subscription[e]
                                  /\ Type[f] # Type[e]}
    IN  {f \in others : \A g \in others : processedAt[f] <= processedAt[g]}
LastBefore(e) ==
    LET others == {f \in Events : /\ processedAt[f] # 0
                                  /\ Subscription[f] = Subscription[e]
                                  /\ Type[f] # Type[e]}
    IN  {f \in others : \A g \in others : processedAt[g] <= processedAt[f]}

\* checkResourceEventOrder; a late subscription.created is held back by a
\* deletion only.
OutOfOrderUnlessCreated(e) ==
    \E last \in LastBefore(e) : /\ Priority[Type[last]] > Priority[Type[e]]
                                /\ Type[e] # "created"
OutOfOrder(e) ==
    \E last \in LastBefore(e) : /\ Priority[Type[last]] > Priority[Type[e]]
                                /\ Type[e] = "created" => Type[last] = "deleted"

CheckOrder(w) ==
    /\ At(w, "claimed")
    /\ LET e == tx[w].event
       IN  IF OutOfOrder(e)
           THEN Answer(w) /\ stale' = stale \cup {e}
           ELSE Goto(w, "ordered") /\ UNCHANGED <<acked, stale>>
    /\ UNCHANGED <<table, clock, replays, closed, applications, applied, swallowed,
                   disordered, latest>>

\* The handler reads the customer's users row.
ReadMember(w) ==
    /\ At(w, "ordered")
    /\ tx' = [tx EXCEPT ![w].pc = "read", ![w].seen = membership]
    /\ UNCHANGED <<table, clock, replays, stripe, history>>

\* The handler's UPDATEs and the COMMIT.
Commit(w) ==
    /\ At(w, "read")
    /\ LET e == tx[w].event
           claimed == tx[w].mode # "forced"
       IN  /\ membership' = NewMembership(e, tx[w].seen)
           /\ subscription' = NewSubscription(e, tx[w].seen)
           /\ processedAt' = IF claimed THEN [processedAt EXCEPT ![e] = tx[w].at]
                             ELSE processedAt
           /\ applications' = IF claimed THEN [applications EXCEPT ![e] = @ + 1]
                              ELSE applications
           /\ applied' = applied \cup {e}
           /\ latest' = IF Type[e] = "created" THEN Subscription[e] ELSE latest
    /\ Answer(w)
    /\ UNCHANGED <<clock, replays, closed, stale, swallowed, disordered>>

\* A query fails inside one of the handler's own try blocks (tier activation,
\* group cascade, discount, grace period).  The handler returns, but Postgres
\* has aborted the transaction, and COMMIT rolls it back without an error.
CatchesErrors(w) ==
    LET e == tx[w].event
    IN  \/ Type[e] = "created" /\ Payload[e] # "trialing"
        \/ Type[e] = "updated" /\ tx[w].seen # "absent"

Swallow(w) ==
    /\ At(w, "read")
    /\ CatchesErrors(w)
    /\ swallowed' = swallowed \cup {tx[w].event}
    /\ Answer(w)
    /\ UNCHANGED <<table, clock, replays, closed, applications, applied, stale,
                   disordered, latest>>

\* A statement throws out of the handler, or the process dies: the transaction
\* is rolled back with its claim, and Stripe sees a 500 or nothing.
Fail(w) ==
    /\ Busy(w)
    /\ tx' = [tx EXCEPT ![w] = Idle]
    /\ UNCHANGED <<table, clock, replays, stripe, history>>

\* Seven days after the transaction that began at time t: its row and the older
\* ones are deleted.  Stripe has given up by then on their events and on those
\* emitted before them, and no transaction about one is still running.
TooOld(e, t) == processedAt[e] \in 1..t
ClosedBy(t) == {f \in Events : \E e \in Events : TooOld(e, t) /\ EmittedAt[f] <= EmittedAt[e]}

Cleanup(t) ==
    /\ \E e \in Events : TooOld(e, t)
    /\ \A w \in Workers : Busy(w) => tx[w].event \notin ClosedBy(t)
    /\ processedAt' = [e \in Events |-> IF TooOld(e, t) THEN 0 ELSE processedAt[e]]
    /\ applications' = [e \in Events |-> IF TooOld(e, t) THEN 0 ELSE applications[e]]
    /\ closed' = closed \cup ClosedBy(t)
    /\ UNCHANGED <<membership, subscription, tx, clock, replays, acked, applied, stale,
                   swallowed, disordered, latest>>

Step(w) == Claim(w) \/ CheckOrder(w) \/ ReadMember(w) \/ Commit(w) \/ Swallow(w) \/ Fail(w)

Next ==
    \/ \E w \in Workers, e \in Events :
          Deliver(w, e) \/ Replay(w, e, "replay") \/ Replay(w, e, "forced")
    \/ \E w \in Workers : Step(w)
    \/ \E t \in 1..MaxTransactions : Cleanup(t)

Spec == Init /\ [][Next]_vars

-----------------------------------------------------------------------------

TypeOK ==
    /\ processedAt \in [Events -> 0..MaxTransactions]
    /\ membership \in Statuses
    /\ subscription \in Subscriptions \cup {NoSubscription}
    /\ tx \in [Workers -> Transactions]
    /\ clock \in 0..MaxTransactions
    /\ replays \in 0..MaxReplays
    /\ acked \subseteq Events
    /\ closed \subseteq Events
    /\ applications \in [Events -> Nat]
    /\ applied \subseteq Events
    /\ stale \subseteq Events
    /\ swallowed \subseteq Events
    /\ disordered \subseteq Subscriptions
    /\ latest \in Subscriptions \cup {NoSubscription}

\* Within the seven days of its claim an event is applied at most once, however
\* often and however concurrently it is delivered or replayed without force.
AppliedOnce == \A e \in Events : applications[e] <= 1

\* Stripe stops retrying an event only after it was applied or found out of
\* order.  The handlers that go on after a failed query are the exception.
AcknowledgedIsSettled == acked \subseteq applied \cup stale \cup swallowed

\* While the events of a subscription are handled one at a time, its deletion is
\* final: no late event, the creation included, makes it the member's again.
DeletionIsFinal ==
    \A e \in applied :
       Type[e] = "deleted" /\ Subscription[e] \notin disordered => subscription # Subscription[e]

\* A member who has moved to a new subscription keeps it when the events of the
\* old one arrive, whenever they do.
LatestIsKept ==
    \/ latest = NoSubscription
    \/ subscription = latest
    \/ \E e \in applied : Type[e] = "deleted" /\ Subscription[e] = latest

\* A subscription and a lost membership do not go together.
SubscribedNotCancelled ==
    subscription # NoSubscription => membership \notin {"absent", "cancelled"}

Recorded == {e \in Events : processedAt[e] # 0}

\* Claim, order check, handler and commit are four statements apart, but the
\* transactions do what an inbox does that handles each event in one step.
Inbox == INSTANCE EventInbox WITH
    Subject <- Subscription,
    Opening <- {e \in Events : Type[e] = "created"},
    Closing <- {e \in Events : Type[e] = "deleted"},
    Nobody <- NoSubscription,
    recorded <- Recorded,
    done <- applied,
    rejected <- stale,
    undone <- swallowed,
    answered <- acked,
    over <- closed,
    mixed <- disordered,
    current <- subscription

ImplementsInbox == Inbox!Spec

\* event-handling.md: what is rolled back is answered 500 and retried.
AcknowledgedIsApplied == acked \subseteq applied \cup stale

\* SKILL.md: subscription.created after subscription.deleted for the same
\* resource is blocked to prevent reactivating cancelled members.
NoGhostReactivation ==
    [][\A e \in applied :
          Type[e] = "deleted" /\ membership = "cancelled"
          => subscription' # Subscription[e]]_vars

-----------------------------------------------------------------------------
(* The inductive invariant. *)

Ordered(s) == s \in Subscriptions \ disordered

\* One transaction at a time holds the claim of an event that has no row yet,
\* and the rows count the applications.
ClaimsInv ==
    /\ \A e \in Events : applications[e] = IF processedAt[e] = 0 THEN 0 ELSE 1
    /\ \A e \in Events : processedAt[e] # 0 => e \in applied
    /\ \A e \in Events : processedAt[e] <= clock
    /\ \A w \in Workers : Busy(w) => tx[w].at <= clock
    /\ \A w \in Workers : HoldsClaim(w) => processedAt[tx[w].event] = 0
    /\ \A v, w \in Workers : HoldsClaim(v) /\ HoldsClaim(w) /\ tx[v].event = tx[w].event => v = w

\* A users row that was read is still there.
SeenInv == \A w \in Workers : Busy(w) /\ tx[w].seen # "absent" => membership # "absent"

\* What a transaction on an orderly subscription can rely on.
OrderInv ==
    \A w \in Workers :
       Busy(w) /\ Ordered(Subscription[tx[w].event]) =>
          LET e == tx[w].event
              s == Subscription[e]
          IN  /\ \A v \in Workers : Busy(v) /\ Subscription[tx[v].event] = s => tx[v].event = e
              /\ \A f \in Events : Subscription[f] = s /\ f # e => processedAt[f] < tx[w].at
              /\ tx[w].mode = "forced" \/ e \in closed => processedAt[e] # 0
              /\ Type[e] = "deleted" /\ tx[w].pc = "read" /\ tx[w].seen = "absent"
                    => subscription # s

\* The row of the deletion is the last one, so nothing else passes the check.
DeletionLast(s) ==
    \E d \in Events : /\ Subscription[d] = s
                      /\ Type[d] = "deleted"
                      /\ processedAt[d] # 0
                      /\ \A f \in Events : Subscription[f] = s => processedAt[f] <= processedAt[d]
NothingPasses(s) ==
    \A w \in Workers : Busy(w) /\ Subscription[tx[w].event] = s /\ Type[tx[w].event] # "deleted"
                       => tx[w].pc \in {"begun", "claimed"}
Blocked(s) == DeletionLast(s) /\ NothingPasses(s)

\* The row of the deletion has been removed, long after Stripe gave up.
Over(s) == \A f \in Events : Subscription[f] = s =>
               f \in closed /\ (Type[f] # "deleted" => processedAt[f] = 0)

DeletionInv ==
    \A e \in applied : Type[e] = "deleted" /\ Ordered(Subscription[e])
                       => Blocked(Subscription[e]) \/ Over(Subscription[e])

IInv ==
    /\ TypeOK
    /\ ClaimsInv
    /\ AcknowledgedIsSettled
    /\ LatestIsKept
    /\ SubscribedNotCancelled
    /\ SeenInv
    /\ OrderInv
    /\ DeletionInv
    /\ DeletionIsFinal

=============================================================================
