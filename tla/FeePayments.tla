---------------------------- MODULE FeePayments ----------------------------
(***************************************************************************)
(* Paying the fees of one booking at the desk: the requests that create a  *)
(* fee snapshot and a Stripe payment (routes/stripe/booking-fees.ts), the  *)
(* service that records what became of it (PaymentStatusService), Stripe's *)
(* webhooks, the automatic refunds, the reconciliation scheduler and the   *)
(* staff's own refunds, confirmations and waivers.                         *)
(*                                                                         *)
(* A request k makes at most one snapshot and one Stripe invoice with its  *)
(* payment intent; both are called k.  Amounts are abstracted to whom a    *)
(* request covers.  Every transaction, Stripe call or webhook is a step;   *)
(* what happens between two awaits of a request interleaves.  Balances,    *)
(* card readers and the members' own payment routes are left out.          *)
(***************************************************************************)
EXTENDS Naturals, FiniteSets

CONSTANTS
    Requests,     \* calls of POST /api/stripe/create-payment-intent
    Participants, \* the session's participants with a fee
    Covers,       \* participant_fees of a request's snapshot
    NoIntent,     \* no payment intent, no invoice
    Draft,        \* a draft invoice that no request made
    MaxIncidents  \* bound: declines, failures, abandoned intents, acts of the staff

ASSUME CoversAssumption == Covers \in [Requests -> SUBSET Participants]
ASSUME NamesAssumption == NoIntent \notin Requests /\ Draft \notin Requests
ASSUME BoundsAssumption == MaxIncidents \in Nat

VARIABLES
    phase,      \* where a request stands
    target,     \* the pending snapshot a request is about to replace
    snapshot,   \* booking_fee_snapshots.status
    paidBy,     \* booking_fee_snapshots.stripe_payment_intent_id
    intent,     \* the payment intents at Stripe
    tagged,     \* intents whose metadata carry their request's feeSnapshotId
    returned,   \* how much of an intent Stripe has refunded
    invoice,    \* booking_requests.stripe_invoice_id
    row,        \* stripe_payment_intents.status
    part,       \* booking_participants.payment_status
    payer,      \* booking_participants.stripe_payment_intent_id
    deskPaid,   \* a completed snapshot without an intent, made by confirm_all
    due,        \* webhooks Stripe has not delivered yet
    refundSeen, \* intents with a processed charge.refunded
    job,        \* stripe_auto_refund job of an intent
    marking,    \* refunds not yet recorded by markPaymentRefunded
    incidents   \* incidents so far

desk == <<phase, target>>
snapshots == <<snapshot, paidBy>>
stripe == <<intent, tagged, invoice>>
people == <<part, payer>>
vars == <<desk, snapshots, stripe, returned, row, people, deskPaid, due, refundSeen, job,
          marking, incidents>>

Phases == {"idle", "charging", "drafting", "creating", "replacing", "done"}
SnapshotStatuses == {"none", "pending", "failed", "completed", "paid", "superseded",
                     "cancelled", "refunded", "deleted"}
RowStatuses == {"none", "pending", "failed", "succeeded", "canceled", "refunding",
                "partially_refunded", "refunded"}

TypeOK ==
    /\ phase \in [Requests -> Phases]
    /\ target \in [Requests -> Requests \cup {NoIntent}]
    /\ snapshot \in [Requests -> SnapshotStatuses]
    /\ paidBy \in [Requests -> Requests \cup {NoIntent}]
    /\ intent \in [Requests -> {"none", "open", "succeeded", "canceled"}]
    /\ tagged \subseteq Requests
    /\ returned \in [Requests -> {"none", "part", "all"}]
    /\ invoice \in Requests \cup {NoIntent, Draft}
    /\ row \in [Requests -> RowStatuses]
    /\ part \in [Participants -> {"pending", "paid", "waived", "refunded"}]
    /\ payer \in [Participants -> Requests \cup {NoIntent}]
    /\ deskPaid \in BOOLEAN
    /\ due \in [Requests -> SUBSET {"succeeded", "failed", "part", "all"}]
    /\ refundSeen \subseteq Requests
    /\ job \in [Requests -> {"none", "part", "all"}]
    /\ marking \subseteq Requests
    /\ incidents \in 0..MaxIncidents

-----------------------------------------------------------------------------

Init ==
    /\ phase = [k \in Requests |-> "idle"]
    /\ target = [k \in Requests |-> NoIntent]
    /\ snapshot = [k \in Requests |-> "none"]
    /\ paidBy = [k \in Requests |-> NoIntent]
    /\ intent = [k \in Requests |-> "none"]
    /\ tagged = {}
    /\ returned = [k \in Requests |-> "none"]
    /\ invoice \in {NoIntent, Draft}
    /\ row = [k \in Requests |-> "none"]
    /\ part = [p \in Participants |-> "pending"]
    /\ payer = [p \in Participants |-> NoIntent]
    /\ deskPaid = FALSE
    /\ due = [k \in Requests |-> {}]
    /\ refundSeen = {}
    /\ job = [k \in Requests |-> "none"]
    /\ marking = {}
    /\ incidents = 0

\* What the bound counts.
Incident == incidents < MaxIncidents /\ incidents' = incidents + 1

Captured(i) == intent[i] = "succeeded"

\* The snapshots that name an intent.
SnapshotsOf(i) == {k \in Requests : paidBy[k] = i /\ snapshot[k] \notin {"none", "deleted"}}
PendingOf(i) == {k \in SnapshotsOf(i) : snapshot[k] = "pending"}

\* The unique index on session_id WHERE status = 'completed', for all but k.
CompletedBesides(k) == deskPaid \/ \E j \in Requests \ {k} : snapshot[j] = "completed"

\* UPDATE stripe_payment_intents SET status, where the row exists.
SetRow(i, status) == row' = [row EXCEPT ![i] = IF @ = "none" THEN "none" ELSE status]

SetSnapshots(S, status) ==
    snapshot' = [k \in Requests |-> IF k \in S THEN status ELSE snapshot[k]]

\* The participants of P are paid by intent i.
PayFor(P, i) ==
    /\ part' = [p \in Participants |-> IF p \in P THEN "paid" ELSE part[p]]
    /\ payer' = [p \in Participants |-> IF p \in P THEN i ELSE payer[p]]

Refund(P) ==
    /\ part' = [p \in Participants |-> IF p \in P THEN "refunded" ELSE part[p]]
    /\ UNCHANGED payer

Pending(P) == {p \in P : part[p] = "pending"}

-----------------------------------------------------------------------------
(* PaymentStatusService *)

\* markPaymentSucceeded without a snapshot: the unpaid participants, if the
\* amount is what they owe.
Fallback(i) ==
    /\ SnapshotsOf(i) = {}
    /\ \/ UNCHANGED people
       \/ /\ row[i] # "none"
          /\ PayFor({p \in Pending(Participants) : payer[p] = NoIntent}, i)
    /\ UNCHANGED snapshot

CompleteOrLeave(i, s) ==
    IF snapshot[s] \in {"completed", "paid"} \/ CompletedBesides(s) THEN UNCHANGED <<snapshot, people>>
    ELSE SetSnapshots({s}, "completed") /\ PayFor(Pending(Covers[s]), i)

CompleteForEveryone(i, s) ==
    IF snapshot[s] \in {"completed", "paid"} THEN UNCHANGED <<snapshot, people>>
    ELSE IF CompletedBesides(s)
         THEN SetSnapshots({s}, "superseded") /\ UNCHANGED people
         ELSE SetSnapshots({s}, "completed") /\ PayFor(Covers[s], i)

\* markPaymentSucceeded with the snapshot s it happens to read first.
Complete(i, s) ==
    IF snapshot[s] \in {"completed", "paid"} THEN UNCHANGED <<snapshot, people>>
    ELSE IF CompletedBesides(s)
         THEN SetSnapshots({s}, "superseded") /\ UNCHANGED people
         ELSE SetSnapshots({s}, "completed") /\ PayFor(Pending(Covers[s]), i)

MarkSucceeded(i) ==
    /\ SetRow(i, "succeeded")
    /\ Fallback(i) \/ \E s \in SnapshotsOf(i) : Complete(i, s)
    /\ UNCHANGED <<paidBy, stripe, returned, deskPaid, due, refundSeen, job, marking, incidents>>

\* markPaymentRefunded, after a refund at Stripe; a failure is only logged.
MarkRefunded(i) ==
    /\ i \in marking
    /\ marking' = marking \ {i}
    /\ \/ Incident /\ UNCHANGED <<row, snapshot, people>>
       \/ /\ SetRow(i, "refunded")
          /\ UNCHANGED incidents
          /\ \/ SnapshotsOf(i) = {} /\ UNCHANGED <<snapshot, people>>
             \/ \E s \in SnapshotsOf(i) : SetSnapshots({s}, "refunded") /\ Refund(Covers[s])
    /\ UNCHANGED <<desk, paidBy, stripe, returned, deskPaid, due, refundSeen, job>>

MarkCancelled(i) ==
    /\ SetSnapshots(SnapshotsOf(i), "cancelled")
    /\ SetRow(i, "canceled")
    /\ UNCHANGED <<paidBy, stripe, returned, people, deskPaid, due, refundSeen, job, marking,
                   incidents>>

-----------------------------------------------------------------------------
(* POST /api/stripe/create-payment-intent *)

Goto(k, where) == phase' = [phase EXCEPT ![k] = where]

\* A payment that succeeded ends the request.
AlreadyPaid(k) ==
    /\ \E i \in Requests : row[i] = "succeeded"
    /\ Goto(k, "done")
    /\ UNCHANGED <<target, snapshots, stripe, returned, row, people, deskPaid, due, refundSeen,
                   job, marking, incidents>>

\* A pending snapshot whose intent Stripe has captured meanwhile.
AutoSync(k) ==
    /\ \E j \in Requests : /\ snapshot[j] = "pending"
                           /\ paidBy[j] # NoIntent
                           /\ Captured(paidBy[j])
                           /\ MarkSucceeded(paidBy[j])
    /\ Goto(k, "done")
    /\ UNCHANGED target

\* One that is still open: reused, or replaced when the client's amount differs.
Reuse(k) ==
    /\ \E j \in Requests : /\ snapshot[j] = "pending"
                           /\ paidBy[j] # NoIntent
                           /\ intent[paidBy[j]] = "open"
                           /\ \/ Goto(k, "done") /\ UNCHANGED target
                              \/ Goto(k, "replacing") /\ target' = [target EXCEPT ![k] = j]
    /\ UNCHANGED <<snapshots, stripe, returned, row, people, deskPaid, due, refundSeen, job,
                   marking, incidents>>

\* None, one without an intent, a canceled one, or Stripe did not answer.
Proceed(k) ==
    /\ Goto(k, "charging")
    /\ UNCHANGED <<target, snapshots, stripe, returned, row, people, deskPaid, due, refundSeen,
                   job, marking, incidents>>

Check(k) ==
    /\ phase[k] = "idle"
    /\ \/ AlreadyPaid(k)
       \/ /\ \A i \in Requests : row[i] # "succeeded"
          /\ AutoSync(k) \/ Reuse(k) \/ Proceed(k)

\* cancelPaymentIntent of the target: refused once the payment is captured, and
\* it may fail at Stripe or after.  The snapshot is deleted all the same.
Replace(k) ==
    /\ phase[k] = "replacing"
    /\ LET i == paidBy[target[k]]
           canceled == [intent EXCEPT ![i] = "canceled"]
       IN  \/ Captured(i) /\ UNCHANGED <<intent, row, incidents>>
           \/ ~Captured(i) /\ intent' = canceled /\ SetRow(i, "canceled") /\ UNCHANGED incidents
           \/ ~Captured(i) /\ intent' \in {intent, canceled} /\ UNCHANGED row /\ Incident
    /\ SetSnapshots({target[k]}, "deleted")
    /\ Goto(k, "charging")
    /\ UNCHANGED <<target, paidBy, tagged, invoice, returned, people, deskPaid, due, refundSeen,
                   job, marking>>

\* The snapshot of k and the row of its payment i.  The code inserts the snapshot
\* as pending before there is an invoice; without an intent it is found by no
\* webhook, service or timer, and another request that finds it proceeds, so it
\* counts from the UPDATE that gives it the intent.
Record(k, i, snapshotStatus, rowStatus) ==
    /\ SetSnapshots({k}, snapshotStatus)
    /\ paidBy' = [paidBy EXCEPT ![k] = i]
    /\ row' = [row EXCEPT ![i] = IF @ = "none" THEN rowStatus ELSE @]
    /\ Goto(k, "done")
    /\ UNCHANGED incidents

\* The process dies, or a call fails, before the intent is recorded.
Interrupted(k) == Incident /\ Goto(k, "done") /\ UNCHANGED <<snapshots, row>>

\* Nothing recorded yet.
Advance(k, where) == Goto(k, where) /\ UNCHANGED <<snapshots, row, incidents>>

\* An invoice of its own, finalized.
OwnInvoice(k, carries) ==
    /\ intent' = [intent EXCEPT ![k] = "open"]
    /\ tagged' = IF carries THEN tagged \cup {k} ELSE tagged
    /\ invoice' = k
    /\ Record(k, k, "pending", "pending") \/ Interrupted(k)

\* finalizeAndPayInvoice with the invoice of the booking.
UseInvoice(k, i) ==
    \/ /\ intent[i] = "open"
       /\ Record(k, i, "pending", "pending")
       /\ UNCHANGED stripe
    \/ /\ Captured(i)
       /\ Record(k, i, "paid", "succeeded")
       /\ UNCHANGED stripe
    \/ /\ intent[i] = "canceled"
       /\ OwnInvoice(k, FALSE)

StartInvoice(k) ==
    /\ phase[k] = "charging"
    /\ \/ invoice = NoIntent /\ Advance(k, "drafting") /\ UNCHANGED stripe
       \/ invoice = Draft /\ OwnInvoice(k, FALSE)
       \/ invoice \in Requests /\ UseInvoice(k, invoice)
    /\ UNCHANGED <<target, returned, people, deskPaid, due, refundSeen, job, marking>>

\* The booking's invoice is void, or open with another amount and voided now.
DropInvoice(k) ==
    /\ intent[invoice] \in {"open", "canceled"}
    /\ intent' = [intent EXCEPT ![invoice] = "canceled"]
    /\ invoice' = NoIntent
    /\ UNCHANGED tagged
    /\ Advance(k, "creating")

\* createDraftInvoiceForBooking reads the booking's invoice again.
ReadInvoice(k) ==
    /\ phase[k] = "drafting"
    /\ \/ invoice = NoIntent /\ Advance(k, "creating") /\ UNCHANGED stripe
       \/ invoice = Draft /\ OwnInvoice(k, FALSE)
       \/ invoice \in Requests /\ intent[invoice] # "canceled" /\ UseInvoice(k, invoice)
       \/ invoice \in Requests /\ DropInvoice(k)
    /\ UNCHANGED <<target, returned, people, deskPaid, due, refundSeen, job, marking>>

CreateInvoice(k) ==
    /\ phase[k] = "creating"
    /\ OwnInvoice(k, TRUE)
    /\ UNCHANGED <<target, returned, people, deskPaid, due, refundSeen, job, marking>>

Request(k) == Check(k) \/ Replace(k) \/ StartInvoice(k) \/ ReadInvoice(k) \/ CreateInvoice(k)

-----------------------------------------------------------------------------
(* Stripe: the customer pays or is declined. *)

Pay(i) ==
    /\ intent[i] = "open"
    /\ intent' = [intent EXCEPT ![i] = "succeeded"]
    /\ due' = [due EXCEPT ![i] = @ \cup {"succeeded"}]
    /\ UNCHANGED <<desk, snapshots, tagged, invoice, returned, row, people, deskPaid, refundSeen,
                   job, marking, incidents>>

Decline(i) ==
    /\ intent[i] = "open"
    /\ Incident
    /\ due' = [due EXCEPT ![i] = @ \cup {"failed"}]
    /\ UNCHANGED <<desk, snapshots, stripe, returned, row, people, deskPaid, refundSeen, job,
                   marking>>

-----------------------------------------------------------------------------
(* Webhooks; a transaction that rolls back leaves its event due. *)

Received(i, event) ==
    /\ event \in due[i]
    /\ due' = [due EXCEPT ![i] = @ \ {event}]

\* checkResourceEventOrder: after charge.refunded nothing older is applied.
OutOfOrder(i) ==
    /\ i \in refundSeen
    /\ Received(i, "succeeded") \/ Received(i, "failed")
    /\ UNCHANGED <<desk, snapshots, stripe, returned, row, people, deskPaid, refundSeen, job,
                   marking, incidents>>

Unpaid(i) == {p \in Covers[i] : part[p] \notin {"paid", "waived"}}

\* What a captured payment gives back when others have paid before it.
Overpaid(i) == IF Unpaid(i) = {} THEN "all" ELSE IF Unpaid(i) # Covers[i] THEN "part" ELSE "none"

\* The snapshot named by the metadata is ready for this payment.
Expected(i) == paidBy[i] = i /\ snapshot[i] \in {"pending", "failed"}

SettleByWebhook(i) ==
    /\ ~CompletedBesides(i)
    /\ SetSnapshots({i}, "completed")
    /\ PayFor(Unpaid(i), i)
    /\ job' = [job EXCEPT ![i] = IF Overpaid(i) = "none" THEN @ ELSE Overpaid(i)]

QueueRefundLater(i) ==
    UNCHANGED <<snapshot, people, job>>

QueueRefund(i) ==
    /\ job' = [job EXCEPT ![i] = "all"]
    /\ UNCHANGED <<snapshot, people>>

WebhookSucceeded(i) ==
    /\ i \notin refundSeen
    /\ Received(i, "succeeded")
    /\ row' = [row EXCEPT ![i] = "succeeded"]
    /\ IF i \notin tagged THEN UNCHANGED <<snapshot, people, job>>
       ELSE IF Expected(i) THEN SettleByWebhook(i) ELSE QueueRefund(i)
    /\ UNCHANGED <<desk, paidBy, stripe, returned, deskPaid, refundSeen, marking, incidents>>

WebhookFailedAnyStatus(i) ==
    /\ i \notin refundSeen
    /\ Received(i, "failed")
    /\ SetRow(i, "failed")
    /\ SetSnapshots(SnapshotsOf(i), "failed")
    /\ UNCHANGED <<desk, paidBy, stripe, returned, people, deskPaid, refundSeen, job, marking,
                   incidents>>

WebhookFailed(i) ==
    /\ i \notin refundSeen
    /\ Received(i, "failed")
    /\ SetRow(i, "failed")
    /\ SetSnapshots(PendingOf(i), "failed")
    /\ UNCHANGED <<desk, paidBy, stripe, returned, people, deskPaid, refundSeen, job, marking,
                   incidents>>

PaidFor(i) == {p \in Participants : payer[p] = i /\ part[p] = "paid"}

WebhookRefunded(i, kind) ==
    /\ Received(i, kind)
    /\ refundSeen' = refundSeen \cup {i}
    /\ SetRow(i, IF kind = "all" THEN "refunded" ELSE "partially_refunded")
    /\ IF kind = "all" THEN Refund(PaidFor(i)) ELSE UNCHANGED people
    /\ UNCHANGED <<desk, snapshots, stripe, returned, deskPaid, job, marking, incidents>>

Webhook(i) == OutOfOrder(i) \/ WebhookSucceeded(i) \/ WebhookFailed(i)
              \/ \E kind \in {"part", "all"} : WebhookRefunded(i, kind)

-----------------------------------------------------------------------------
(* Refunds *)

\* Stripe gives the money back and announces it.
GiveBack(I, kind) ==
    /\ returned' = [i \in Requests |-> IF i \in I THEN kind ELSE returned[i]]
    /\ due' = [i \in Requests |-> IF i \in I THEN due[i] \cup {kind} ELSE due[i]]

\* The job stripe_auto_refund; Stripe refuses what it has given back entirely.
RunRefund(i) ==
    /\ job[i] # "none"
    /\ job' = [job EXCEPT ![i] = "none"]
    /\ IF returned[i] = "all" THEN UNCHANGED <<returned, due, marking>>
       ELSE GiveBack({i}, job[i]) /\ marking' = marking \cup {i}
    /\ UNCHANGED <<desk, snapshots, stripe, row, people, deskPaid, refundSeen, incidents>>

\* POST /api/payments/refund
StaffRefund(i, kind) ==
    /\ Incident
    /\ row[i] \in {"succeeded", "refunding"}
    /\ returned[i] # "all"
    /\ GiveBack({i}, kind)
    /\ SetRow(i, IF kind = "all" THEN "refunded" ELSE "partially_refunded")
    /\ Refund({p \in Participants : payer[p] = i})
    /\ UNCHANGED <<desk, snapshots, stripe, deskPaid, refundSeen, job, marking>>

-----------------------------------------------------------------------------
(* The scheduler and the staff *)

\* POST /api/stripe/confirm-payment; the service may fail.
Confirm(i) ==
    /\ Captured(i)
    /\ MarkSucceeded(i)
    /\ UNCHANGED desk

\* reconcilePendingSnapshots
Reconcile(k) ==
    /\ snapshot[k] = "pending"
    /\ paidBy[k] # NoIntent
    /\ \/ Captured(paidBy[k]) /\ MarkSucceeded(paidBy[k])
       \/ intent[paidBy[k]] = "canceled" /\ MarkCancelled(paidBy[k])
    /\ UNCHANGED desk

\* cancelAbandonedPaymentIntents finds that the customer has paid.
AbandonedButPaid(i) ==
    /\ Incident
    /\ row[i] = "pending"
    /\ Captured(i)
    /\ \/ PendingOf(i) = {}
       \/ \E k \in Requests : PendingOf(i) = {k} /\ ~CompletedBesides(k)
    /\ SetSnapshots(PendingOf(i), "completed")
    /\ SetRow(i, "succeeded")
    /\ UNCHANGED <<desk, paidBy, stripe, returned, people, deskPaid, due, refundSeen, job,
                   marking>>

\* What voidBookingInvoice refunds: the booking's paid invoices.
ToGiveBack(i) == {j \in Requests : /\ j # i
                                   /\ Captured(j)
                                   /\ row[j] \notin {"refunding", "refunded"}}

\* It cancels the intent, voids or refunds every invoice of the booking and
\* drafts a new one while there are fees.
Abandon(i) ==
    /\ Incident
    /\ row[i] = "pending"
    /\ intent[i] # "succeeded"
    /\ intent' = [j \in Requests |-> IF j = i \/ intent[j] = "open" THEN "canceled" ELSE intent[j]]
    /\ row' = [j \in Requests |-> IF j = i THEN "canceled"
                                  ELSE IF j \in ToGiveBack(i) THEN "refunding" ELSE row[j]]
    /\ SetSnapshots(PendingOf(i), "cancelled")
    /\ LET now == {j \in ToGiveBack(i) : returned[j] # "all"}
       IN  GiveBack(now, "all") /\ marking' = marking \cup now
    /\ invoice' \in {NoIntent, Draft}
    /\ UNCHANGED <<desk, paidBy, tagged, people, deskPaid, refundSeen, job>>

\* PATCH /api/bookings/:id/payments on the check-in page: confirm_all, which also
\* adds a completed snapshot (if that works), and waive_all.
ConfirmAll ==
    /\ Incident
    /\ part' = [p \in Participants |-> IF part[p] = "pending" THEN "paid" ELSE part[p]]
    /\ \/ /\ \A k \in Requests : snapshot[k] \notin {"completed", "paid"}
          /\ deskPaid' = TRUE
       \/ UNCHANGED deskPaid
    /\ UNCHANGED <<desk, snapshots, stripe, returned, row, payer, due, refundSeen, job, marking>>

WaiveAll ==
    /\ Incident
    /\ part' = [p \in Participants |-> IF part[p] = "pending" THEN "waived" ELSE part[p]]
    /\ UNCHANGED <<desk, snapshots, stripe, returned, row, payer, deskPaid, due, refundSeen, job,
                   marking>>

Staff(i) == Confirm(i) \/ \E kind \in {"part", "all"} : StaffRefund(i, kind)

Schedulers(i) == Reconcile(i) \/ AbandonedButPaid(i) \/ Abandon(i)

Next ==
    \/ \E k \in Requests : Request(k)
    \/ \E i \in Requests : Pay(i) \/ Decline(i) \/ Webhook(i)
    \/ \E i \in Requests : RunRefund(i) \/ MarkRefunded(i)
    \/ \E i \in Requests : Staff(i) \/ Schedulers(i)
    \/ ConfirmAll \/ WaiveAll

\* Stripe retries a webhook until it is answered 200, jobs are retried, and the
\* reconciliation runs on a timer.
Fairness ==
    \A i \in Requests : WF_vars(Webhook(i)) /\ WF_vars(RunRefund(i)) /\ WF_vars(MarkRefunded(i))
                        /\ WF_vars(Reconcile(i))

Spec == Init /\ [][Next]_vars /\ Fairness

-----------------------------------------------------------------------------

\* Only money Stripe has captured settles anything: the snapshots that count as
\* settled and the participants marked paid by an intent.
PaidWasCaptured ==
    /\ \A k \in Requests : snapshot[k] \in {"completed", "paid", "superseded", "refunded"}
                           => paidBy[k] # NoIntent /\ Captured(paidBy[k])
    /\ \A p \in Participants : payer[p] # NoIntent => Captured(payer[p])

\* What is left to be done about the money of i.
Quiet(i) == due[i] = {} /\ job[i] = "none"

Kept(i) == i \in tagged /\ Captured(i) /\ returned[i] = "none"

\* Two requests of one booking, two payments, whatever the order of checks,
\* confirmations, webhooks and retries: in the end the club does not keep both.
\* Intents that carry no snapshot, and snapshots deleted by a later request,
\* are beyond what the webhook can see.
NoDoubleCharge ==
    \A i, j \in Requests :
       /\ i # j
       /\ Kept(i) /\ Quiet(i) /\ snapshot[i] # "deleted"
       /\ Kept(j) /\ Quiet(j) /\ snapshot[j] # "deleted"
       => FALSE

\* A captured payment that names its snapshot ends up as the payment of some
\* snapshot or goes back.  One that was declined first, and paid when another
\* payment had settled the session, is refused by the unique index for ever.
Settled(i) ==
    \/ returned[i] # "none"
    \/ \E k \in SnapshotsOf(i) : snapshot[k] \in {"completed", "paid"}
    \/ snapshot[i] = "failed"

CapturedSettles == \A i \in Requests : (i \in tagged /\ "succeeded" \in due[i]) ~> Settled(i)

\* The payments of the completed snapshot, of which the unique index leaves one.
SettledBy == {paidBy[k] : k \in {j \in Requests : snapshot[j] = "completed"}}
             \cup (IF deskPaid THEN {NoIntent} ELSE {})

\* Requests, webhooks, jobs, timers and staff keep one account in order, although
\* each reads snapshots and intents in steps of their own.
Account == INSTANCE FeeAccount WITH
    Payments <- Requests,
    Nobody <- NoIntent,
    charge <- intent,
    settledBy <- SettledBy,
    share <- part

ImplementsAccount == Account!Spec

\* event-handling.md: a succeeded payment with a snapshot marks its participants
\* as paid; payments.ts refunds only orphans.  A payment that has done so is not
\* sent back by the webhook that announces it.
SettledPaymentKept ==
    [][\A i \in Requests :
          /\ paidBy[i] = i
          /\ snapshot[i] = "completed"
          /\ \A p \in Covers[i] : part[p] = "paid" /\ payer[p] = i
          => ~(job[i] = "none" /\ job'[i] = "all")]_vars

-----------------------------------------------------------------------------
(* The inductive invariant. *)

\* A request that is not done has nothing to show yet, except the pending
\* snapshot it is about to replace.
RequestsInv ==
    \A k \in Requests :
       /\ phase[k] # "done" => intent[k] = "none" /\ paidBy[k] = NoIntent
       /\ phase[k] = "replacing" => target[k] \in Requests /\ paidBy[target[k]] # NoIntent

\* Rows, snapshots and metadata are about intents that exist, and a tagged
\* intent is the one its own snapshot names.
IntentsInv ==
    /\ \A i \in Requests : intent[i] = "none" => row[i] = "none" /\ i \notin tagged
    /\ \A k \in Requests : paidBy[k] # NoIntent => intent[paidBy[k]] # "none"
    /\ \A i \in tagged : paidBy[i] \in {i, NoIntent}

\* Whatever speaks of paid or returned money is about captured intents.
MoneyInv ==
    \A i \in Requests :
       /\ "succeeded" \in due[i] => Captured(i)
       /\ returned[i] # "none" => Captured(i)
       /\ due[i] \cap {"part", "all"} # {} => returned[i] # "none"
       /\ i \in refundSeen \cup marking => returned[i] # "none"
       /\ job[i] # "none" => Captured(i)
       /\ row[i] \in {"succeeded", "refunding", "partially_refunded", "refunded"} => Captured(i)

\* The webhook has dealt with a tagged payment: it settled the snapshot, or the
\* money is on its way back.
Accounted ==
    \A i \in tagged :
       /\ Captured(i)
       /\ "succeeded" \notin due[i]
       /\ job[i] = "none"
       /\ returned[i] = "none"
       => snapshot[i] \in {"completed", "deleted"}

OneCompleted ==
    \A j, k \in Requests : snapshot[j] = "completed" /\ snapshot[k] = "completed" => j = k

IInv ==
    /\ TypeOK
    /\ RequestsInv
    /\ IntentsInv
    /\ MoneyInv
    /\ PaidWasCaptured
    /\ Accounted
    /\ OneCompleted

=============================================================================
