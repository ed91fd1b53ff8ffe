------------------------- MODULE FeePaymentsProofs -------------------------
(***************************************************************************)
(* Theorems about FeePayments, for every set of requests and participants, *)
(* whoever the requests cover, and for every bound: the type invariant and *)
(* the inductive invariant behind PaidWasCaptured and NoDoubleCharge, and  *)
(* the refinement of FeeAccount that rests on it.                          *)
(*                                                                         *)
(* One lemma per operation says that it keeps every part of the invariant; *)
(* the operations that several actions share come as lemmas of their own.  *)
(***************************************************************************)
EXTENDS FeePayments, TLAPS

\* A request that finds a row of a succeeded payment.
LEMMA AlreadyPaidKeeps ==
    ASSUME IInv, NEW k \in Requests,
           phase[k] = "idle",
           AlreadyPaid(k)
    PROVE  IInv'
<1>1. TypeOK'
  BY NamesAssumption, CoversAssumption, BoundsAssumption DEF IInv, TypeOK, Phases,
     SnapshotStatuses, RowStatuses, AlreadyPaid, Goto, desk, snapshots, stripe, people
<1>2. RequestsInv'
  BY NamesAssumption DEF IInv, TypeOK, RequestsInv, IntentsInv, MoneyInv, Captured,
     AlreadyPaid, Goto, desk, snapshots, stripe, people
<1>3. IntentsInv'
  BY NamesAssumption DEF IInv, TypeOK, RequestsInv, IntentsInv, MoneyInv, Captured,
     AlreadyPaid, Goto, desk, snapshots, stripe, people
<1>4. MoneyInv'
  BY NamesAssumption DEF IInv, TypeOK, RequestsInv, IntentsInv, MoneyInv, Captured,
     AlreadyPaid, Goto, desk, snapshots, stripe, people
<1>5. PaidWasCaptured'
  BY NamesAssumption DEF IInv, TypeOK, RequestsInv, IntentsInv, MoneyInv, Captured,
     PaidWasCaptured, AlreadyPaid, Goto, desk, snapshots, stripe, people
<1>6. Accounted'
  BY NamesAssumption DEF IInv, TypeOK, RequestsInv, IntentsInv, MoneyInv, Captured,
     Accounted, PaidWasCaptured, AlreadyPaid, Goto, desk, snapshots, stripe, people
<1>7. OneCompleted'
  BY NamesAssumption DEF IInv, TypeOK, RequestsInv, IntentsInv, MoneyInv, Captured,
     OneCompleted, AlreadyPaid, Goto, desk, snapshots, stripe, people
<1> QED
  BY <1>1, <1>2, <1>3, <1>4, <1>5, <1>6, <1>7 DEF IInv

\* A request that finds an open intent.
LEMMA ReuseKeeps ==
    ASSUME IInv, NEW k \in Requests,
           phase[k] = "idle",
           Reuse(k)
    PROVE  IInv'
<1>1. TypeOK'
  BY NamesAssumption, CoversAssumption, BoundsAssumption DEF IInv, TypeOK, Phases,
     SnapshotStatuses, RowStatuses, Reuse, Goto, desk, snapshots, stripe, people
<1>2. RequestsInv'
  BY NamesAssumption DEF IInv, TypeOK, RequestsInv, IntentsInv, MoneyInv, Captured, Reuse,
     Goto, desk, snapshots, stripe, people
<1>3. IntentsInv'
  BY NamesAssumption DEF IInv, TypeOK, RequestsInv, IntentsInv, MoneyInv, Captured, Reuse,
     Goto, desk, snapshots, stripe, people
<1>4. MoneyInv'
  BY NamesAssumption DEF IInv, TypeOK, RequestsInv, IntentsInv, MoneyInv, Captured, Reuse,
     Goto, desk, snapshots, stripe, people
<1>5. PaidWasCaptured'
  BY NamesAssumption DEF IInv, TypeOK, RequestsInv, IntentsInv, MoneyInv, Captured,
     PaidWasCaptured, Reuse, Goto, desk, snapshots, stripe, people
<1>6. Accounted'
  BY NamesAssumption DEF IInv, TypeOK, RequestsInv, IntentsInv, MoneyInv, Captured,
     Accounted, PaidWasCaptured, Reuse, Goto, desk, snapshots, stripe, people
<1>7. OneCompleted'
  BY NamesAssumption DEF IInv, TypeOK, RequestsInv, IntentsInv, MoneyInv, Captured,
     OneCompleted, Reuse, Goto, desk, snapshots, stripe, people
<1> QED
  BY <1>1, <1>2, <1>3, <1>4, <1>5, <1>6, <1>7 DEF IInv

\* A request that goes on to charge.
LEMMA ProceedKeeps ==
    ASSUME IInv, NEW k \in Requests,
           phase[k] = "idle",
           Proceed(k)
    PROVE  IInv'
<1>1. TypeOK'
  BY NamesAssumption, CoversAssumption, BoundsAssumption DEF IInv, TypeOK, Phases,
     SnapshotStatuses, RowStatuses, Proceed, Goto, desk, snapshots, stripe, people
<1>2. RequestsInv'
  BY NamesAssumption DEF IInv, TypeOK, RequestsInv, IntentsInv, MoneyInv, Captured, Proceed,
     Goto, desk, snapshots, stripe, people
<1>3. IntentsInv'
  BY NamesAssumption DEF IInv, TypeOK, RequestsInv, IntentsInv, MoneyInv, Captured, Proceed,
     Goto, desk, snapshots, stripe, people
<1>4. MoneyInv'
  BY NamesAssumption DEF IInv, TypeOK, RequestsInv, IntentsInv, MoneyInv, Captured, Proceed,
     Goto, desk, snapshots, stripe, people
<1>5. PaidWasCaptured'
  BY NamesAssumption DEF IInv, TypeOK, RequestsInv, IntentsInv, MoneyInv, Captured,
     PaidWasCaptured, Proceed, Goto, desk, snapshots, stripe, people
<1>6. Accounted'
  BY NamesAssumption DEF IInv, TypeOK, RequestsInv, IntentsInv, MoneyInv, Captured,
     Accounted, PaidWasCaptured, Proceed, Goto, desk, snapshots, stripe, people
<1>7. OneCompleted'
  BY NamesAssumption DEF IInv, TypeOK, RequestsInv, IntentsInv, MoneyInv, Captured,
     OneCompleted, Proceed, Goto, desk, snapshots, stripe, people
<1> QED
  BY <1>1, <1>2, <1>3, <1>4, <1>5, <1>6, <1>7 DEF IInv

\* A request that replaces another one's snapshot.
LEMMA ReplaceKeeps ==
    ASSUME IInv, NEW k \in Requests,
           Replace(k)
    PROVE  IInv'
<1>1. TypeOK'
  BY NamesAssumption, CoversAssumption, BoundsAssumption DEF IInv, TypeOK, Phases,
     SnapshotStatuses, RowStatuses, Replace, Incident, Goto, SetSnapshots, SetRow, desk, snapshots,
     stripe, people
<1>2. RequestsInv'
  BY NamesAssumption DEF IInv, TypeOK, RequestsInv, IntentsInv, MoneyInv, Captured, Replace,
     Incident, Goto, SetSnapshots, SetRow, desk, snapshots, stripe, people
<1>3. IntentsInv'
  BY NamesAssumption DEF IInv, TypeOK, RequestsInv, IntentsInv, MoneyInv, Captured, Replace,
     Incident, Goto, SetSnapshots, SetRow, desk, snapshots, stripe, people
<1>4. MoneyInv'
  BY NamesAssumption DEF IInv, TypeOK, RequestsInv, IntentsInv, MoneyInv, Captured, Replace,
     Incident, Goto, SetSnapshots, SetRow, desk, snapshots, stripe, people
<1>5. PaidWasCaptured'
  BY NamesAssumption DEF IInv, TypeOK, RequestsInv, IntentsInv, MoneyInv, Captured,
     PaidWasCaptured, Replace, Incident, Goto, SetSnapshots, SetRow, desk, snapshots, stripe, people
<1>6. Accounted'
  BY NamesAssumption DEF IInv, TypeOK, RequestsInv, IntentsInv, MoneyInv, Captured,
     Accounted, PaidWasCaptured, Replace, Incident, Goto, SetSnapshots, SetRow, desk, snapshots,
     stripe, people
<1>7. OneCompleted'
  BY NamesAssumption DEF IInv, TypeOK, RequestsInv, IntentsInv, MoneyInv, Captured,
     OneCompleted, Replace, Incident, Goto, SetSnapshots, SetRow, desk, snapshots, stripe, people
<1> QED
  BY <1>1, <1>2, <1>3, <1>4, <1>5, <1>6, <1>7 DEF IInv

\* An invoice of the request's own.
LEMMA OwnInvoiceKeeps ==
    ASSUME IInv, NEW k \in Requests,
           NEW carries \in BOOLEAN,
           phase[k] \in {"charging", "drafting", "creating"},
           OwnInvoice(k, carries),
           UNCHANGED <<target, returned, people, deskPaid, due, refundSeen, job, marking>>
    PROVE  IInv'
<1>1. TypeOK'
  BY NamesAssumption, CoversAssumption, BoundsAssumption DEF IInv, TypeOK, Phases,
     SnapshotStatuses, RowStatuses, OwnInvoice, Record, Interrupted, Incident, SetSnapshots,
     Goto, desk, snapshots, stripe, people
<1>2. RequestsInv'
  BY NamesAssumption DEF IInv, TypeOK, RequestsInv, IntentsInv, MoneyInv, Captured,
     OwnInvoice, Record, Interrupted, Incident, SetSnapshots, Goto, desk, snapshots, stripe,
     people
<1>3. IntentsInv'
  BY NamesAssumption DEF IInv, TypeOK, RequestsInv, IntentsInv, MoneyInv, Captured,
     OwnInvoice, Record, Interrupted, Incident, SetSnapshots, Goto, desk, snapshots, stripe,
     people
<1>4. MoneyInv'
  BY NamesAssumption DEF IInv, TypeOK, RequestsInv, IntentsInv, MoneyInv, Captured,
     OwnInvoice, Record, Interrupted, Incident, SetSnapshots, Goto, desk, snapshots, stripe,
     people
<1>5. PaidWasCaptured'
  BY NamesAssumption DEF IInv, TypeOK, RequestsInv, IntentsInv, MoneyInv, Captured,
     PaidWasCaptured, OwnInvoice, Record, Interrupted, Incident, SetSnapshots, Goto, desk,
     snapshots, stripe, people
<1>6. Accounted'
  BY NamesAssumption DEF IInv, TypeOK, RequestsInv, IntentsInv, MoneyInv, Captured,
     Accounted, PaidWasCaptured, OwnInvoice, Record, Interrupted, Incident, SetSnapshots,
     Goto, desk, snapshots, stripe, people
<1>7. OneCompleted'
  BY NamesAssumption DEF IInv, TypeOK, RequestsInv, IntentsInv, MoneyInv, Captured,
     OneCompleted, OwnInvoice, Record, Interrupted, Incident, SetSnapshots, Goto, desk,
     snapshots, stripe, people
<1> QED
  BY <1>1, <1>2, <1>3, <1>4, <1>5, <1>6, <1>7 DEF IInv

\* A request records the intent it was given.
LEMMA RecordKeeps ==
    ASSUME IInv, NEW k \in Requests,
           NEW i \in Requests,
           phase[k] \in {"charging", "drafting", "creating"},
           \/ intent[i] = "open" /\ Record(k, i, "pending", "pending")
           \/ Captured(i) /\ Record(k, i, "paid", "succeeded"),
           UNCHANGED stripe,
           UNCHANGED <<target, returned, people, deskPaid, due, refundSeen, job, marking>>
    PROVE  IInv'
<1>1. TypeOK'
  BY NamesAssumption, CoversAssumption, BoundsAssumption DEF IInv, TypeOK, Phases,
     SnapshotStatuses, RowStatuses, Record, SetSnapshots, Goto, desk, snapshots, stripe,
     people
<1>2. RequestsInv'
  BY NamesAssumption DEF IInv, TypeOK, RequestsInv, IntentsInv, MoneyInv, Captured, Record,
     SetSnapshots, Goto, desk, snapshots, stripe, people
<1>3. IntentsInv'
  BY NamesAssumption DEF IInv, TypeOK, RequestsInv, IntentsInv, MoneyInv, Captured, Record,
     SetSnapshots, Goto, desk, snapshots, stripe, people
<1>4. MoneyInv'
  BY NamesAssumption DEF IInv, TypeOK, RequestsInv, IntentsInv, MoneyInv, Captured, Record,
     SetSnapshots, Goto, desk, snapshots, stripe, people
<1>5. PaidWasCaptured'
  BY NamesAssumption DEF IInv, TypeOK, RequestsInv, IntentsInv, MoneyInv, Captured,
     PaidWasCaptured, Record, SetSnapshots, Goto, desk, snapshots, stripe, people
<1>6. Accounted'
  BY NamesAssumption DEF IInv, TypeOK, RequestsInv, IntentsInv, MoneyInv, Captured,
     Accounted, PaidWasCaptured, Record, SetSnapshots, Goto, desk, snapshots, stripe, people
<1>7. OneCompleted'
  BY NamesAssumption DEF IInv, TypeOK, RequestsInv, IntentsInv, MoneyInv, Captured,
     OneCompleted, Record, SetSnapshots, Goto, desk, snapshots, stripe, people
<1> QED
  BY <1>1, <1>2, <1>3, <1>4, <1>5, <1>6, <1>7 DEF IInv

\* A request goes on.
LEMMA AdvanceKeeps ==
    ASSUME IInv, NEW k \in Requests,
           phase[k] \in {"charging", "drafting", "creating"},
           NEW where \in {"drafting", "creating"},
           Advance(k, where),
           UNCHANGED stripe,
           UNCHANGED <<target, returned, people, deskPaid, due, refundSeen, job, marking>>
    PROVE  IInv'
<1>1. TypeOK'
  BY NamesAssumption, CoversAssumption, BoundsAssumption DEF IInv, TypeOK, Phases,
     SnapshotStatuses, RowStatuses, Advance, Goto, desk, snapshots, stripe, people
<1>2. RequestsInv'
  BY NamesAssumption DEF IInv, TypeOK, RequestsInv, IntentsInv, MoneyInv, Captured, Advance,
     Goto, desk, snapshots, stripe, people
<1>3. IntentsInv'
  BY NamesAssumption DEF IInv, TypeOK, RequestsInv, IntentsInv, MoneyInv, Captured, Advance,
     Goto, desk, snapshots, stripe, people
<1>4. MoneyInv'
  BY NamesAssumption DEF IInv, TypeOK, RequestsInv, IntentsInv, MoneyInv, Captured, Advance,
     Goto, desk, snapshots, stripe, people
<1>5. PaidWasCaptured'
  BY NamesAssumption DEF IInv, TypeOK, RequestsInv, IntentsInv, MoneyInv, Captured,
     PaidWasCaptured, Advance, Goto, desk, snapshots, stripe, people
<1>6. Accounted'
  BY NamesAssumption DEF IInv, TypeOK, RequestsInv, IntentsInv, MoneyInv, Captured,
     Accounted, PaidWasCaptured, Advance, Goto, desk, snapshots, stripe, people
<1>7. OneCompleted'
  BY NamesAssumption DEF IInv, TypeOK, RequestsInv, IntentsInv, MoneyInv, Captured,
     OneCompleted, Advance, Goto, desk, snapshots, stripe, people
<1> QED
  BY <1>1, <1>2, <1>3, <1>4, <1>5, <1>6, <1>7 DEF IInv

\* A request gives up the invoice of the booking.
LEMMA DropInvoiceKeeps ==
    ASSUME IInv, NEW k \in Requests,
           phase[k] \in {"charging", "drafting", "creating"},
           invoice \in Requests,
           DropInvoice(k),
           UNCHANGED <<target, returned, people, deskPaid, due, refundSeen, job, marking>>
    PROVE  IInv'
<1>1. TypeOK'
  BY NamesAssumption, CoversAssumption, BoundsAssumption DEF IInv, TypeOK, Phases,
     SnapshotStatuses, RowStatuses, DropInvoice, Advance, Goto, desk, snapshots, stripe,
     people
<1>2. RequestsInv'
  BY NamesAssumption DEF IInv, TypeOK, RequestsInv, IntentsInv, MoneyInv, Captured,
     DropInvoice, Advance, Goto, desk, snapshots, stripe, people
<1>3. IntentsInv'
  BY NamesAssumption DEF IInv, TypeOK, RequestsInv, IntentsInv, MoneyInv, Captured,
     DropInvoice, Advance, Goto, desk, snapshots, stripe, people
<1>4. MoneyInv'
  BY NamesAssumption DEF IInv, TypeOK, RequestsInv, IntentsInv, MoneyInv, Captured,
     DropInvoice, Advance, Goto, desk, snapshots, stripe, people
<1>5. PaidWasCaptured'
  BY NamesAssumption DEF IInv, TypeOK, RequestsInv, IntentsInv, MoneyInv, Captured,
     PaidWasCaptured, DropInvoice, Advance, Goto, desk, snapshots, stripe, people
<1>6. Accounted'
  BY NamesAssumption DEF IInv, TypeOK, RequestsInv, IntentsInv, MoneyInv, Captured,
     Accounted, PaidWasCaptured, DropInvoice, Advance, Goto, desk, snapshots, stripe, people
<1>7. OneCompleted'
  BY NamesAssumption DEF IInv, TypeOK, RequestsInv, IntentsInv, MoneyInv, Captured,
     OneCompleted, DropInvoice, Advance, Goto, desk, snapshots, stripe, people
<1> QED
  BY <1>1, <1>2, <1>3, <1>4, <1>5, <1>6, <1>7 DEF IInv

\* The customer pays.
LEMMA PayKeeps ==
    ASSUME IInv, NEW i \in Requests,
           Pay(i)
    PROVE  IInv'
<1>1. TypeOK'
  BY NamesAssumption, CoversAssumption, BoundsAssumption DEF IInv, TypeOK, Phases,
     SnapshotStatuses, RowStatuses, Pay, desk, snapshots, stripe, people
<1>2. RequestsInv'
  BY NamesAssumption DEF IInv, TypeOK, RequestsInv, IntentsInv, MoneyInv, Captured, Pay,
     desk, snapshots, stripe, people
<1>3. IntentsInv'
  BY NamesAssumption DEF IInv, TypeOK, RequestsInv, IntentsInv, MoneyInv, Captured, Pay,
     desk, snapshots, stripe, people
<1>4. MoneyInv'
  BY NamesAssumption DEF IInv, TypeOK, RequestsInv, IntentsInv, MoneyInv, Captured, Pay,
     desk, snapshots, stripe, people
<1>5. PaidWasCaptured'
  BY NamesAssumption DEF IInv, TypeOK, RequestsInv, IntentsInv, MoneyInv, Captured,
     PaidWasCaptured, Pay, desk, snapshots, stripe, people
<1>6. Accounted'
  BY NamesAssumption DEF IInv, TypeOK, RequestsInv, IntentsInv, MoneyInv, Captured,
     Accounted, PaidWasCaptured, Pay, desk, snapshots, stripe, people
<1>7. OneCompleted'
  BY NamesAssumption DEF IInv, TypeOK, RequestsInv, IntentsInv, MoneyInv, Captured,
     OneCompleted, Pay, desk, snapshots, stripe, people
<1> QED
  BY <1>1, <1>2, <1>3, <1>4, <1>5, <1>6, <1>7 DEF IInv

\* The customer is declined.
LEMMA DeclineKeeps ==
    ASSUME IInv, NEW i \in Requests,
           Decline(i)
    PROVE  IInv'
<1>1. TypeOK'
  BY NamesAssumption, CoversAssumption, BoundsAssumption DEF IInv, TypeOK, Phases,
     SnapshotStatuses, RowStatuses, Decline, Incident, desk, snapshots, stripe, people
<1>2. RequestsInv'
  BY NamesAssumption DEF IInv, TypeOK, RequestsInv, IntentsInv, MoneyInv, Captured, Decline,
     Incident, desk, snapshots, stripe, people
<1>3. IntentsInv'
  BY NamesAssumption DEF IInv, TypeOK, RequestsInv, IntentsInv, MoneyInv, Captured, Decline,
     Incident, desk, snapshots, stripe, people
<1>4. MoneyInv'
  BY NamesAssumption DEF IInv, TypeOK, RequestsInv, IntentsInv, MoneyInv, Captured, Decline,
     Incident, desk, snapshots, stripe, people
<1>5. PaidWasCaptured'
  BY NamesAssumption DEF IInv, TypeOK, RequestsInv, IntentsInv, MoneyInv, Captured,
     PaidWasCaptured, Decline, Incident, desk, snapshots, stripe, people
<1>6. Accounted'
  BY NamesAssumption DEF IInv, TypeOK, RequestsInv, IntentsInv, MoneyInv, Captured,
     Accounted, PaidWasCaptured, Decline, Incident, desk, snapshots, stripe, people
<1>7. OneCompleted'
  BY NamesAssumption DEF IInv, TypeOK, RequestsInv, IntentsInv, MoneyInv, Captured,
     OneCompleted, Decline, Incident, desk, snapshots, stripe, people
<1> QED
  BY <1>1, <1>2, <1>3, <1>4, <1>5, <1>6, <1>7 DEF IInv

\* A webhook after the refund's.
LEMMA OutOfOrderKeeps ==
    ASSUME IInv, NEW i \in Requests,
           OutOfOrder(i)
    PROVE  IInv'
<1>1. TypeOK'
  BY NamesAssumption, CoversAssumption, BoundsAssumption DEF IInv, TypeOK, Phases,
     SnapshotStatuses, RowStatuses, OutOfOrder, Received, desk, snapshots, stripe, people
<1>2. RequestsInv'
  BY NamesAssumption DEF IInv, TypeOK, RequestsInv, IntentsInv, MoneyInv, Captured,
     OutOfOrder, Received, desk, snapshots, stripe, people
<1>3. IntentsInv'
  BY NamesAssumption DEF IInv, TypeOK, RequestsInv, IntentsInv, MoneyInv, Captured,
     OutOfOrder, Received, desk, snapshots, stripe, people
<1>4. MoneyInv'
  BY NamesAssumption DEF IInv, TypeOK, RequestsInv, IntentsInv, MoneyInv, Captured,
     OutOfOrder, Received, desk, snapshots, stripe, people
<1>5. PaidWasCaptured'
  BY NamesAssumption DEF IInv, TypeOK, RequestsInv, IntentsInv, MoneyInv, Captured,
     PaidWasCaptured, OutOfOrder, Received, desk, snapshots, stripe, people
<1>6. Accounted'
  BY NamesAssumption DEF IInv, TypeOK, RequestsInv, IntentsInv, MoneyInv, Captured,
     Accounted, PaidWasCaptured, OutOfOrder, Received, desk, snapshots, stripe, people
<1>7. OneCompleted'
  BY NamesAssumption DEF IInv, TypeOK, RequestsInv, IntentsInv, MoneyInv, Captured,
     OneCompleted, OutOfOrder, Received, desk, snapshots, stripe, people
<1> QED
  BY <1>1, <1>2, <1>3, <1>4, <1>5, <1>6, <1>7 DEF IInv

\* payment_intent.succeeded
LEMMA WebhookSucceededKeeps ==
    ASSUME IInv, NEW i \in Requests,
           WebhookSucceeded(i)
    PROVE  IInv'
<1>1. TypeOK'
  BY NamesAssumption, CoversAssumption, BoundsAssumption DEF IInv, TypeOK, Phases,
     SnapshotStatuses, RowStatuses, WebhookSucceeded, Received, Expected, SettleByWebhook,
     QueueRefund, Overpaid, Unpaid, CompletedBesides, SetSnapshots, PayFor, desk, snapshots,
     stripe, people
<1>2. RequestsInv'
  BY NamesAssumption DEF IInv, TypeOK, RequestsInv, IntentsInv, MoneyInv, Captured,
     WebhookSucceeded, Received, Expected, SettleByWebhook, QueueRefund, Overpaid, Unpaid,
     CompletedBesides, SetSnapshots, PayFor, desk, snapshots, stripe, people
<1>3. IntentsInv'
  BY NamesAssumption DEF IInv, TypeOK, RequestsInv, IntentsInv, MoneyInv, Captured,
     WebhookSucceeded, Received, Expected, SettleByWebhook, QueueRefund, Overpaid, Unpaid,
     CompletedBesides, SetSnapshots, PayFor, desk, snapshots, stripe, people
<1>4. MoneyInv'
  BY NamesAssumption DEF IInv, TypeOK, RequestsInv, IntentsInv, MoneyInv, Captured,
     WebhookSucceeded, Received, Expected, SettleByWebhook, QueueRefund, Overpaid, Unpaid,
     CompletedBesides, SetSnapshots, PayFor, desk, snapshots, stripe, people
<1>5. PaidWasCaptured'
  BY NamesAssumption DEF IInv, TypeOK, RequestsInv, IntentsInv, MoneyInv, Captured,
     PaidWasCaptured, WebhookSucceeded, Received, Expected, SettleByWebhook, QueueRefund,
     Overpaid, Unpaid, CompletedBesides, SetSnapshots, PayFor, desk, snapshots, stripe,
     people
<1>6. Accounted'
  BY NamesAssumption DEF IInv, TypeOK, RequestsInv, IntentsInv, MoneyInv, Captured,
     Accounted, PaidWasCaptured, WebhookSucceeded, Received, Expected, SettleByWebhook,
     QueueRefund, Overpaid, Unpaid, CompletedBesides, SetSnapshots, PayFor, desk, snapshots,
     stripe, people
<1>7. OneCompleted'
  BY NamesAssumption DEF IInv, TypeOK, RequestsInv, IntentsInv, MoneyInv, Captured,
     OneCompleted, WebhookSucceeded, Received, Expected, SettleByWebhook, QueueRefund,
     Overpaid, Unpaid, CompletedBesides, SetSnapshots, PayFor, desk, snapshots, stripe,
     people
<1> QED
  BY <1>1, <1>2, <1>3, <1>4, <1>5, <1>6, <1>7 DEF IInv

\* payment_intent.payment_failed
LEMMA WebhookFailedKeeps ==
    ASSUME IInv, NEW i \in Requests,
           WebhookFailed(i)
    PROVE  IInv'
<1>1. TypeOK'
  BY NamesAssumption, CoversAssumption, BoundsAssumption DEF IInv, TypeOK, Phases,
     SnapshotStatuses, RowStatuses, WebhookFailed, Received, SetRow, SetSnapshots,
     PendingOf, SnapshotsOf, desk, snapshots, stripe, people
<1>2. RequestsInv'
  BY NamesAssumption DEF IInv, TypeOK, RequestsInv, IntentsInv, MoneyInv, Captured,
     WebhookFailed, Received, SetRow, SetSnapshots, PendingOf, SnapshotsOf, desk, snapshots,
     stripe, people
<1>3. IntentsInv'
  BY NamesAssumption DEF IInv, TypeOK, RequestsInv, IntentsInv, MoneyInv, Captured,
     WebhookFailed, Received, SetRow, SetSnapshots, PendingOf, SnapshotsOf, desk, snapshots,
     stripe, people
<1>4. MoneyInv'
  BY NamesAssumption DEF IInv, TypeOK, RequestsInv, IntentsInv, MoneyInv, Captured,
     WebhookFailed, Received, SetRow, SetSnapshots, PendingOf, SnapshotsOf, desk, snapshots,
     stripe, people
<1>5. PaidWasCaptured'
  BY NamesAssumption DEF IInv, TypeOK, RequestsInv, IntentsInv, MoneyInv, Captured,
     PaidWasCaptured, WebhookFailed, Received, SetRow, SetSnapshots, PendingOf, SnapshotsOf,
     desk, snapshots, stripe, people
<1>6. Accounted'
  BY NamesAssumption DEF IInv, TypeOK, RequestsInv, IntentsInv, MoneyInv, Captured,
     Accounted, PaidWasCaptured, WebhookFailed, Received, SetRow, SetSnapshots, PendingOf,
     SnapshotsOf, desk, snapshots, stripe, people
<1>7. OneCompleted'
  BY NamesAssumption DEF IInv, TypeOK, RequestsInv, IntentsInv, MoneyInv, Captured,
     OneCompleted, WebhookFailed, Received, SetRow, SetSnapshots, PendingOf, SnapshotsOf,
     desk, snapshots, stripe, people
<1> QED
  BY <1>1, <1>2, <1>3, <1>4, <1>5, <1>6, <1>7 DEF IInv

\* charge.refunded
LEMMA WebhookRefundedKeeps ==
    ASSUME IInv, NEW i \in Requests,
           NEW kind \in {"part", "all"},
           WebhookRefunded(i, kind)
    PROVE  IInv'
<1>1. TypeOK'
  BY NamesAssumption, CoversAssumption, BoundsAssumption DEF IInv, TypeOK, Phases,
     SnapshotStatuses, RowStatuses, WebhookRefunded, Received, SetRow, Refund, PaidFor,
     desk, snapshots, stripe, people
<1>2. RequestsInv'
  BY NamesAssumption DEF IInv, TypeOK, RequestsInv, IntentsInv, MoneyInv, Captured,
     WebhookRefunded, Received, SetRow, Refund, PaidFor, desk, snapshots, stripe, people
<1>3. IntentsInv'
  BY NamesAssumption DEF IInv, TypeOK, RequestsInv, IntentsInv, MoneyInv, Captured,
     WebhookRefunded, Received, SetRow, Refund, PaidFor, desk, snapshots, stripe, people
<1>4. MoneyInv'
  BY NamesAssumption DEF IInv, TypeOK, RequestsInv, IntentsInv, MoneyInv, Captured,
     WebhookRefunded, Received, SetRow, Refund, PaidFor, desk, snapshots, stripe, people
<1>5. PaidWasCaptured'
  BY NamesAssumption DEF IInv, TypeOK, RequestsInv, IntentsInv, MoneyInv, Captured,
     PaidWasCaptured, WebhookRefunded, Received, SetRow, Refund, PaidFor, desk, snapshots,
     stripe, people
<1>6. Accounted'
  BY NamesAssumption DEF IInv, TypeOK, RequestsInv, IntentsInv, MoneyInv, Captured,
     Accounted, PaidWasCaptured, WebhookRefunded, Received, SetRow, Refund, PaidFor, desk,
     snapshots, stripe, people
<1>7. OneCompleted'
  BY NamesAssumption DEF IInv, TypeOK, RequestsInv, IntentsInv, MoneyInv, Captured,
     OneCompleted, WebhookRefunded, Received, SetRow, Refund, PaidFor, desk, snapshots,
     stripe, people
<1> QED
  BY <1>1, <1>2, <1>3, <1>4, <1>5, <1>6, <1>7 DEF IInv

\* The refund job.
LEMMA RunRefundKeeps ==
    ASSUME IInv, NEW i \in Requests,
           RunRefund(i)
    PROVE  IInv'
<1>1. TypeOK'
  BY NamesAssumption, CoversAssumption, BoundsAssumption DEF IInv, TypeOK, Phases,
     SnapshotStatuses, RowStatuses, RunRefund, GiveBack, desk, snapshots, stripe, people
<1>2. RequestsInv'
  BY NamesAssumption DEF IInv, TypeOK, RequestsInv, IntentsInv, MoneyInv, Captured,
     RunRefund, GiveBack, desk, snapshots, stripe, people
<1>3. IntentsInv'
  BY NamesAssumption DEF IInv, TypeOK, RequestsInv, IntentsInv, MoneyInv, Captured,
     RunRefund, GiveBack, desk, snapshots, stripe, people
<1>4. MoneyInv'
  BY NamesAssumption DEF IInv, TypeOK, RequestsInv, IntentsInv, MoneyInv, Captured,
     RunRefund, GiveBack, desk, snapshots, stripe, people
<1>5. PaidWasCaptured'
  BY NamesAssumption DEF IInv, TypeOK, RequestsInv, IntentsInv, MoneyInv, Captured,
     PaidWasCaptured, RunRefund, GiveBack, desk, snapshots, stripe, people
<1>6. Accounted'
  BY NamesAssumption DEF IInv, TypeOK, RequestsInv, IntentsInv, MoneyInv, Captured,
     Accounted, PaidWasCaptured, RunRefund, GiveBack, desk, snapshots, stripe, people
<1>7. OneCompleted'
  BY NamesAssumption DEF IInv, TypeOK, RequestsInv, IntentsInv, MoneyInv, Captured,
     OneCompleted, RunRefund, GiveBack, desk, snapshots, stripe, people
<1> QED
  BY <1>1, <1>2, <1>3, <1>4, <1>5, <1>6, <1>7 DEF IInv

\* The record of a refund.
LEMMA MarkRefundedKeeps ==
    ASSUME IInv, NEW i \in Requests,
           MarkRefunded(i)
    PROVE  IInv'
<1>1. TypeOK'
  BY NamesAssumption, CoversAssumption, BoundsAssumption DEF IInv, TypeOK, Phases,
     SnapshotStatuses, RowStatuses, MarkRefunded, Incident, SetRow, SetSnapshots,
     SnapshotsOf, Refund, desk, snapshots, stripe, people
<1>2. RequestsInv'
  BY NamesAssumption DEF IInv, TypeOK, RequestsInv, IntentsInv, MoneyInv, Captured,
     MarkRefunded, Incident, SetRow, SetSnapshots, SnapshotsOf, Refund, desk, snapshots,
     stripe, people
<1>3. IntentsInv'
  BY NamesAssumption DEF IInv, TypeOK, RequestsInv, IntentsInv, MoneyInv, Captured,
     MarkRefunded, Incident, SetRow, SetSnapshots, SnapshotsOf, Refund, desk, snapshots,
     stripe, people
<1>4. MoneyInv'
  BY NamesAssumption DEF IInv, TypeOK, RequestsInv, IntentsInv, MoneyInv, Captured,
     MarkRefunded, Incident, SetRow, SetSnapshots, SnapshotsOf, Refund, desk, snapshots,
     stripe, people
<1>5. PaidWasCaptured'
  BY NamesAssumption DEF IInv, TypeOK, RequestsInv, IntentsInv, MoneyInv, Captured,
     PaidWasCaptured, MarkRefunded, Incident, SetRow, SetSnapshots, SnapshotsOf, Refund,
     desk, snapshots, stripe, people
<1>6. Accounted'
  BY NamesAssumption DEF IInv, TypeOK, RequestsInv, IntentsInv, MoneyInv, Captured,
     Accounted, PaidWasCaptured, MarkRefunded, Incident, SetRow, SetSnapshots, SnapshotsOf,
     Refund, desk, snapshots, stripe, people
<1>7. OneCompleted'
  BY NamesAssumption DEF IInv, TypeOK, RequestsInv, IntentsInv, MoneyInv, Captured,
     OneCompleted, MarkRefunded, Incident, SetRow, SetSnapshots, SnapshotsOf, Refund, desk,
     snapshots, stripe, people
<1> QED
  BY <1>1, <1>2, <1>3, <1>4, <1>5, <1>6, <1>7 DEF IInv

\* The staff's refund.
LEMMA StaffRefundKeeps ==
    ASSUME IInv, NEW i \in Requests,
           NEW kind \in {"part", "all"},
           StaffRefund(i, kind)
    PROVE  IInv'
<1>1. TypeOK'
  BY NamesAssumption, CoversAssumption, BoundsAssumption DEF IInv, TypeOK, Phases,
     SnapshotStatuses, RowStatuses, StaffRefund, Incident, GiveBack, SetRow, Refund, desk,
     snapshots, stripe, people
<1>2. RequestsInv'
  BY NamesAssumption DEF IInv, TypeOK, RequestsInv, IntentsInv, MoneyInv, Captured,
     StaffRefund, Incident, GiveBack, SetRow, Refund, desk, snapshots, stripe, people
<1>3. IntentsInv'
  BY NamesAssumption DEF IInv, TypeOK, RequestsInv, IntentsInv, MoneyInv, Captured,
     StaffRefund, Incident, GiveBack, SetRow, Refund, desk, snapshots, stripe, people
<1>4. MoneyInv'
  BY NamesAssumption DEF IInv, TypeOK, RequestsInv, IntentsInv, MoneyInv, Captured,
     StaffRefund, Incident, GiveBack, SetRow, Refund, desk, snapshots, stripe, people
<1>5. PaidWasCaptured'
  BY NamesAssumption DEF IInv, TypeOK, RequestsInv, IntentsInv, MoneyInv, Captured,
     PaidWasCaptured, StaffRefund, Incident, GiveBack, SetRow, Refund, desk, snapshots,
     stripe, people
<1>6. Accounted'
  BY NamesAssumption DEF IInv, TypeOK, RequestsInv, IntentsInv, MoneyInv, Captured,
     Accounted, PaidWasCaptured, StaffRefund, Incident, GiveBack, SetRow, Refund, desk,
     snapshots, stripe, people
<1>7. OneCompleted'
  BY NamesAssumption DEF IInv, TypeOK, RequestsInv, IntentsInv, MoneyInv, Captured,
     OneCompleted, StaffRefund, Incident, GiveBack, SetRow, Refund, desk, snapshots, stripe,
     people
<1> QED
  BY <1>1, <1>2, <1>3, <1>4, <1>5, <1>6, <1>7 DEF IInv

\* The record of a payment, by whomever.
LEMMA MarkSucceededKeeps ==
    ASSUME IInv, NEW i \in Requests,
           Captured(i),
           MarkSucceeded(i),
           \/ UNCHANGED desk
           \/ \E k \in Requests : phase[k] = "idle" /\ Goto(k, "done") /\ UNCHANGED target
    PROVE  IInv'
<1>1. TypeOK'
  BY NamesAssumption, CoversAssumption, BoundsAssumption DEF IInv, TypeOK, Phases,
     SnapshotStatuses, RowStatuses, MarkSucceeded, Fallback, Complete, CompletedBesides,
     Goto, SetRow, SetSnapshots, SnapshotsOf, PayFor, Pending, desk, snapshots, stripe,
     people
<1>2. RequestsInv'
  BY NamesAssumption DEF IInv, TypeOK, RequestsInv, IntentsInv, MoneyInv, Captured,
     MarkSucceeded, Fallback, Complete, CompletedBesides, Goto, SetRow, SetSnapshots,
     SnapshotsOf, PayFor, Pending, desk, snapshots, stripe, people
<1>3. IntentsInv'
  BY NamesAssumption DEF IInv, TypeOK, RequestsInv, IntentsInv, MoneyInv, Captured,
     MarkSucceeded, Fallback, Complete, CompletedBesides, Goto, SetRow, SetSnapshots,
     SnapshotsOf, PayFor, Pending, desk, snapshots, stripe, people
<1>4. MoneyInv'
  BY NamesAssumption DEF IInv, TypeOK, RequestsInv, IntentsInv, MoneyInv, Captured,
     MarkSucceeded, Fallback, Complete, CompletedBesides, Goto, SetRow, SetSnapshots,
     SnapshotsOf, PayFor, Pending, desk, snapshots, stripe, people
<1>5. PaidWasCaptured'
  BY NamesAssumption DEF IInv, TypeOK, RequestsInv, IntentsInv, MoneyInv, Captured,
     PaidWasCaptured, MarkSucceeded, Fallback, Complete, CompletedBesides, Goto, SetRow,
     SetSnapshots, SnapshotsOf, PayFor, Pending, desk, snapshots, stripe, people
<1>6. Accounted'
  BY NamesAssumption DEF IInv, TypeOK, RequestsInv, IntentsInv, MoneyInv, Captured,
     Accounted, PaidWasCaptured, MarkSucceeded, Fallback, Complete, CompletedBesides, Goto,
     SetRow, SetSnapshots, SnapshotsOf, PayFor, Pending, desk, snapshots, stripe, people
<1>7. OneCompleted'
  BY NamesAssumption DEF IInv, TypeOK, RequestsInv, IntentsInv, MoneyInv, Captured,
     OneCompleted, MarkSucceeded, Fallback, Complete, CompletedBesides, Goto, SetRow,
     SetSnapshots, SnapshotsOf, PayFor, Pending, desk, snapshots, stripe, people
<1> QED
  BY <1>1, <1>2, <1>3, <1>4, <1>5, <1>6, <1>7 DEF IInv

\* The record of a canceled intent.
LEMMA MarkCancelledKeeps ==
    ASSUME IInv, NEW i \in Requests,
           intent[i] = "canceled",
           MarkCancelled(i),
           UNCHANGED desk
    PROVE  IInv'
<1>1. TypeOK'
  BY NamesAssumption, CoversAssumption, BoundsAssumption DEF IInv, TypeOK, Phases,
     SnapshotStatuses, RowStatuses, MarkCancelled, SetRow, SetSnapshots, SnapshotsOf, desk,
     snapshots, stripe, people
<1>2. RequestsInv'
  BY NamesAssumption DEF IInv, TypeOK, RequestsInv, IntentsInv, MoneyInv, Captured,
     MarkCancelled, SetRow, SetSnapshots, SnapshotsOf, desk, snapshots, stripe, people
<1>3. IntentsInv'
  BY NamesAssumption DEF IInv, TypeOK, RequestsInv, IntentsInv, MoneyInv, Captured,
     MarkCancelled, SetRow, SetSnapshots, SnapshotsOf, desk, snapshots, stripe, people
<1>4. MoneyInv'
  BY NamesAssumption DEF IInv, TypeOK, RequestsInv, IntentsInv, MoneyInv, Captured,
     MarkCancelled, SetRow, SetSnapshots, SnapshotsOf, desk, snapshots, stripe, people
<1>5. PaidWasCaptured'
  BY NamesAssumption DEF IInv, TypeOK, RequestsInv, IntentsInv, MoneyInv, Captured,
     PaidWasCaptured, MarkCancelled, SetRow, SetSnapshots, SnapshotsOf, desk, snapshots,
     stripe, people
<1>6. Accounted'
  BY NamesAssumption DEF IInv, TypeOK, RequestsInv, IntentsInv, MoneyInv, Captured,
     Accounted, PaidWasCaptured, MarkCancelled, SetRow, SetSnapshots, SnapshotsOf, desk,
     snapshots, stripe, people
<1>7. OneCompleted'
  BY NamesAssumption DEF IInv, TypeOK, RequestsInv, IntentsInv, MoneyInv, Captured,
     OneCompleted, MarkCancelled, SetRow, SetSnapshots, SnapshotsOf, desk, snapshots,
     stripe, people
<1> QED
  BY <1>1, <1>2, <1>3, <1>4, <1>5, <1>6, <1>7 DEF IInv

\* An old intent that was paid.
LEMMA AbandonedButPaidKeeps ==
    ASSUME IInv, NEW i \in Requests,
           AbandonedButPaid(i)
    PROVE  IInv'
<1>1. TypeOK'
  BY NamesAssumption, CoversAssumption, BoundsAssumption DEF IInv, TypeOK, Phases,
     SnapshotStatuses, RowStatuses, AbandonedButPaid, Incident, SetRow, SetSnapshots,
     PendingOf, SnapshotsOf, CompletedBesides, desk, snapshots, stripe, people
<1>2. RequestsInv'
  BY NamesAssumption DEF IInv, TypeOK, RequestsInv, IntentsInv, MoneyInv, Captured,
     AbandonedButPaid, Incident, SetRow, SetSnapshots, PendingOf, SnapshotsOf,
     CompletedBesides, desk, snapshots, stripe, people
<1>3. IntentsInv'
  BY NamesAssumption DEF IInv, TypeOK, RequestsInv, IntentsInv, MoneyInv, Captured,
     AbandonedButPaid, Incident, SetRow, SetSnapshots, PendingOf, SnapshotsOf,
     CompletedBesides, desk, snapshots, stripe, people
<1>4. MoneyInv'
  BY NamesAssumption DEF IInv, TypeOK, RequestsInv, IntentsInv, MoneyInv, Captured,
     AbandonedButPaid, Incident, SetRow, SetSnapshots, PendingOf, SnapshotsOf,
     CompletedBesides, desk, snapshots, stripe, people
<1>5. PaidWasCaptured'
  BY NamesAssumption DEF IInv, TypeOK, RequestsInv, IntentsInv, MoneyInv, Captured,
     PaidWasCaptured, AbandonedButPaid, Incident, SetRow, SetSnapshots, PendingOf,
     SnapshotsOf, CompletedBesides, desk, snapshots, stripe, people
<1>6. Accounted'
  BY NamesAssumption DEF IInv, TypeOK, RequestsInv, IntentsInv, MoneyInv, Captured,
     Accounted, PaidWasCaptured, AbandonedButPaid, Incident, SetRow, SetSnapshots,
     PendingOf, SnapshotsOf, CompletedBesides, desk, snapshots, stripe, people
<1>7. OneCompleted'
  BY NamesAssumption DEF IInv, TypeOK, RequestsInv, IntentsInv, MoneyInv, Captured,
     OneCompleted, AbandonedButPaid, Incident, SetRow, SetSnapshots, PendingOf, SnapshotsOf,
     CompletedBesides, desk, snapshots, stripe, people
<1> QED
  BY <1>1, <1>2, <1>3, <1>4, <1>5, <1>6, <1>7 DEF IInv

\* An old intent that was not.
LEMMA AbandonKeeps ==
    ASSUME IInv, NEW i \in Requests,
           Abandon(i)
    PROVE  IInv'
<1>1. TypeOK'
  BY NamesAssumption, CoversAssumption, BoundsAssumption DEF IInv, TypeOK, Phases,
     SnapshotStatuses, RowStatuses, Abandon, Incident, GiveBack, ToGiveBack, SetSnapshots,
     PendingOf, SnapshotsOf, desk, snapshots, stripe, people
<1>2. RequestsInv'
  BY NamesAssumption DEF IInv, TypeOK, RequestsInv, IntentsInv, MoneyInv, Captured, Abandon,
     Incident, GiveBack, ToGiveBack, SetSnapshots, PendingOf, SnapshotsOf, desk, snapshots,
     stripe, people
<1>3. IntentsInv'
  BY NamesAssumption DEF IInv, TypeOK, RequestsInv, IntentsInv, MoneyInv, Captured, Abandon,
     Incident, GiveBack, ToGiveBack, SetSnapshots, PendingOf, SnapshotsOf, desk, snapshots,
     stripe, people
<1>4. MoneyInv'
  BY NamesAssumption DEF IInv, TypeOK, RequestsInv, IntentsInv, MoneyInv, Captured, Abandon,
     Incident, GiveBack, ToGiveBack, SetSnapshots, PendingOf, SnapshotsOf, desk, snapshots,
     stripe, people
<1>5. PaidWasCaptured'
  BY NamesAssumption DEF IInv, TypeOK, RequestsInv, IntentsInv, MoneyInv, Captured,
     PaidWasCaptured, Abandon, Incident, GiveBack, ToGiveBack, SetSnapshots, PendingOf,
     SnapshotsOf, desk, snapshots, stripe, people
<1>6. Accounted'
  BY NamesAssumption DEF IInv, TypeOK, RequestsInv, IntentsInv, MoneyInv, Captured,
     Accounted, PaidWasCaptured, Abandon, Incident, GiveBack, ToGiveBack, SetSnapshots,
     PendingOf, SnapshotsOf, desk, snapshots, stripe, people
<1>7. OneCompleted'
  BY NamesAssumption DEF IInv, TypeOK, RequestsInv, IntentsInv, MoneyInv, Captured,
     OneCompleted, Abandon, Incident, GiveBack, ToGiveBack, SetSnapshots, PendingOf,
     SnapshotsOf, desk, snapshots, stripe, people
<1> QED
  BY <1>1, <1>2, <1>3, <1>4, <1>5, <1>6, <1>7 DEF IInv

\* confirm_all
LEMMA ConfirmAllKeeps ==
    ASSUME IInv,
           ConfirmAll
    PROVE  IInv'
<1>1. TypeOK'
  <2>1. deskPaid' \in BOOLEAN
    BY DEF IInv, TypeOK, ConfirmAll
  <2>2. part' \in [Participants -> {"pending", "paid", "waived", "refunded"}]
    BY DEF IInv, TypeOK, ConfirmAll
  <2>3. incidents' \in 0..MaxIncidents
    BY BoundsAssumption DEF IInv, TypeOK, ConfirmAll, Incident
  <2> QED
    BY <2>1, <2>2, <2>3 DEF IInv, TypeOK, ConfirmAll, desk, snapshots, stripe
<1>2. RequestsInv'
  BY NamesAssumption DEF IInv, TypeOK, RequestsInv, IntentsInv, MoneyInv, Captured,
     ConfirmAll, Incident, desk, snapshots, stripe, people
<1>3. IntentsInv'
  BY NamesAssumption DEF IInv, TypeOK, RequestsInv, IntentsInv, MoneyInv, Captured,
     ConfirmAll, Incident, desk, snapshots, stripe, people
<1>4. MoneyInv'
  BY NamesAssumption DEF IInv, TypeOK, RequestsInv, IntentsInv, MoneyInv, Captured,
     ConfirmAll, Incident, desk, snapshots, stripe, people
<1>5. PaidWasCaptured'
  BY NamesAssumption DEF IInv, TypeOK, RequestsInv, IntentsInv, MoneyInv, Captured,
     PaidWasCaptured, ConfirmAll, Incident, desk, snapshots, stripe, people
<1>6. Accounted'
  BY NamesAssumption DEF IInv, TypeOK, RequestsInv, IntentsInv, MoneyInv, Captured,
     Accounted, PaidWasCaptured, ConfirmAll, Incident, desk, snapshots, stripe, people
<1>7. OneCompleted'
  BY NamesAssumption DEF IInv, TypeOK, RequestsInv, IntentsInv, MoneyInv, Captured,
     OneCompleted, ConfirmAll, Incident, desk, snapshots, stripe, people
<1> QED
  BY <1>1, <1>2, <1>3, <1>4, <1>5, <1>6, <1>7 DEF IInv

\* waive_all
LEMMA WaiveAllKeeps ==
    ASSUME IInv,
           WaiveAll
    PROVE  IInv'
<1>1. TypeOK'
  BY NamesAssumption, CoversAssumption, BoundsAssumption DEF IInv, TypeOK, Phases,
     SnapshotStatuses, RowStatuses, WaiveAll, Incident, desk, snapshots, stripe, people
<1>2. RequestsInv'
  BY NamesAssumption DEF IInv, TypeOK, RequestsInv, IntentsInv, MoneyInv, Captured,
     WaiveAll, Incident, desk, snapshots, stripe, people
<1>3. IntentsInv'
  BY NamesAssumption DEF IInv, TypeOK, RequestsInv, IntentsInv, MoneyInv, Captured,
     WaiveAll, Incident, desk, snapshots, stripe, people
<1>4. MoneyInv'
  BY NamesAssumption DEF IInv, TypeOK, RequestsInv, IntentsInv, MoneyInv, Captured,
     WaiveAll, Incident, desk, snapshots, stripe, people
<1>5. PaidWasCaptured'
  BY NamesAssumption DEF IInv, TypeOK, RequestsInv, IntentsInv, MoneyInv, Captured,
     PaidWasCaptured, WaiveAll, Incident, desk, snapshots, stripe, people
<1>6. Accounted'
  BY NamesAssumption DEF IInv, TypeOK, RequestsInv, IntentsInv, MoneyInv, Captured,
     Accounted, PaidWasCaptured, WaiveAll, Incident, desk, snapshots, stripe, people
<1>7. OneCompleted'
  BY NamesAssumption DEF IInv, TypeOK, RequestsInv, IntentsInv, MoneyInv, Captured,
     OneCompleted, WaiveAll, Incident, desk, snapshots, stripe, people
<1> QED
  BY <1>1, <1>2, <1>3, <1>4, <1>5, <1>6, <1>7 DEF IInv

\* The initial states.
LEMMA InitKeeps == Init => IInv
<1> SUFFICES ASSUME Init PROVE IInv
  OBVIOUS
<1>1. TypeOK
  <2>1. deskPaid \in BOOLEAN
    BY DEF Init
  <2>2. incidents \in 0..MaxIncidents
    BY BoundsAssumption DEF Init
  <2>3. intent \in [Requests -> {"none", "open", "succeeded", "canceled"}]
    BY DEF Init
  <2> QED
    BY <2>1, <2>2, <2>3 DEF Init, TypeOK, Phases, SnapshotStatuses, RowStatuses
<1>2. RequestsInv /\ IntentsInv /\ MoneyInv
  BY DEF Init, RequestsInv, IntentsInv, MoneyInv, Captured
<1>3. PaidWasCaptured /\ Accounted /\ OneCompleted
  BY DEF Init, PaidWasCaptured, Accounted, OneCompleted, Captured
<1> QED
  BY <1>1, <1>2, <1>3 DEF IInv

\* A step in which nothing happens.
LEMMA StutterKeeps == IInv /\ UNCHANGED vars => IInv'
BY DEF IInv, TypeOK, RequestsInv, IntentsInv, MoneyInv, PaidWasCaptured, Accounted, OneCompleted,
       Captured, vars, desk, snapshots, stripe, people

\* A request uses the invoice of the booking.
LEMMA UseInvoiceKeeps ==
    ASSUME IInv, NEW k \in Requests, NEW i \in Requests,
           phase[k] \in {"charging", "drafting", "creating"},
           UseInvoice(k, i),
           UNCHANGED <<target, returned, people, deskPaid, due, refundSeen, job, marking>>
    PROVE  IInv'
<1>1. CASE intent[i] = "open" /\ Record(k, i, "pending", "pending") /\ UNCHANGED stripe
  BY <1>1, RecordKeeps
<1>2. CASE Captured(i) /\ Record(k, i, "paid", "succeeded") /\ UNCHANGED stripe
  BY <1>2, RecordKeeps
<1>3. CASE OwnInvoice(k, FALSE)
  BY <1>3, OwnInvoiceKeeps
<1> QED
  BY <1>1, <1>2, <1>3 DEF UseInvoice

\* The check that opens a request.
LEMMA CheckKeeps ==
    ASSUME IInv, NEW k \in Requests, Check(k)
    PROVE  IInv'
<1>1. CASE AlreadyPaid(k)
  BY <1>1, AlreadyPaidKeeps DEF Check
<1>2. CASE AutoSync(k)
  <2>1. PICK j \in Requests : /\ paidBy[j] # NoIntent
                              /\ Captured(paidBy[j])
                              /\ MarkSucceeded(paidBy[j])
    BY <1>2 DEF AutoSync
  <2>2. paidBy[j] \in Requests
    BY <2>1 DEF IInv, TypeOK
  <2> QED
    BY <1>2, <2>1, <2>2, MarkSucceededKeeps DEF AutoSync, Check
<1>3. CASE Reuse(k)
  BY <1>3, ReuseKeeps DEF Check
<1>4. CASE Proceed(k)
  BY <1>4, ProceedKeeps DEF Check
<1> QED
  BY <1>1, <1>2, <1>3, <1>4 DEF Check

\* The first look at the booking's invoice.
LEMMA StartInvoiceKeeps ==
    ASSUME IInv, NEW k \in Requests, StartInvoice(k)
    PROVE  IInv'
<1> USE DEF StartInvoice
<1>1. CASE Advance(k, "drafting") /\ UNCHANGED stripe
  BY <1>1, AdvanceKeeps
<1>2. CASE OwnInvoice(k, FALSE)
  BY <1>2, OwnInvoiceKeeps
<1>3. CASE invoice \in Requests /\ UseInvoice(k, invoice)
  BY <1>3, UseInvoiceKeeps
<1> QED
  BY <1>1, <1>2, <1>3

\* The second look.
LEMMA ReadInvoiceKeeps ==
    ASSUME IInv, NEW k \in Requests, ReadInvoice(k)
    PROVE  IInv'
<1> USE DEF ReadInvoice
<1>1. CASE Advance(k, "creating") /\ UNCHANGED stripe
  BY <1>1, AdvanceKeeps
<1>2. CASE OwnInvoice(k, FALSE)
  BY <1>2, OwnInvoiceKeeps
<1>3. CASE invoice \in Requests /\ UseInvoice(k, invoice)
  BY <1>3, UseInvoiceKeeps
<1>4. CASE invoice \in Requests /\ DropInvoice(k)
  BY <1>4, DropInvoiceKeeps
<1> QED
  BY <1>1, <1>2, <1>3, <1>4

\* Every step of a request.
LEMMA RequestKeeps ==
    ASSUME IInv, NEW k \in Requests, Request(k)
    PROVE  IInv'
<1>1. CASE CreateInvoice(k)
  BY <1>1, OwnInvoiceKeeps DEF CreateInvoice
<1> QED
  BY <1>1, CheckKeeps, ReplaceKeeps, StartInvoiceKeeps, ReadInvoiceKeeps DEF Request

\* Every webhook.
LEMMA WebhookKeeps ==
    ASSUME IInv, NEW i \in Requests, Webhook(i)
    PROVE  IInv'
BY OutOfOrderKeeps, WebhookSucceededKeeps, WebhookFailedKeeps, WebhookRefundedKeeps DEF Webhook

\* Every act of the staff that names an intent.
LEMMA StaffKeeps ==
    ASSUME IInv, NEW i \in Requests, Staff(i)
    PROVE  IInv'
<1>1. CASE Confirm(i)
  BY <1>1, MarkSucceededKeeps DEF Confirm
<1> QED
  BY <1>1, StaffRefundKeeps DEF Staff

\* Every act of the schedulers.
LEMMA SchedulersKeep ==
    ASSUME IInv, NEW i \in Requests, Schedulers(i)
    PROVE  IInv'
<1>1. CASE Reconcile(i)
  <2>1. paidBy[i] \in Requests
    BY <1>1 DEF Reconcile, IInv, TypeOK
  <2> QED
    BY <1>1, <2>1, MarkSucceededKeeps, MarkCancelledKeeps DEF Reconcile
<1> QED
  BY <1>1, AbandonedButPaidKeeps, AbandonKeeps DEF Schedulers

\* Every step.
LEMMA StepKeeps == IInv /\ [Next]_vars => IInv'
<1> SUFFICES ASSUME IInv, [Next]_vars PROVE IInv'
  OBVIOUS
<1>1. CASE \E k \in Requests : Request(k)
  BY <1>1, RequestKeeps
<1>2. CASE \E i \in Requests : Pay(i) \/ Decline(i) \/ Webhook(i)
  BY <1>2, PayKeeps, DeclineKeeps, WebhookKeeps
<1>3. CASE \E i \in Requests : RunRefund(i) \/ MarkRefunded(i)
  BY <1>3, RunRefundKeeps, MarkRefundedKeeps
<1>4. CASE \E i \in Requests : Staff(i) \/ Schedulers(i)
  BY <1>4, StaffKeeps, SchedulersKeep
<1>5. CASE ConfirmAll \/ WaiveAll
  BY <1>5, ConfirmAllKeeps, WaiveAllKeeps
<1>6. CASE UNCHANGED vars
  BY <1>6, StutterKeeps
<1> QED
  BY <1>1, <1>2, <1>3, <1>4, <1>5, <1>6 DEF Next

\* The inductive invariant holds in every reachable state.
THEOREM Inductive == Spec => []IInv
BY InitKeeps, StepKeeps, PTL DEF Spec

\* The requests, the snapshots, Stripe's intents and the participants keep
\* their types.
THEOREM TypeCorrect == Spec => []TypeOK
<1>1. IInv => TypeOK
  BY DEF IInv
<1> QED
  BY <1>1, Inductive, PTL

\* Nothing counts as paid by an intent Stripe has not captured.
THEOREM PaidIsCaptured == Spec => []PaidWasCaptured
<1>1. IInv => PaidWasCaptured
  BY DEF IInv
<1> QED
  BY <1>1, Inductive, PTL

\* Two payments whose webhooks and jobs are done have both completed their
\* snapshots unless one went back, and the unique index allows only one.
THEOREM NeverChargedTwice == Spec => []NoDoubleCharge
<1>1. IInv => NoDoubleCharge
  BY DEF IInv, NoDoubleCharge, Kept, Quiet, Accounted, OneCompleted
<1> QED
  BY <1>1, Inductive, PTL

-----------------------------------------------------------------------------
(* The requests implement FeeAccount. *)

\* The account starts empty.
LEMMA InitAccount == Init => Account!Init
BY DEF Init, Account!Init, SettledBy

\* A step that neither completes a snapshot nor takes a completed one away
\* leaves the account settled by what settled it.
LEMMA SettledBySame ==
    ASSUME UNCHANGED deskPaid,
           \A k \in Requests : snapshot'[k] = "completed" <=> snapshot[k] = "completed",
           \A k \in Requests : snapshot[k] = "completed" => paidBy'[k] = paidBy[k]
    PROVE  SettledBy' = SettledBy
<1>1. {j \in Requests : snapshot[j] = "completed"}' = {j \in Requests : snapshot[j] = "completed"}
  OBVIOUS
<1>2. {paidBy[k] : k \in {j \in Requests : snapshot[j] = "completed"}}'
      = {paidBy[k] : k \in {j \in Requests : snapshot[j] = "completed"}}
  BY <1>1
<1> QED
  BY <1>2 DEF SettledBy

\* The unique index: what completes a snapshot finds the account open.
LEMMA SettledByCompletes ==
    ASSUME NEW s \in Requests, TypeOK,
           ~CompletedBesides(s), snapshot[s] # "completed",
           SetSnapshots({s}, "completed"), UNCHANGED <<paidBy, deskPaid>>
    PROVE  SettledBy = {} /\ SettledBy' = {paidBy[s]}
<1>1. {j \in Requests : snapshot[j] = "completed"} = {}
  BY DEF CompletedBesides
<1>2. {j \in Requests : snapshot'[j] = "completed"} = {s}
  BY <1>1 DEF SetSnapshots
<1>3. ~deskPaid /\ ~deskPaid'
  BY DEF CompletedBesides
<1> QED
  BY <1>1, <1>2, <1>3 DEF SettledBy

\* Taking away a snapshot takes away its payment, if it had settled the account.
LEMMA SettledByLoses ==
    ASSUME NEW s \in Requests, IInv, NEW status \in {"deleted", "refunded"},
           SetSnapshots({s}, status), UNCHANGED <<paidBy, deskPaid>>
    PROVE  SettledBy' \in {SettledBy, SettledBy \ {paidBy[s]}}
<1>1. CASE snapshot[s] = "completed"
  <2>1. {j \in Requests : snapshot[j] = "completed"} = {s}
    BY <1>1 DEF IInv, OneCompleted
  <2>2. {j \in Requests : snapshot'[j] = "completed"} = {}
    BY <2>1 DEF SetSnapshots
  <2>3. paidBy[s] # NoIntent
    BY <1>1 DEF IInv, PaidWasCaptured
  <2>4. SettledBy' = SettledBy \ {paidBy[s]}
    BY <2>1, <2>2, <2>3 DEF SettledBy
  <2> QED
    BY <2>4
<1>2. CASE snapshot[s] # "completed"
  <2>1. SettledBy' = SettledBy
    BY <1>2, SettledBySame DEF SetSnapshots
  <2> QED
    BY <2>1
<1> QED
  BY <1>1, <1>2

\* A payment settles the account only if Stripe has captured it.
LEMMA SettledByCaptured ==
    ASSUME IInv, NEW i \in Requests, i \in SettledBy
    PROVE  Captured(i)
<1>1. PICK k \in Requests : snapshot[k] = "completed" /\ paidBy[k] = i
  BY NamesAssumption DEF SettledBy
<1> QED
  BY <1>1 DEF IInv, PaidWasCaptured

-----------------------------------------------------------------------------

\* The record of a captured payment settles the account, credits whom nobody has
\* paid for, or changes nothing.
LEMMA MarkSucceededSettles ==
    ASSUME IInv, NEW i \in Requests, Captured(i), MarkSucceeded(i)
    PROVE  [Account!Next]_(Account!vars)
<1>t. part \in [Participants -> {"pending", "paid", "waived", "refunded"}]
      /\ payer \in [Participants -> Requests \cup {NoIntent}]
  BY DEF IInv, TypeOK
<1>u. UNCHANGED <<intent, returned, paidBy, deskPaid>>
  BY DEF MarkSucceeded, stripe
<1>1. CASE Fallback(i)
  <2>1. SettledBy' = SettledBy
    BY <1>1, <1>u, SettledBySame DEF Fallback
  <2>2. CASE UNCHANGED people
    BY <1>u, <2>1, <2>2 DEF people, Account!vars
  <2>3. CASE PayFor({p \in Pending(Participants) : payer[p] = NoIntent}, i)
    <3> DEFINE P == {p \in Pending(Participants) : payer[p] = NoIntent}
    <3>1. P \in SUBSET Participants
      BY DEF Pending
    <3>2. Account!Credit(i, P)
      BY <1>t, <1>u, <2>1, <2>3 DEF PayFor, Pending, Captured, Account!Credit, Account!PayFor,
         Account!Captured, Account!Mark, Account!money
    <3> QED
      BY <3>1, <3>2 DEF Account!Next
  <2> QED
    BY <1>1, <2>2, <2>3 DEF Fallback
<1>2. ASSUME NEW s \in SnapshotsOf(i), Complete(i, s)
      PROVE  [Account!Next]_(Account!vars)
  <2>1. s \in Requests /\ paidBy[s] = i
    BY DEF SnapshotsOf
  <2>2. CASE snapshot[s] \in {"completed", "paid"}
    <3>1. UNCHANGED <<snapshot, people>>
      BY <1>2, <2>2 DEF Complete
    <3>2. SettledBy' = SettledBy
      BY <1>u, <3>1, SettledBySame
    <3> QED
      BY <1>u, <3>1, <3>2 DEF people, Account!vars
  <2>3. CASE snapshot[s] \notin {"completed", "paid"} /\ CompletedBesides(s)
    <3>1. SetSnapshots({s}, "superseded") /\ UNCHANGED people
      BY <1>2, <2>3 DEF Complete
    <3>2. SettledBy' = SettledBy
      BY <1>u, <2>1, <2>3, <3>1, SettledBySame DEF SetSnapshots
    <3> QED
      BY <1>u, <3>1, <3>2 DEF people, Account!vars
  <2>4. CASE snapshot[s] \notin {"completed", "paid"} /\ ~CompletedBesides(s)
    <3> DEFINE P == Pending(Covers[s])
    <3>1. SetSnapshots({s}, "completed") /\ PayFor(P, i)
      BY <1>2, <2>4 DEF Complete
    <3>2. SettledBy = {} /\ SettledBy' = {i}
      BY <1>u, <2>1, <2>4, <3>1, SettledByCompletes DEF IInv
    <3>3. P \in SUBSET Participants
      BY <2>1, CoversAssumption DEF Pending
    <3>4. Account!Settle(i, P)
      BY <1>t, <1>u, <3>1, <3>2, <3>3 DEF PayFor, Pending, Captured, Account!Settle, Account!PayFor,
         Account!Captured, Account!Mark, Account!money
    <3> QED
      BY <3>3, <3>4 DEF Account!Next
  <2> QED
    BY <2>2, <2>3, <2>4
<1> QED
  BY <1>1, <1>2 DEF MarkSucceeded

\* The record of a returned payment reverses what it has paid.
LEMMA MarkRefundedReverses ==
    ASSUME IInv, NEW i \in Requests, MarkRefunded(i)
    PROVE  [Account!Next]_(Account!vars)
<1>u. UNCHANGED <<intent, returned, paidBy, deskPaid>>
  BY DEF MarkRefunded, stripe
<1>1. CASE UNCHANGED <<snapshot, people>>
  <2>1. SettledBy' = SettledBy
    BY <1>u, <1>1, SettledBySame
  <2> QED
    BY <1>u, <1>1, <2>1 DEF people, Account!vars
<1>2. ASSUME NEW s \in SnapshotsOf(i), SetSnapshots({s}, "refunded"), Refund(Covers[s])
      PROVE  [Account!Next]_(Account!vars)
  <2>1. s \in Requests /\ paidBy[s] = i
    BY DEF SnapshotsOf
  <2>2. SettledBy' \in {SettledBy, SettledBy \ {i}}
    BY <1>u, <1>2, <2>1, SettledByLoses
  <2>3. returned[i] # "none"
    BY DEF IInv, MoneyInv, MarkRefunded
  <2>4. Account!Reverse(i, Covers[s])
    BY <1>u, <1>2, <2>2, <2>3 DEF Refund, Account!Reverse, Account!Mark, Account!money
  <2>5. Covers[s] \in SUBSET Participants
    BY <2>1, CoversAssumption
  <2> QED
    BY <2>4, <2>5 DEF Account!Next
<1> QED
  BY <1>1, <1>2 DEF MarkRefunded

\* A step that only moves a request along is not seen in the account.
LEMMA DeskOnly ==
    ASSUME UNCHANGED <<snapshots, stripe, returned, people, deskPaid>>
    PROVE  UNCHANGED Account!vars
<1>1. SettledBy' = SettledBy
  BY SettledBySame DEF snapshots
<1> QED
  BY <1>1 DEF stripe, people, Account!vars

\* The check that opens a request may record a captured payment.
LEMMA CheckOnAccount ==
    ASSUME IInv, NEW k \in Requests, Check(k)
    PROVE  [Account!Next]_(Account!vars)
<1>1. CASE AlreadyPaid(k) \/ Reuse(k) \/ Proceed(k)
  BY <1>1, DeskOnly DEF AlreadyPaid, Reuse, Proceed
<1>2. CASE AutoSync(k)
  <2>1. PICK j \in Requests : /\ paidBy[j] # NoIntent
                              /\ Captured(paidBy[j])
                              /\ MarkSucceeded(paidBy[j])
    BY <1>2 DEF AutoSync
  <2>2. paidBy[j] \in Requests
    BY <2>1 DEF IInv, TypeOK
  <2> QED
    BY <2>1, <2>2, MarkSucceededSettles
<1> QED
  BY <1>1, <1>2 DEF Check

\* A request that replaces a snapshot sets its payment aside, unless another
\* snapshot has meanwhile been settled by it.
LEMMA ReplaceSetsAside ==
    ASSUME IInv, NEW k \in Requests, Replace(k)
    PROVE  [Account!Next]_(Account!vars)
<1> DEFINE s == target[k]
           i == paidBy[s]
<1>t. intent \in [Requests -> {"none", "open", "succeeded", "canceled"}]
  BY DEF IInv, TypeOK
<1>1. s \in Requests /\ i \in Requests /\ intent[i] # "none"
  BY DEF IInv, TypeOK, RequestsInv, IntentsInv, Replace
<1>2. UNCHANGED <<paidBy, returned, people, deskPaid>> /\ SetSnapshots({s}, "deleted")
  BY DEF Replace
<1>3. SettledBy' \in {SettledBy, SettledBy \ {i}}
  BY <1>1, <1>2, SettledByLoses
<1>4. CASE Captured(i)
  <2>1. UNCHANGED intent
    BY <1>4 DEF Replace
  <2>2. SettledBy' = SettledBy \/ Account!SetAside(i)
    BY <1>2, <1>3, <2>1 DEF Account!SetAside, people
  <2> QED
    BY <1>1, <1>2, <2>1, <2>2 DEF Account!Next, Account!vars, people
<1>5. CASE ~Captured(i)
  <2>1. intent' \in {intent, [intent EXCEPT ![i] = "canceled"]}
    BY <1>5 DEF Replace
  <2>2. i \notin SettledBy
    BY <1>1, <1>5, SettledByCaptured
  <2>3. SettledBy' = SettledBy \ {i}
    BY <1>3, <2>2
  <2>4. CASE intent[i] = "open" /\ ~UNCHANGED intent
    <3>1. intent' = [j \in Requests |-> IF j \in {i} THEN "canceled" ELSE intent[j]]
      BY <1>t, <2>1, <2>4
    <3>2. Account!SetAside(i)
      BY <1>2, <2>3, <2>4, <3>1 DEF Account!SetAside, Account!Move, people
    <3> QED
      BY <1>1, <3>2 DEF Account!Next
  <2>5. CASE intent[i] = "canceled" \/ UNCHANGED intent
    <3>1. UNCHANGED intent
      BY <1>t, <2>1, <2>5
    <3>2. Account!SetAside(i)
      BY <1>2, <2>3, <3>1 DEF Account!SetAside, people
    <3> QED
      BY <1>1, <3>2 DEF Account!Next
  <2> QED
    BY <1>t, <1>1, <1>5, <2>4, <2>5 DEF Captured
<1> QED
  BY <1>4, <1>5

\* What a request records of its own is no completed snapshot, before or after.
LEMMA RecordOnAccount ==
    ASSUME IInv, NEW k \in Requests, phase[k] # "done", UNCHANGED deskPaid,
           NEW i \in Requests, NEW status \in {"pending", "paid"}, NEW rowStatus,
           Record(k, i, status, rowStatus) \/ UNCHANGED snapshots
    PROVE  SettledBy' = SettledBy
<1>1. snapshot[k] # "completed"
  BY DEF IInv, RequestsInv, PaidWasCaptured
<1>2. CASE Record(k, i, status, rowStatus)
  <2>1. \A j \in Requests : snapshot'[j] = "completed" <=> snapshot[j] = "completed"
    BY <1>1, <1>2 DEF Record, SetSnapshots
  <2>2. \A j \in Requests : snapshot[j] = "completed" => paidBy'[j] = paidBy[j]
    BY <1>1, <1>2 DEF Record, IInv, TypeOK
  <2> QED
    BY <2>1, <2>2, SettledBySame
<1>3. CASE UNCHANGED snapshots
  BY <1>3, SettledBySame DEF snapshots
<1> QED
  BY <1>2, <1>3

\* An invoice of its own opens a payment.
LEMMA OwnInvoiceOpens ==
    ASSUME IInv, NEW k \in Requests, NEW carries \in BOOLEAN, phase[k] # "done",
           OwnInvoice(k, carries), UNCHANGED <<returned, people, deskPaid>>
    PROVE  [Account!Next]_(Account!vars)
<1>1. intent[k] = "none" /\ intent \in [Requests -> {"none", "open", "succeeded", "canceled"}]
  BY DEF IInv, TypeOK, RequestsInv
<1>2. intent' = [j \in Requests |-> IF j \in {k} THEN "open" ELSE intent[j]]
  BY <1>1 DEF OwnInvoice
<1>3. SettledBy' = SettledBy
  BY RecordOnAccount DEF OwnInvoice, Interrupted, snapshots
<1>4. Account!Open(k)
  BY <1>1, <1>2, <1>3 DEF Account!Open, Account!Move, Account!account, people
<1> QED
  BY <1>4 DEF Account!Next

\* The booking's invoice is used as it is, or followed by one of the request's own.
LEMMA UseInvoiceOnAccount ==
    ASSUME IInv, NEW k \in Requests, NEW i \in Requests, phase[k] # "done",
           UseInvoice(k, i), UNCHANGED <<returned, people, deskPaid>>
    PROVE  [Account!Next]_(Account!vars)
<1>1. CASE \/ Record(k, i, "pending", "pending") /\ UNCHANGED stripe
           \/ Record(k, i, "paid", "succeeded") /\ UNCHANGED stripe
  <2>1. SettledBy' = SettledBy
    BY <1>1, RecordOnAccount
  <2> QED
    BY <1>1, <2>1 DEF stripe, people, Account!vars
<1>2. CASE OwnInvoice(k, FALSE)
  BY <1>2, OwnInvoiceOpens
<1> QED
  BY <1>1, <1>2 DEF UseInvoice

\* The invoice of the booking is given up.
LEMMA DropInvoiceClears ==
    ASSUME IInv, NEW k \in Requests, invoice \in Requests,
           DropInvoice(k), UNCHANGED <<returned, people, deskPaid>>
    PROVE  [Account!Next]_(Account!vars)
<1> DEFINE I == {j \in {invoice} : intent[j] = "open"}
<1>1. intent \in [Requests -> {"none", "open", "succeeded", "canceled"}]
      /\ returned \in [Requests -> {"none", "part", "all"}]
  BY DEF IInv, TypeOK
<1>2. intent' = [j \in Requests |-> IF j \in I THEN "canceled" ELSE intent[j]]
  BY <1>1 DEF DropInvoice
<1>3. returned' = [j \in Requests |-> IF j \in {} THEN "all" ELSE returned[j]]
  BY <1>1
<1>4. SettledBy' = SettledBy
  BY SettledBySame DEF DropInvoice, Advance, snapshots
<1>5. Account!Clear(I, {})
  BY <1>2, <1>3, <1>4 DEF Account!Clear, Account!Move, Account!GiveBack, Account!account, people
<1>6. I \in SUBSET Requests
  OBVIOUS
<1> QED
  BY <1>5, <1>6 DEF Account!Next

\* Every step of a request.
LEMMA RequestOnAccount ==
    ASSUME IInv, NEW k \in Requests, Request(k)
    PROVE  [Account!Next]_(Account!vars)
<1>1. CASE StartInvoice(k)
  <2>1. CASE Advance(k, "drafting") /\ UNCHANGED stripe
    BY <1>1, <2>1, DeskOnly DEF StartInvoice, Advance
  <2>2. CASE OwnInvoice(k, FALSE)
    BY <1>1, <2>2, OwnInvoiceOpens DEF StartInvoice
  <2>3. CASE invoice \in Requests /\ UseInvoice(k, invoice)
    BY <1>1, <2>3, UseInvoiceOnAccount DEF StartInvoice
  <2> QED
    BY <1>1, <2>1, <2>2, <2>3 DEF StartInvoice
<1>2. CASE ReadInvoice(k)
  <2>1. CASE Advance(k, "creating") /\ UNCHANGED stripe
    BY <1>2, <2>1, DeskOnly DEF ReadInvoice, Advance
  <2>2. CASE OwnInvoice(k, FALSE)
    BY <1>2, <2>2, OwnInvoiceOpens DEF ReadInvoice
  <2>3. CASE invoice \in Requests /\ UseInvoice(k, invoice)
    BY <1>2, <2>3, UseInvoiceOnAccount DEF ReadInvoice
  <2>4. CASE invoice \in Requests /\ DropInvoice(k)
    BY <1>2, <2>4, DropInvoiceClears DEF ReadInvoice
  <2> QED
    BY <1>2, <2>1, <2>2, <2>3, <2>4 DEF ReadInvoice
<1>3. CASE CreateInvoice(k)
  BY <1>3, OwnInvoiceOpens DEF CreateInvoice
<1> QED
  BY <1>1, <1>2, <1>3, CheckOnAccount, ReplaceSetsAside DEF Request

\* The customer pays.
LEMMA PayCaptures ==
    ASSUME IInv, NEW i \in Requests, Pay(i)
    PROVE  [Account!Next]_(Account!vars)
<1>1. intent' = [j \in Requests |-> IF j \in {i} THEN "succeeded" ELSE intent[j]]
  BY DEF IInv, TypeOK, Pay
<1>2. SettledBy' = SettledBy
  BY SettledBySame DEF Pay, snapshots
<1>3. Account!Capture(i)
  BY <1>1, <1>2 DEF Pay, Account!Capture, Account!Move, Account!account, people
<1> QED
  BY <1>3 DEF Account!Next

\* The webhook of a captured payment settles the account, or sends the money back.
LEMMA WebhookSucceededSettles ==
    ASSUME IInv, NEW i \in Requests, WebhookSucceeded(i)
    PROVE  [Account!Next]_(Account!vars)
<1>t. part \in [Participants -> {"pending", "paid", "waived", "refunded"}]
      /\ payer \in [Participants -> Requests \cup {NoIntent}]
  BY DEF IInv, TypeOK
<1>u. UNCHANGED <<intent, returned, paidBy, deskPaid>>
  BY DEF WebhookSucceeded, stripe
<1>1. CASE UNCHANGED <<snapshot, people>>
  <2>1. SettledBy' = SettledBy
    BY <1>u, <1>1, SettledBySame
  <2> QED
    BY <1>u, <1>1, <2>1 DEF people, Account!vars
<1>2. CASE Expected(i) /\ SettleByWebhook(i)
  <2>1. SettledBy = {} /\ SettledBy' = {i}
    BY <1>u, <1>2, SettledByCompletes DEF IInv, Expected, SettleByWebhook
  <2>2. Captured(i)
    BY DEF IInv, MoneyInv, WebhookSucceeded, Received
  <2>3. PayFor(Unpaid(i), i)
    BY <1>2 DEF SettleByWebhook
  <2>4. Unpaid(i) \in SUBSET Participants
    BY CoversAssumption DEF Unpaid
  <2>5. Account!Settle(i, Unpaid(i))
    BY <1>t, <1>u, <2>1, <2>2, <2>3, <2>4 DEF PayFor, Unpaid, Captured, Account!Settle,
       Account!PayFor, Account!Captured, Account!Mark, Account!money
  <2> QED
    BY <2>4, <2>5 DEF Account!Next
<1> QED
  BY <1>1, <1>2 DEF WebhookSucceeded, QueueRefund

\* The webhook of a decline fails pending snapshots only.
LEMMA WebhookFailedUnseen ==
    ASSUME IInv, NEW i \in Requests, WebhookFailed(i)
    PROVE  UNCHANGED Account!vars
<1>1. SettledBy' = SettledBy
  BY SettledBySame DEF WebhookFailed, SetSnapshots, PendingOf
<1> QED
  BY <1>1 DEF WebhookFailed, stripe, people, Account!vars

\* The webhook of a refund follows the money.
LEMMA WebhookRefundedReverses ==
    ASSUME IInv, NEW i \in Requests, NEW kind \in {"part", "all"}, WebhookRefunded(i, kind)
    PROVE  [Account!Next]_(Account!vars)
<1>1. SettledBy' = SettledBy
  BY SettledBySame DEF WebhookRefunded, snapshots
<1>2. CASE UNCHANGED people
  BY <1>1, <1>2 DEF WebhookRefunded, stripe, people, Account!vars
<1>3. CASE Refund(PaidFor(i))
  <2>1. returned[i] # "none"
    BY DEF IInv, MoneyInv, WebhookRefunded, Received
  <2>2. Account!Reverse(i, PaidFor(i))
    BY <1>1, <1>3, <2>1 DEF WebhookRefunded, Refund, stripe, Account!Reverse, Account!Mark,
       Account!money
  <2>3. PaidFor(i) \in SUBSET Participants
    BY DEF PaidFor
  <2> QED
    BY <2>2, <2>3 DEF Account!Next
<1> QED
  BY <1>2, <1>3 DEF WebhookRefunded

\* Every webhook.
LEMMA WebhookOnAccount ==
    ASSUME IInv, NEW i \in Requests, Webhook(i)
    PROVE  [Account!Next]_(Account!vars)
<1>1. CASE OutOfOrder(i)
  BY <1>1, DeskOnly DEF OutOfOrder
<1> QED
  BY <1>1, WebhookSucceededSettles, WebhookFailedUnseen, WebhookRefundedReverses DEF Webhook

-----------------------------------------------------------------------------

\* The refund job returns a captured payment, once.
LEMMA RunRefundReturns ==
    ASSUME IInv, NEW i \in Requests, RunRefund(i)
    PROVE  [Account!Next]_(Account!vars)
<1>1. SettledBy' = SettledBy
  BY SettledBySame DEF RunRefund, snapshots
<1>2. CASE returned[i] = "all"
  BY <1>1, <1>2 DEF RunRefund, stripe, people, Account!vars
<1>3. CASE returned[i] # "all"
  <2>1. job[i] \in {"part", "all"} /\ Captured(i)
    BY DEF IInv, TypeOK, MoneyInv, RunRefund
  <2>2. GiveBack({i}, job[i]) /\ UNCHANGED <<intent, people>>
    BY <1>3 DEF RunRefund, stripe
  <2>3. Account!Return(i, job[i])
    BY <1>1, <1>3, <2>1, <2>2 DEF GiveBack, Captured, Account!Return, Account!GiveBack,
       Account!Captured, Account!account, people
  <2> QED
    BY <2>1, <2>3 DEF Account!Next
<1> QED
  BY <1>2, <1>3

\* The staff return a payment to those whose shares it has paid.
LEMMA StaffRefundRefunds ==
    ASSUME IInv, NEW i \in Requests, NEW kind \in {"part", "all"}, StaffRefund(i, kind)
    PROVE  [Account!Next]_(Account!vars)
<1>1. SettledBy' = SettledBy
  BY SettledBySame DEF StaffRefund, snapshots
<1>2. Captured(i)
  BY DEF IInv, MoneyInv, StaffRefund
<1>3. Account!Refund(i, kind)
  BY <1>1, <1>2 DEF StaffRefund, GiveBack, Refund, Captured, stripe, Account!Refund,
     Account!GiveBack, Account!Captured, Account!Mark
<1> QED
  BY <1>3 DEF Account!Next

\* An old payment that was paid settles the account, and no share.
LEMMA AbandonedButPaidSettles ==
    ASSUME IInv, NEW i \in Requests, AbandonedButPaid(i)
    PROVE  [Account!Next]_(Account!vars)
<1>t. /\ part \in [Participants -> {"pending", "paid", "waived", "refunded"}]
      /\ payer \in [Participants -> Requests \cup {NoIntent}]
      /\ snapshot \in [Requests -> SnapshotStatuses]
  BY DEF IInv, TypeOK
<1>u. UNCHANGED <<intent, returned, paidBy, deskPaid, people>>
      /\ SetSnapshots(PendingOf(i), "completed") /\ Captured(i)
  BY DEF AbandonedButPaid, stripe
<1>1. CASE PendingOf(i) = {}
  <2>1. SettledBy' = SettledBy
    BY <1>u, <1>1, SettledBySame DEF SetSnapshots
  <2> QED
    BY <1>u, <2>1 DEF people, Account!vars
<1>2. ASSUME NEW k \in Requests, PendingOf(i) = {k}, ~CompletedBesides(k)
      PROVE  [Account!Next]_(Account!vars)
  <2>1. paidBy[k] = i /\ snapshot[k] # "completed"
    BY <1>2 DEF PendingOf, SnapshotsOf
  <2>2. SettledBy = {} /\ SettledBy' = {i}
    BY <1>u, <1>2, <2>1, SettledByCompletes DEF IInv
  <2>3. part' = [p \in Participants |-> IF p \in {} THEN "paid" ELSE part[p]]
        /\ payer' = [p \in Participants |-> IF p \in {} THEN i ELSE payer[p]]
    BY <1>t, <1>u DEF people
  <2>4. Account!Settle(i, {})
    BY <1>u, <2>2, <2>3 DEF Captured, Account!Settle, Account!PayFor, Account!Captured,
       Account!Mark, Account!money
  <2> QED
    BY <2>4 DEF Account!Next
<1> QED
  BY <1>1, <1>2 DEF AbandonedButPaid

\* Canceling an old payment voids what is open for the booking and returns what
\* it has paid; what settles the account stays.
LEMMA AbandonClears ==
    ASSUME IInv, NEW i \in Requests, Abandon(i)
    PROVE  [Account!Next]_(Account!vars)
<1> DEFINE I == {j \in Requests : intent[j] = "open"}
           now == {j \in ToGiveBack(i) : returned[j] # "all"}
<1>1. intent \in [Requests -> {"none", "open", "succeeded", "canceled"}]
  BY DEF IInv, TypeOK
<1>2. intent[i] \in {"open", "canceled"}
  BY <1>1 DEF IInv, IntentsInv, Abandon
<1>3. intent' = [j \in Requests |-> IF j \in I THEN "canceled" ELSE intent[j]]
  BY <1>2 DEF Abandon
<1>4. returned' = [j \in Requests |-> IF j \in now THEN "all" ELSE returned[j]]
  BY DEF Abandon, GiveBack
<1>5. SettledBy' = SettledBy
  BY SettledBySame DEF Abandon, SetSnapshots, PendingOf
<1>6. \A j \in now : Captured(j)
  BY DEF ToGiveBack
<1>7. Account!Clear(I, now)
  BY <1>3, <1>4, <1>5, <1>6 DEF Abandon, Captured, Account!Clear, Account!Move, Account!GiveBack,
     Account!Captured, Account!account, people
<1>8. I \in SUBSET Requests /\ now \in SUBSET Requests
  BY DEF ToGiveBack
<1> QED
  BY <1>7, <1>8 DEF Account!Next

\* The reconciliation cancels no snapshot that has settled the account.
LEMMA ReconcileOnAccount ==
    ASSUME IInv, NEW k \in Requests, Reconcile(k)
    PROVE  [Account!Next]_(Account!vars)
<1> DEFINE i == paidBy[k]
<1>1. i \in Requests
  BY DEF IInv, TypeOK, Reconcile
<1>2. CASE Captured(i) /\ MarkSucceeded(i)
  BY <1>1, <1>2, MarkSucceededSettles
<1>3. CASE intent[i] = "canceled" /\ MarkCancelled(i)
  <2>1. \A j \in SnapshotsOf(i) : snapshot[j] # "completed"
    BY <1>3 DEF IInv, PaidWasCaptured, Captured, SnapshotsOf
  <2>2. SettledBy' = SettledBy
    BY <1>3, <2>1, SettledBySame DEF MarkCancelled, SetSnapshots, SnapshotsOf
  <2> QED
    BY <1>3, <2>2 DEF MarkCancelled, stripe, people, Account!vars
<1> QED
  BY <1>2, <1>3 DEF Reconcile

\* confirm_all and waive_all settle by hand what is pending.
LEMMA ByHandOnAccount ==
    ASSUME IInv, ConfirmAll \/ WaiveAll
    PROVE  [Account!Next]_(Account!vars)
<1> DEFINE P == Pending(Participants)
<1>1. P \in SUBSET Participants /\ \A p \in P : part[p] = "pending"
  BY DEF Pending
<1>2. UNCHANGED <<intent, returned, payer, snapshots>>
  BY DEF ConfirmAll, WaiveAll, stripe, people
<1>3. CASE WaiveAll
  <2>1. SettledBy' = SettledBy
    BY <1>2, <1>3, SettledBySame DEF WaiveAll, snapshots
  <2>2. part' = [p \in Participants |-> IF p \in P THEN "waived" ELSE part[p]]
    BY <1>3 DEF WaiveAll, Pending
  <2>3. Account!ByHand(P, "waived")
    BY <1>1, <1>2, <2>1, <2>2 DEF Account!ByHand, Account!Mark, Account!money
  <2> QED
    BY <1>1, <2>3 DEF Account!Next
<1>4. CASE ConfirmAll
  <2>1. part' = [p \in Participants |-> IF p \in P THEN "paid" ELSE part[p]]
    BY <1>4 DEF ConfirmAll, Pending
  <2>2. CASE UNCHANGED deskPaid
    <3>1. SettledBy' = SettledBy
      BY <1>2, <2>2, SettledBySame DEF snapshots
    <3>2. Account!ByHand(P, "paid")
      BY <1>1, <1>2, <2>1, <3>1 DEF Account!ByHand, Account!Mark, Account!money
    <3> QED
      BY <1>1, <3>2 DEF Account!Next
  <2>3. CASE deskPaid' = TRUE /\ \A k \in Requests : snapshot[k] \notin {"completed", "paid"}
    <3>1. {j \in Requests : snapshot[j] = "completed"} = {}
      BY <2>3
    <3>2. SettledBy \subseteq {NoIntent} /\ SettledBy' = {NoIntent}
      BY <1>2, <2>3, <3>1 DEF SettledBy, snapshots
    <3>3. Account!ByHand(P, "paid")
      BY <1>1, <1>2, <2>1, <3>2 DEF Account!ByHand, Account!Mark, Account!money
    <3> QED
      BY <1>1, <3>3 DEF Account!Next
  <2> QED
    BY <1>4, <2>2, <2>3 DEF ConfirmAll
<1> QED
  BY <1>3, <1>4

\* Every step is a step of the account, or none.
LEMMA StepOnAccount == IInv /\ [Next]_vars => [Account!Next]_(Account!vars)
<1> SUFFICES ASSUME IInv, [Next]_vars PROVE [Account!Next]_(Account!vars)
  OBVIOUS
<1>1. CASE \E k \in Requests : Request(k)
  BY <1>1, RequestOnAccount
<1>2. ASSUME NEW i \in Requests, Pay(i) \/ Decline(i) \/ Webhook(i)
      PROVE  [Account!Next]_(Account!vars)
  <2>1. CASE Decline(i)
    BY <2>1, DeskOnly DEF Decline
  <2> QED
    BY <1>2, <2>1, PayCaptures, WebhookOnAccount
<1>3. CASE \E i \in Requests : RunRefund(i) \/ MarkRefunded(i)
  BY <1>3, RunRefundReturns, MarkRefundedReverses
<1>4. ASSUME NEW i \in Requests, Staff(i) \/ Schedulers(i)
      PROVE  [Account!Next]_(Account!vars)
  BY <1>4, MarkSucceededSettles, StaffRefundRefunds, ReconcileOnAccount,
     AbandonedButPaidSettles, AbandonClears DEF Staff, Confirm, Schedulers
<1>5. CASE ConfirmAll \/ WaiveAll
  BY <1>5, ByHandOnAccount
<1>6. CASE UNCHANGED vars
  BY <1>6, DeskOnly DEF vars
<1> QED
  BY <1>1, <1>2, <1>3, <1>4, <1>5, <1>6 DEF Next

\* Requests, webhooks, jobs, timers and the staff, each working from what it read
\* earlier, keep one account per booking: one captured payment settles it.
THEOREM OneAccount == Spec => ImplementsAccount
BY InitAccount, StepOnAccount, Inductive, PTL DEF Spec, ImplementsAccount, Account!Spec

=============================================================================
