# Ever Club: formal models of the server

TLA+ modules, TLC instances and TLAPS proofs for the members' club application in
this repository (`server/`, `shared/`, `drizzle/`). The modules are translated from
the server's code; file and line of every definition are in `PROJECT.json` under
`map`. Paths below are relative to the repository.

Contents: 1 inventory, 2 plan, 3 job queue, 4 booking requests, 5 Stripe webhooks,
6 HubSpot queue, 7 fees, 8 rosters, 9 runs and bounds, 10 proofs, 11 disagreements
found, 12 limits and what is not modelled.

## 1. Inventory

One Express process (or several) over one Postgres database. Everything that can
race does so through the database: request handlers, webhooks, timers. The
transactions run at READ COMMITTED; mutual exclusion is made of advisory locks,
unique indexes, one exclusion constraint, row locks taken by UPDATE, and guarded
UPDATEs (`WHERE status IN (...)`).

| Component | State | Operations | Interacts with | Hard behaviour | What makes it correct |
|---|---|---|---|---|---|
| Booking requests (`routes/bays`, `core/bookingService`, `core/resource`) | `booking_requests` (status, bay, hours, Trackman id), advisory locks | create (member, staff, three older routes), approve, decline, cancel (four ways), check in, revert, expire, complete, Trackman webhooks | sessions, fees, guest passes, Trackman, calendar | check-then-write in separate statements, several routes with different rules, cancellation in two phases through Trackman | no two vetted bookings overlap on a bay; a member is not in two places; one pending request per member; settled rows are not revived |
| Stripe webhooks (`core/stripe/webhooks`) | `webhook_processed_events`, `users.membership_status`, `users.stripe_subscription_id` | claim, order check, handlers, deferred actions, replay, cleanup | Stripe, members, billing groups, HubSpot | events duplicated, reordered, concurrent; rollback after partial work; rows removed after 7 days | an event is applied once; a 200 means settled; a late event does not undo a newer one |
| Job queue (`core/jobQueue.ts`) | `job_queue` | insert, claim, run, complete, fail, clean up | Stripe refunds and invoices, e-mail, HubSpot, notifications | overlapping polls, crash between claim and outcome, lost answers, expiring locks | failed only after its retries; nothing dropped unrun; everything settles |
| Guest passes (`routes/guestPasses.ts`, `core/billing/guestPass*`) | `guest_passes`, `guest_pass_holds`, `used_guest_pass` of a participant | take, return, hold, consume at check-in, monthly reset | rosters, booking creation, check-in, cancellation | taken and returned in other transactions than the rows they pay for | a pass in use is on a row or known to be lost; none comes back twice |
| Sessions and rosters (`sessionManager.ts`, `rosterService.ts`, `trackman/admin-roster.ts`, `staffCheckin.ts`) | `booking_sessions`, `booking_participants`, `roster_version`, `declared_player_count` | ensure session, add, remove, batch, set the count; staff pages that add and delete rows | bookings, guest passes, fees, Trackman | optimistic version beside a row lock, staff pages that use neither, reads before the lock | a versioned edit works on what its client saw; the roster fits the count; a member has one row |
| Fees, invoices, payment status (`core/billing`, `routes/stripe/booking-fees.ts`) | `booking_fee_snapshots`, `stripe_payment_intents`, `booking_participants.payment_status`, the booking's invoice | snapshot, charge, confirm, synchronise, refund, waive, reconcile, abandon | Stripe, sessions, job queue | late and repeated webhooks, desk and webhook settling one payment, two requests for one booking, refunds by a job | only captured money pays a fee; the club does not keep two payments of one fee; a captured payment is settled or goes back |
| Cancellation side effects (`bookingStateService.ts`) | payment intents (`succeeded`, `refunding`, ...), manifest in memory | build, execute | Stripe, queue, calendar | run after the commit, a crash loses the manifest | one refund per payment |
| Trackman import and webhooks | unmatched bookings, links | match, import, move, resolve | bookings, sessions | two sources write one row | a Trackman booking has one row |
| Closures and availability blocks | closures, blocks, cached closure list | create, cancel, generate blocks | bookings, calendar | cache read by approval | no booking approved inside a closure |
| HubSpot queue and sync (`core/hubspot`) | `hubspot_sync_queue`, the contact at HubSpot | enqueue, supersede, claim, push, retry, recover, re-queue dead rows, direct push | HubSpot, tier changes | two processes, rows superseded after the claim, stuck rows recovered under a slow worker, keys of dead rows | HubSpot follows the tier; nothing stale waits for a retry; every row closes |
| Members (sync, merge, grace period, tiers) | `users`, `user_linked_emails` | sync, merge, demote | MindBody, HubSpot, Stripe | long multi-table updates | nothing of a merged member is lost |
| Notifications, e-mail, WebSocket | subscriptions, sockets | send | all | none that is read back | - |
| Calendar, events, wellness, tours | their tables, Google Calendar ids | sync, register, waitlist | Google | limits counted without a lock that covers the count | capacity not exceeded (the code does not ensure it, section 11) |
| Schedulers | in-memory `isRunning`, slots claimed in the database | 25 timers | all | two processes, missed ticks | one run per slot |
| Client (`src/`) | caches | - | API | - | - |

`PROJECT.json` lists the same components with their status and, under `hazards`,
each behaviour of the code that is hard to test with the property that covers it
or the reason why none does.

## 2. Plan

Done, in the order of what matters most to the club's members: the job queue (small,
its refinement sets the style), the booking requests, the subscription webhooks, the
HubSpot queue, fee payments, rosters with their guest passes. Each has a module, an
instance, its mutants and its proofs. Five of them implement an abstract specification
that says in a page what their clients may count on, checked by TLC and proved:

| Abstract | Implemented by | What it promises |
|---|---|---|
| `AtLeastOnceDelivery` | `JobQueue` | an item is delivered until it succeeds or its budget is used up, and then settled for good |
| `ReservationDesk` | `BookingRequests` | one clerk checks the schedule and writes into it in one step |
| `EventInbox` | `StripeWebhooks` | an event is handled in one step, once while it is on record, and answered when it is settled |
| `FeeAccount` | `FeePayments` | one captured payment settles the fees; what is paid is paid once, until money goes back |
| `VersionedRoster` | `Rosters` | an edit compares the version and changes roster and version in one step |

The HubSpot queue has no such refinement, since a superseded row may have been delivered
and a dead one is queued again, so its promise is stated as properties.

What a further round would add, in this order:

1. Guest passes beyond the roster: consumption at check-in, holds and the monthly
   reset, once their statements agree with the schema (section 11).
2. The refund manifest of a cancellation and the refund claim
   `succeeded -> refunding`, composed with `FeePayments`.
3. Intervals: overlap over midnight, the slot grid and the allocation of minutes as
   functions against reference definitions.
4. Session creation, the Trackman webhooks that move a booking, deferred actions of
   the Stripe webhooks, registration limits of events and classes.

## 3. Job queue: `JobQueue`, `AtLeastOnceDelivery`

`JobQueue` keeps a row of `job_queue` as one function per column and a poll
(`processJobs`) as a batch and a phase per job. `claimJobs` is an UPDATE whose
sub-SELECT takes no locks, so it is two steps: `ClaimSelect` picks the ids in order of
priority, `ClaimUpdate` locks them, whoever has locked them meanwhile.
`HandlerReturns` and `HandlerThrows` end `executeJob`; a handler that returns may have
queued more jobs. `MarkJobCompleted` and `MarkJobFailed` write the outcome by id, the
latter from the `retry_count` that the claim returned. `queryWithRetry` (`core/db.ts`)
repeats an UPDATE whose answer was lost after it was applied: the `Faulty` actions and
`ClaimAnswerLost`. `Crash` ends a poll anywhere, `LockExpires`, `BackoffEnds` and
`RetentionEnds` are the passing of time, `CleanupOldJobs` deletes.

`AtLeastOnceDelivery` is what a client may count on: an item is submitted, delivered
any number of times, failed at most when its budget is used up, and once settled stays
so. `JobQueue` implements it with `standing`, `failures` and `delivered` read off the
row (`ImplementsDelivery`).

Fairness (`FairSpec`): the timer fires for ever, so a poll that can claim does; a
statement and a handler that were started end, by returning or by an error; time passes.
The code bounds neither (`db.ts` sets no statement timeout), so this is an assumption: the
statements are single transactions on one row, which wait for no lock that is kept, and a
process that hangs is one that is restarted (`Crash`). Nothing is assumed about
submissions, faults, or whether a handler succeeds.

## 4. Booking requests: `BookingRequests`

A booking id stands for one request whose member and hours are constants; status, bay
and Trackman link are its row. A handler that reads and writes in different statements
is a process (`pc`, `op`); a handler that is one guarded UPDATE is one action. Member
creation goes `lockBay`, `lockMember`, `checkBay`, `checkMember`, `commit`, the advisory
locks of `bookingCreationGuard.ts` held to the end of the transaction; approval takes a
row lock first and may move the request to another bay. `Admits` is the exclusion
constraint of `drizzle/0031`: it covers three statuses only, so the rest of the
schedule is guarded by the locks alone. `Abort` stands for every other reason a
transaction has to fail, and for a crash. `Unlink` and `DeclineRelinked` are a Trackman id
given to another booking: the row that had it loses it, and is declined when it has not
ended and belongs to the same member. The row is looked up a statement earlier
(`manualBooking.ts:67`, `approvalService.ts:134`), which is one step with its UPDATE here.

Histories: `vetted` are rows in the schedule since a conflict check made under the
bay's lock, `solo` the member-made ones among the active, `asked` the pending bay
requests. The properties are about these because the older routes and Trackman's own
bookings put rows into the schedule with no check at all; `NoDoubleBooking`, which makes no
such difference, fails (section 11).

`ReservationDesk` is the schedule with one clerk: `Ask` (a member's request, free of clashes
with the bay, the member's other bookings and the member's waiting request), `Assign` (staff
and approvals, which look at the bay only), `Leave`. `BookingRequests` implements it
(`ImplementsDesk`) with the place of a booking read off `vetted` and `bay`: the commit of a
handler is the clerk's step, although its checks were made statements earlier, and every
other action of every route is a `Leave` or nothing.

## 5. Stripe webhooks: `StripeWebhooks`

A worker is one transaction of `processStripeWebhook` or `replayStripeEvent`: `Begin`,
`Claim` (the INSERT with ON CONFLICT DO NOTHING, which waits for an uncommitted claim of
the same event and then sees it or takes its place), `CheckOrder`, `ReadMember` (the
handler's SELECT), and `Commit`, `Swallow` or `Fail`. `Commit` applies
`NewMembership` and `NewSubscription` to the row as it is then: the code decides in SQL
on the current row, and in JavaScript only on whether there was a row and whether it
was trialing, which is `seen`. `Answer` gives or loses the 200. `Swallow` is a query error that a
handler catches: Postgres turns the COMMIT into a rollback.

Stripe redelivers while an event is neither acknowledged nor three days old. `Cleanup`
removes rows seven days after their claim; no transaction runs that long and Stripe
has given up by then, so it closes these events and those emitted before them.
`DeletionAssumption` is Stripe's own order: nothing is emitted about a subscription
after its deletion. An administrator may replay anything at any time, with or without
a claim.

`disordered` marks the subscriptions for which the order check cannot be expected to
work: two different events in flight at once, a forced replay of an event without a
row, or a replay after the event was closed. `DeletionIsFinal` is stated for the others
(`NoGhostReactivation` shows that the exemption is needed); every other property
holds without it.

`EventInbox` is the endpoint with one step per event: `Handle` records and applies it, `Force`
applies it by hand, `Reject` turns it away for another event of its subject that is on record,
`Undo` is the loss that section 11 describes, `AnswerAgain` answers a duplicate, `Forget` is
the cleanup. Applying (`Apply`, `Turn`) is what the inbox is about: nothing but a deletion is
applied to a deleted subject whose events came one at a time, and a subject is opened and
closed by its own events only. `ImplementsInbox` says that `Commit` is such a step although
the claim, the order check and the member were read before. It contains
`AcknowledgedIsSettled`, which is still a part of `IInv`.

## 6. HubSpot queue: `HubSpotQueue`

A row of `hubspot_sync_queue` is one function per column; `contact` is what HubSpot
shows. Every committed change of `users.tier` gets a version that exists only in the
model: the code compares nothing of the kind, and the properties ask whether it should.
A tier change (`change`) goes one of three ways: `queueTierSync` (`Supersede`, then
`EnqueueChange`), an integrity fix (`EnqueueChange` alone), or the admin route that
pushes at once (`DirectClear`, `DirectWrite`, `DirectSucceeds`, `DirectFails`). A worker
(`processHubSpotQueue`) recovers stuck rows and claims a batch with FOR UPDATE SKIP
LOCKED (`Claim`, one step), then executes the rows it read (`PushClear`, `PushWrite`, and
the outcome), each outcome guarded by `AND status = 'processing'`. `RequeueDead`,
`RequeueRefused` and `CloseDead` are the re-queueing at startup.

HubSpot has an option for some tiers only (`Listed`; `denormalizeTierForHubSpotAsync` knows
none for Staff or an unknown name). For any other `syncTierToHubSpot` returns without a
request: the worker goes on as after an answer (`PushSkips`) and marks the row completed,
the admin route is done (`DirectSkips`) and supersedes no older row. So
`CompletedReachedHubSpot` is about rows of listed tiers, and HubSpot keeps the old tier of a
member who moves to another one.

HubSpot follows the tier only as long as no mishap strikes the member; `disturbed` records
which did: an enqueue that a live or dead row's key refused (`InsertMishap`,
`BlockingMishap`), a direct push beside open rows (`Bypassed`), a row pushed after it was
superseded (`Overtaken`), a change lost between two statements. `HubSpotFollowsTier` says
that the list is complete: of a member whom none of these has struck, whose tier HubSpot has
an option for, and of whom nothing is on its way, HubSpot shows the tier, whatever tiers
the member had in between, unless the last row ended dead.

Fairness (`FairSpec`): the 30-second timer of every process keeps polling, requests and
statements that were started end, time passes. Tier changes, restarts, faults and
HubSpot's answers are free. The documents say every 2 minutes and 20 rows; the code
says 30 seconds and 50.

## 7. Fees: `FeePayments`

The fees of one booking at the desk. A request `k` of POST
`/api/stripe/create-payment-intent` makes at most one snapshot and one invoice with its
intent, both called `k`; amounts are reduced to whom the request covers (`Covers`).
`snapshot` and `paidBy` are `booking_fee_snapshots`; `intent`, `tagged` (the intent
carries its `feeSnapshotId`) and `returned` are Stripe's; `invoice` is
`booking_requests.stripe_invoice_id`; `row` is `stripe_payment_intents`; `part` and `payer`
are the participants; `deskPaid` is the snapshot that `confirm_all` completes; `due` are
webhooks Stripe has yet to deliver, in any order; `job` and `marking` are the automatic
refund, run by the job queue.

`Check` is everything a request does up to its first write (the paid answer, auto-sync,
reuse of a pending intent), `Replace`, `StartInvoice`, `DropInvoice`, `ReadInvoice` and
`CreateInvoice` the rest, one action per transaction or Stripe call. `WebhookSucceeded`,
`WebhookFailed` and `WebhookRefunded` are the handlers of `payments.ts`; `Confirm`,
`Reconcile`, `AbandonedButPaid`, `Abandon`, `StaffRefund`, `ConfirmAll` and `WaiveAll` are
the staff and the timers. `MaxIncidents` counts declines, interrupted requests, failed
refund records, staff refunds, confirmations, waivers and abandoned intents.

Abstractions: a payment covers or does not, nondeterministically, what has become due;
several awaits of `Replace`, `Abandon` and `OwnInvoice` are one step; the query for the newest
pending snapshot picks any pending one. The code inserts the snapshot before it makes the
invoice; here it appears when the intent is recorded (`Record`). Until then it names no
intent, so no webhook, confirmation or timer finds it, and another request that does goes
on as if there were none.

`Replace` deletes the old snapshot whatever became of its intent: captured meanwhile,
canceled, or, when the cancellation is refused or fails, still open at Stripe.

`FeeAccount` is the money of one booking without snapshots, rows, webhooks or jobs: payments
are opened, captured, canceled and returned, and the account is settled by a captured
payment, when nothing else settles it (`Settle`), or `ByHand`. A share that is paid or
waived is never charged to another payment. Only a payment that has gone back
(`Reverse`), or that a later request sets aside (`SetAside`), opens the account again; the
second is how the code loses a payment captured while its snapshot was being replaced.
`ImplementsAccount` maps the account to the intent of the completed snapshot (`SettledBy`) and
says that requests, webhooks, jobs, timers and staff, each working from what it read
earlier, do nothing else. `Settle` asks for a captured payment, not for one that is
still there: a payment returned in full keeps its status at Stripe, and may settle.

Fairness: Stripe repeats a webhook until it is answered, jobs are retried, the
reconciliation timer fires every 15 minutes. Nothing is assumed about customers, staff or
requests. `CapturedSettles` counts a payment whose snapshot is
marked failed as settled: declined first and captured after another payment had settled
the session, it is refused by the unique index for ever.

## 8. Rosters: `Rosters`

The roster of one booking beside its owner, and the passes that pay for guests. `op`,
`who` and `roster` are the rows of `booking_participants` (a request adds at most one, which
bears its name), `withPass` those with `used_guest_pass`; `used` is
`guest_passes.passes_used`; `version`, `declared`, `session` and `lock` are the row of
`booking_requests`; `carrying` are passes taken for a row not yet inserted, or owed after a
commit.

rosterService: `View` and `SeeRows` (what the client was shown), `OpenAdd`, `OpenRemove`,
`OpenBatch` (what is read before the transaction), `Lock` (SELECT ... FOR UPDATE, the
version, the count, the checks), `TakePass` (`useGuestPass`, a transaction of its own inside the
other), `CommitMember`, `CommitGuest`, `CommitRemove`, `CommitBatch`, and `RefundPass` after the
commit. `SetCount` is `updateDeclaredPlayerCount`, without version. The staff pages are
`DeskGuest`, `DeskMember`, `DeskClear`, `DeskInsert`, `DeskDrop`, `DropRepay`, `DropDelete`:
statement by statement, without lock or version. `Fail` is any refusal or failed
statement, `Restart` the death of the process.

The refunds are decided on reads made before the lock (`flagged`), so removals that carry
no version return a pass twice; `twice` and `lost` keep the account, and the properties
say that nothing else unbalances it (`PassesAccounted`), that two requests which send the
version are safe (`RefundedOnce`), and that the version means what a client takes it to mean
(`SeesTheRoster`). A booking without a session makes an edit wait for itself (`hung`):
`ensureSessionForBooking` updates, on another connection, the row the edit has locked.
Only a restart frees it, and `EditsEnd` excepts it.

`VersionedRoster` is the roster without locks, reads or passes: `Show`, and edits of one step
(`Add`, `Remove`, `Touch`) that compare the version shown, find room under the largest count
the booking has had, give a member one place, and let a member take the place of one guest;
`Strike` is the staff pages deleting rows, and rows they insert are not part of it.
`ImplementsEditing` says that the commits of rosterService are such steps (`Players` is the
mapping), whatever count, flag or guest was read before them.

A pass whose COMMIT loses its answer is taken, but `useGuestPass` reports a failure
(`guestPasses.ts:323`): an edit of rosterService ends there, while the staff page inserts the
guest without the pass (`DeskInsert`), and the pass is among `lost`.

Steps taken together: the version check and the participants read under the lock; a
staff page's first look at `used_guest_pass` and the second one inside the refund; the read
of the replaced guest's `used_guest_pass` (`rosterService.ts:1198`) and its deletion (`:1216`),
between which a staff page may return that pass, with the outcome of `CommitMember` first
and the staff page second.

Fairness: every started request goes on, since queries return and locks are granted.

## 9. Runs and bounds

| Run | Instance | Shows |
|---|---|---|
| `job_queue` | 2 jobs with 2 and 1 attempts, 2 polls, 1 fault | invariants, refinement, every queued job settles |
| `booking_creation` | 2 overlapping requests of one member, bay, room or none, 2 handlers | locks make the checks hold until the commit: the handlers are one clerk (`ImplementsDesk`); `IInv` |
| `booking_lifecycle` | 2 bookings of one slot; approval against every cancellation and unguarded late write | a slot is reused only once its booking has left (`NoVettedDoubleBooking`); approval acts on requests only |
| `stripe_webhooks` | 6 events of 2 subscriptions, 2 workers, 3 transactions, 1 replay | one step per event (`ImplementsInbox`), applied once, deletions final, the latest subscription kept; `IInv` |
| `hubspot_queue` | 1 member, 3 tiers of which HubSpot has 2, 2 workers, 2 changes, 2 rows, 1 fault | honest outcomes, nothing stale, HubSpot follows the tier; `FullInv` |
| `hubspot_queue_live` | 1 change, 2 workers, 2 rows, 2 faults, 2 attempts | every row closes, and none is dead early |
| `fee_payments` | 2 requests, the first covering both participants, the second one; 3 incidents | all who touch the money keep one account (`ImplementsAccount`), no double charge, captured payments settle; `IInv` |
| `rosters` | 3 requests, 1 person and pending guests, counts 1 and 3, 2 passes | passes accounted for, versions mean what clients think, each edit is one step (`ImplementsEditing`), edits end; `IInv` |
| `booking_unlocked_creation`, `stripe_ghost_reactivation`, `stripe_swallowed_rollback`, `fee_settled_refunded` | smallest that fails | section 11 |

The passing instances have between 0.2 and 3.5 million distinct states. Why these bounds
are enough to be of interest: every race in this code is between two actors about one row
or one slot, and one fault between two statements; two processes and two rows contain
each of them. The webhooks get a third transaction so that an event can follow two
concurrent ones, the rosters a third request so that two edits can meet on a row the
third one made. Larger instances passed by hand: the HubSpot queue with two attempts (9.3
million states) and, without the liveness property, fee payments with three requests and
one incident (2.4 million). What
a bound cuts off is named in the module (`MaxFaults`, `MaxRows`, `MaxChanges`,
`MaxTransactions`, `MaxReplays`, `MaxIncidents`); the proofs hold for every value.

`CHECK_DEADLOCK FALSE` is used where the system may stop: all jobs or rows closed, all
deliveries used up, all requests made. The booking runs check for deadlock; since every
transaction may abort, that says only that no handler is stuck without a way out.

Every property has a mutant in `PROJECT.json`: a definition with a plausible bug under
which TLC finds the property violated. The mutated forms stand beside the definitions
(`...Unguarded`, `...OffByOne`, ...).

## 10. Proofs

TLAPS checks, for all values of the constants:

- `JobQueueProofs`: type correctness, `FailedOnlyWhenExhausted`, `NothingDroppedUnrun`,
  `SettledForGood`, and the refinement of `AtLeastOnceDelivery`. The invariant needs
  two facts the properties do not mention: the count a poll has claimed never exceeds
  the stored one (so a verdict on a stale count is late, never early), and
  `processed_at` is written only after a handler returned.
- `BookingRequestsProofs`: type correctness, `NoVettedDoubleBooking`, `NoMemberClash`,
  `OneRequestPerMember`, `ApprovalFromRequest`, for any number of bays, members, bookings
  and handlers. `IInv` says for each handler where it stands, which locks it holds
  (`HoldsBayLock`, `HoldsMemberLock`) and what its checks have found
  (`BayStillFree`, `MemberStillFree`, `StillNothingAsked`). A step that adds to the
  schedule holds the same lock as any handler whose check it could spoil, so the
  check is still true at its commit; every other step only removes from the
  schedule. An insertion meets no other handler on its id (`InsertsFreshRow`).
  `OneClerk` proves `ImplementsDesk` from it: the four commits are the clerk's steps
  (`CommitsAtDesk`), and all else removes (`OnlyLeaves`). `ScheduleInOrder` is then about
  the desk alone, and says what `vetted`, `solo` and `asked` have to do with one another
  although each is written by statements of its own.
- `StripeWebhooksProofs`: type correctness, `AppliedOnce`, `AcknowledgedIsSettled`,
  `LatestIsKept`, `SubscribedNotCancelled`, `DeletionIsFinal`. `ClaimsInv` makes committed
  and uncommitted claims of an event exclude each other. For an orderly subscription,
  `OrderInv` says that running transactions are about one event, begun after every
  other row. `DeletionInv` then says that an applied deletion is either the last row, so
  that nothing else passes the check (`Blocked`), or was removed with everything
  older, long after Stripe gave up (`Over`). Without `Over` the invariant breaks at the
  first cleanup. `OneStepPerEvent` proves `ImplementsInbox`: a claim held means that the event
  is not on record yet (`CommitHandles`), and `OrderInv` and `DeletionInv` carry the order check
  and the member that was read up to the commit (`CommitApplies`, `CommitTurns`).
- `HubSpotQueueProofs`: type correctness, `Bookkeeping`, `CompletedReachedHubSpot`,
  `DeadOnlyWhenExhausted`, `NoStaleRetry`, `ClosedForGood`, for any number of members,
  tiers, workers, rows and faults. `Bookkeeping` is what makes the others inductive: a
  worker reports only rows it pushed or had nothing to push for, a claimed count never
  exceeds the failures, and of an
  undisturbed member only the newest row is open.
- `HubSpotTierProofs`: `HubSpotFollowsTier`. Its invariant, `TierInv`, says where the newest
  version of an undisturbed member's listed tier is (`Followed`): with the request that made it
  (`WithItsRequest`), in the member's last row (`InLastRow`), or at HubSpot (`AtHubSpot`). It
  needs that a version has one tier and one owner (`RowVersions`, `ChangeVersions`), that a
  worker with HubSpot's answer left the contact as it wrote it (`AnswerStands`), and that the rows
  about to be superseded do not include the last one (`ClosingNotLast`). `FullInv` is both
  invariants; each action has a lemma, most of them by what the action leaves alone
  (`Untouched`, `KeepsFollowing`, `KeepsAnswer`).
- `FeePaymentsProofs`: type correctness, `PaidWasCaptured`, `NoDoubleCharge`. The invariant
  ties each request's stage to its snapshot and intent (`RequestsInv`, `IntentsInv`), says
  where every captured intent's money is (`MoneyInv`, `Accounted`: settled, going back, or
  still announced by a webhook), and that the unique index leaves one completed snapshot
  (`OneCompleted`); two payments kept at rest would be two completed snapshots. `OneAccount`
  proves `ImplementsAccount`: three lemmas say what a step does to `SettledBy`
  (`SettledBySame`, `SettledByCompletes`, `SettledByLoses`), and one per operation names
  its step of the account. `MoneyInv` and `PaidWasCaptured` give the captured payment that
  each of those steps asks for.
- `RostersProofs`: type correctness, `PassesAccounted`, `RefundedOnce`, `SeesTheRoster`,
  `RosterFits`, `MemberOnce`, for any finite set of requests and any counts and passes.
  `LockInv` makes the requests between lock and commit exclude one another; `ViewInv` says
  that while nobody bumps the version the rows are those the client saw, up to the staff
  pages' (a client that reads the rows late has an old version, which is refused);
  `RemovalInv` that a removal whose version still holds has read the flag that is there now;
  `AdmittedInv` that the count and the absence of the member survive until the commit;
  `PlaceInv` that whose place a member takes is a guest's. A
  few lemmas count what moves (`PassMoved`, `PassReturned`, `PassesLost`, `RowAdded`,
  `RowsGone`), and each action is one of these. `EditsAreOneStep` proves `ImplementsEditing`:
  one lemma for each commit, three for the steps clients cannot see (`OpensUnseen`,
  `StagesUnseen`, `DeskInsertUnseen`).

Assumptions are the ASSUMEs of the modules: types of the constants, `BatchSize > 0`,
start before end, bays distinct from NULL, names distinct from one another, finitely
many requests of a roster, and Stripe's order of a deletion. TLC evaluates them in every run.

Model-checked only: liveness (`EventuallySettles`, `EventuallyCloses`, `CapturedSettles`,
`EditsEnd`), which rests on fairness and ENABLED. Every invariant and action property of the
passing runs is proved. The properties of the violation runs are false, so there is nothing to
prove.

## 11. Where code and documents disagree

Each of these is a run that TLC ends with a counterexample; quotations are in `findings`.

- `POST /api/bookings` checks and inserts without lock or constraint
  (`booking_unlocked_creation`).
- The order check reads committed rows only: a creation and a deletion handled at
  once reactivate a cancelled member (`stripe_ghost_reactivation`).
- A query error caught inside a webhook handler loses the event with a 200
  (`stripe_swallowed_rollback`).
- A payment confirmed at the desk before its webhook arrives is refunded by that webhook
  (`fee_settled_refunded`).

Seen while reading, not run. Skills are `.agents/skills/<name>/SKILL.md`.

Job queue and bookings:
- `claimJobs` (`jobQueue.ts:129`) has no FOR UPDATE SKIP LOCKED, against
  scheduler-jobs:106: two polls take one row. `markJobFailed` never writes `processed_at`,
  so the cleanup leaves failed jobs for ever; a handler that kills its process is never
  counted as an attempt.
- Staff cancellation takes a confirmed booking in Trackman straight to cancelled
  (`bookingStateService.ts:153`, booking-flow:177); the Trackman match approves by id a
  request it read earlier, declined or not (`webhook-helper.ts:640`, booking-flow:69).
- The older approval route (`core/resource/service.ts:277`) revives cancelled bookings
  although `approvalService.ts:1677` allows no way out of `cancelled`, and looks for conflicts
  in three statuses only (`service.ts:258`).
- `shared/models/system.ts:76` lacks the `resource_id` column that `framework.ts:34`
  writes; several UPDATEs set `booking_fee_snapshots.updated_at`, which the schema lacks
  (`cancellation.ts:452`, `bookingExpiryScheduler.ts:126`, `approvalService.ts:188`).

Stripe and HubSpot:
- A newer `updated` after `paused` or `resumed` is dropped as out of order
  (`framework.ts:104`); a trial that ends leaves the status paused (`subscriptions.ts:317`);
  past_due of an old subscription changes the member (`:982`); the deletion of an old
  subscription deactivates the billing group (`:1586`).
- A stale sync supersedes a newer row (`queueHelpers.ts:42`, hubspot-sync:85). The recovery
  ignores `max_retries`; a push that clears `lifecyclestage` and then fails leaves it blank;
  the startup re-queue closes the dead row even when nothing was queued.
- A change to a tier without a HubSpot option is reported as synced: the row is marked
  completed (`members.ts:288`, `queue.ts:136`) and HubSpot keeps the old tier.

Payments and cancellations:
- `markPaymentRefunded` marks every participant of the snapshot
  (`PaymentStatusService.ts:254`), against booking-import-standards:73; a refunded payment can
  settle fees again; a partial automatic refund is recorded as full; the cleanup of one
  abandoned intent refunds the booking's other paid invoice; a late confirmation re-marks a
  refunded row as succeeded.
- The refund claim of a cancellation (`succeeded -> refunding`) is undone by the
  webhook's upsert, and `bookings.ts:1422` leaves it behind after a failed refund
  (docs/CHANGELOG.md:105). The manifest lives in memory: a crash after the commit loses it.

Rosters and passes:
- No client sends `rosterVersion` (`RosterManager.tsx:207`, `GuestPaymentChoiceModal.tsx:77`),
  so the optimistic locking of booking-import-standards:81 is never used and overlapping
  removals refund twice.
- The invoice check of a roster edit precedes its lock (`rosterService.ts:888`), against
  "locked after payment" (booking-import-standards:88): a payment in between is not seen.
- `src/data/changelog.ts:1748` announces deadlock prevention; `rosterService.ts:925` waits for
  itself. The unique index on `booking_participants (session_id, user_id)` that
  `changelog.ts:2156` and `drizzle/0038` rely on exists nowhere. The batch route's schema
  (`shared/validators/roster.ts:18`) leaves no operation that `applyRosterBatch` knows.
- Reading the passes resets `passes_total` to the tier's allotment
  (`guestPasses.ts:94`), and purchased passes vanish; two overlapping check-ins of one guest
  take two passes (`guestPassConsumer.ts:50`) although guest-pass-system calls it idempotent;
  the hold's ON CONFLICT (`guestPassHoldService.ts:78`) names no unique index; the monthly
  reset sets an `updated_at` that `guest_passes` lacks (`guestPassResetScheduler.ts:58`);
  cancelling with staff rights returns no pass; `convertHoldToUsage`, `deductGuestPasses` and
  `cleanupExpiredHolds` are never called.

Registrations: `events.ts:995` counts RSVPs without a lock, and `wellness.ts` counts in
the statement that waits for the lock, so from a snapshot older than it; both overbook when
requests overlap, against docs/CHANGELOG.md:379.

## 12. Limits

Not modelled of the modelled parts. Bookings: webhooks that move a booking to other hours
or another bay, hard deletion, bookings over midnight, overlap checks of other
participants, non-numeric Trackman ids. Webhooks: invoice, checkout and customer events,
tiers, discounts, groups, deferred actions, members billed elsewhere. HubSpot: contact and
company operations, inbound sync, days other than one UTC day. Fees: how they are
computed, balances, card readers, the members' own payment routes. Rosters: the linking of
a member to an empty owner or member slot, guest_count, the clean-up of orphaned rows,
the owner's other bookings, the monthly reset of passes; the invoice, which may refuse any
edit (`Fail`). Jobs: payloads and the work of each type.

Time is reduced to what the WHERE clauses compare. The fault model is the loss of a
process, of an answer, or of a statement; Postgres itself is assumed to keep what it
committed.

Liveness of the Stripe webhooks is not stated: an event ends when Stripe gives up after
three days, which is a bound of Stripe's and not a promise of this code. The components of
section 1 without a module, and why, are in `PROJECT.json`.
