---------------------------- MODULE HubSpotQueue ----------------------------
(***************************************************************************)
(* The outbound HubSpot queue (server/core/hubspot/queue.ts) and everyone  *)
(* who moves a member's tier to HubSpot: queueTierSync, the integrity      *)
(* fixes, the admin route that pushes directly, and the re-queueing of     *)
(* dead rows at startup.                                                   *)
(*                                                                         *)
(* Every committed change of users.tier gets a version number; a queue row *)
(* carries the version it was made for, and contact[m].ver is the version  *)
(* HubSpot shows.  The version exists only in the model: the code compares *)
(* nothing of the kind, and the properties ask whether it needed to.       *)
(*                                                                         *)
(* All rows are sync_tier rows of members with a HubSpot id, queued on one *)
(* UTC day (the day is part of the idempotency key).  HubSpot has an       *)
(* option for the tiers in Listed only: syncTierToHubSpot answers for any  *)
(* other tier without sending anything.  The settings that name the        *)
(* options do not change.                                                  *)
(***************************************************************************)
EXTENDS Naturals, FiniteSets

CONSTANTS
    Members,     \* the members whose tier is synchronised
    Tiers,       \* membership tiers, the cleared one among them
    Listed,      \* tiers syncTierToHubSpot has a HubSpot value for
    Workers,     \* server processes running hubspotQueueScheduler
    Changers,    \* requests and webhooks that change a tier
    TierRetries, \* max_retries of a tier sync
    FixRetries,  \* max_retries of an integrity fix
    MaxRows,     \* bound: rows ever inserted
    MaxChanges,  \* bound: tier changes per member
    MaxFaults    \* bound: crashes, lost answers, refused statements, stalls

ASSUME SetsAssumption == Members # {} /\ Listed # {} /\ Listed \subseteq Tiers
ASSUME RetriesAssumption == TierRetries \in Nat \ {0} /\ FixRetries \in Nat \ {0}
ASSUME BoundsAssumption == MaxRows \in Nat /\ MaxChanges \in Nat /\ MaxFaults \in Nat

VARIABLES
    tier,        \* users.tier
    latest,      \* the version of users.tier
    contact,     \* the member's HubSpot contact
    last,        \* rows 1..last of hubspot_sync_queue exist
    status,      \* the status column
    job,         \* what a row is about: payload and idempotency key
    retryCount,  \* the retry_count column
    due,         \* next_retry_at <= NOW()
    old,         \* updated_at < NOW() - 10 minutes
    change,      \* where a tier change stands
    step,        \* where a worker stands
    claimed,     \* rows of a worker's batch it has not finished
    now,         \* the row a worker is executing, 0 for none
    snap,        \* the retry_count the claim returned
    closing,     \* dead rows re-queued and not yet marked superseded
    landed,      \* history: rows whose update reached HubSpot
    failures,    \* history: failed or timed-out attempts of a row
    refused,     \* history: rows that met an unrecoverable error
    disturbed,   \* history: the members struck by one of the mishaps named below
    faults       \* faults so far

table == <<last, status, job, retryCount, due, old>>
worker == <<step, claimed, now, snap>>
history == <<landed, failures, refused>>
vars == <<tier, latest, contact, table, change, worker, closing, history, disturbed, faults>>

Rows == 1..MaxRows
Statuses == {"absent", "pending", "processing", "completed", "failed", "dead", "superseded"}
Kinds == {"tier", "fix", "requeue"}
Job == [member : Members, tier : Tiers, ver : Nat, kind : Kinds, origin : Nat]
Stages == {"idle", "direct", "cleared", "supersede", "enqueue", "fix"}
Change == [at : Stages, member : Members, tier : Tiers, ver : Nat, seen : Nat]
Steps == {"idle", "polling", "working", "cleared", "answered", "threw", "refused"}

TypeOK ==
    /\ tier \in [Members -> Tiers]
    /\ latest \in [Members -> Nat]
    /\ contact \in [Members -> [ver : Nat, tier : Tiers, blank : BOOLEAN]]
    /\ last \in 0..MaxRows
    /\ status \in [Rows -> Statuses]
    /\ job \in [Rows -> Job]
    /\ retryCount \in [Rows -> Nat]
    /\ due \in [Rows -> BOOLEAN]
    /\ old \in [Rows -> BOOLEAN]
    /\ change \in [Changers -> Change]
    /\ step \in [Workers -> Steps]
    /\ claimed \in [Workers -> SUBSET Rows]
    /\ now \in [Workers -> 0..MaxRows]
    /\ snap \in [Workers -> [Rows -> Nat]]
    /\ closing \in SUBSET Rows
    /\ landed \in SUBSET Rows
    /\ failures \in [Rows -> Nat]
    /\ refused \in SUBSET Rows
    /\ disturbed \in [Members -> BOOLEAN]
    /\ faults \in 0..MaxFaults

SomeMember == CHOOSE m \in Members : TRUE
SomeTier == CHOOSE t \in Listed : TRUE

NoChange == [at |-> "idle", member |-> SomeMember, tier |-> SomeTier, ver |-> 0, seen |-> 0]

Init ==
    /\ tier = [m \in Members |-> SomeTier]
    /\ latest = [m \in Members |-> 0]
    /\ contact = [m \in Members |-> [ver |-> 0, tier |-> SomeTier, blank |-> FALSE]]
    /\ last = 0
    /\ status = [r \in Rows |-> "absent"]
    /\ job = [r \in Rows |-> [member |-> SomeMember, tier |-> SomeTier,
                              ver |-> 0, kind |-> "tier", origin |-> 0]]
    /\ retryCount = [r \in Rows |-> 0]
    /\ due = [r \in Rows |-> FALSE]
    /\ old = [r \in Rows |-> FALSE]
    /\ change = [c \in Changers |-> NoChange]
    /\ step = [w \in Workers |-> "idle"]
    /\ claimed = [w \in Workers |-> {}]
    /\ now = [w \in Workers |-> 0]
    /\ snap = [w \in Workers |-> [r \in Rows |-> 0]]
    /\ closing = {}
    /\ landed = {}
    /\ failures = [r \in Rows |-> 0]
    /\ refused = {}
    /\ disturbed = [m \in Members |-> FALSE]
    /\ faults = 0

-----------------------------------------------------------------------------
Open(r) == status[r] \in {"pending", "processing", "failed"}

OpenRows(m) == {r \in Rows : Open(r) /\ job[r].member = m}

\* Two jobs with the same idempotency key.
SameKey(j, k) ==
    /\ j.kind = k.kind
    /\ j.member = k.member
    /\ j.origin = k.origin
    /\ j.kind # "fix" => j.tier = k.tier

MaxRetriesOf(r) == IF job[r].kind = "fix" THEN FixRetries ELSE TierRetries

Fault ==
    /\ faults < MaxFaults
    /\ faults' = faults + 1

\* A mishap is named where it can happen: InsertMishap, BlockingMishap,
\* Bypassed, Overtaken, and a change that was lost.
Record(m, mishap) == disturbed' = [disturbed EXCEPT ![m] = @ \/ mishap]

-----------------------------------------------------------------------------
(* enqueueHubSpotSync.  The SELECT looks for an open row with the key, the *)
(* INSERT gives way to the partial unique index, which also covers dead    *)
(* rows; each decides like the two together, at the instant it decides.    *)

Holders(j) ==
    {r \in Rows : status[r] \notin {"absent", "completed", "superseded"} /\ SameKey(job[r], j)}

InsertRow(j) ==
    /\ last < MaxRows
    /\ last' = last + 1
    /\ status' = [status EXCEPT ![last + 1] = "pending"]
    /\ job' = [job EXCEPT ![last + 1] = j]
    /\ UNCHANGED <<retryCount, due, old>>

\* The job joins an open row of the member that its supersede step, if it had
\* one, could not see, or it comes after a newer version.
InsertMishap(j, seen) ==
    \/ \E r \in OpenRows(j.member) : r > seen
    \/ contact[j.member].ver > j.ver
    \/ \E r \in 1..last : job[r].member = j.member /\ job[r].ver > j.ver

\* The row that keeps the job out is dead, carries another tier, or carries
\* the same tier from before a version in between.
BlockingMishap(j) ==
    \E r \in Holders(j) :
        status[r] = "dead" \/ job[r].tier # j.tier \/ job[r].ver + 1 < j.ver

Enqueue(j, seen) ==
    IF Holders(j) = {}
    THEN InsertRow(j) /\ Record(j.member, InsertMishap(j, seen))
    ELSE UNCHANGED table /\ Record(j.member, BlockingMishap(j))

-----------------------------------------------------------------------------
(* Changing a tier.  The change of users.tier commits, then the request or *)
(* the deferred action of the webhook sees to HubSpot.                     *)

At(c, stage) == change[c].at = stage
Goto(c, stage) == change' = [change EXCEPT ![c].at = stage]
Finish(c) == change' = [change EXCEPT ![c] = NoChange]

\* queueTierSync starts at "supersede", the admin route at "direct",
\* queueIntegrityFixSync at "fix".
CommitTier(c, m, t, first) ==
    /\ At(c, "idle")
    /\ latest[m] < MaxChanges
    /\ first \in {"supersede", "direct", "fix"}
    /\ tier' = [tier EXCEPT ![m] = t]
    /\ latest' = [latest EXCEPT ![m] = @ + 1]
    /\ change' = [change EXCEPT ![c] =
                     [at |-> first, member |-> m, tier |-> t, ver |-> latest[m] + 1, seen |-> 0]]
    /\ UNCHANGED <<contact, table, worker, closing, history, disturbed, faults>>

\* syncTierToHubSpot is two requests: lifecyclestage is cleared (a failure is
\* only logged), then all properties are written.
Clear(m) == contact' = [contact EXCEPT ![m].blank = TRUE]
Write(m, v, t) == contact' = [contact EXCEPT ![m] = [ver |-> v, tier |-> t, blank |-> FALSE]]

\* It answers without a request, and so without an error that would queue the
\* change: no row of an older version is superseded either.
DirectSkips(c) ==
    /\ At(c, "direct")
    /\ change[c].tier \notin Listed
    /\ Finish(c)
    /\ UNCHANGED <<tier, latest, contact, table, worker, closing, history, disturbed, faults>>

DirectClear(c) ==
    LET m == change[c].member IN
    /\ At(c, "direct")
    /\ change[c].tier \in Listed
    /\ Goto(c, "cleared")
    /\ Clear(m) \/ UNCHANGED contact
    /\ UNCHANGED <<tier, latest, table, worker, closing, history, disturbed, faults>>

\* The write goes past an open row of an older version, which stays open.
Bypassed(c) == \E r \in OpenRows(change[c].member) : job[r].ver < change[c].ver

DirectWrite(c) ==
    LET m == change[c].member IN
    /\ Write(m, change[c].ver, change[c].tier)
    /\ Record(m, contact[m].ver > change[c].ver \/ Bypassed(c))

DirectSucceeds(c) ==
    /\ At(c, "cleared")
    /\ DirectWrite(c)
    /\ Finish(c)
    /\ UNCHANGED <<tier, latest, table, worker, closing, history, faults>>

\* The write failed, or its answer did.
DirectFails(c) ==
    /\ At(c, "cleared")
    /\ DirectWrite(c) \/ UNCHANGED <<contact, disturbed>>
    /\ Goto(c, "supersede")
    /\ UNCHANGED <<tier, latest, table, worker, closing, history, faults>>

\* Mutant: the statement leaves rows in 'processing' alone.
SupersedableIdle(m) == {r \in OpenRows(m) : status[r] # "processing"}

Supersedable(m) == OpenRows(m)

Supersede(c) ==
    LET m == change[c].member IN
    /\ At(c, "supersede")
    /\ change' = [change EXCEPT ![c].at = "enqueue", ![c].seen = last]
    /\ status' = [r \in Rows |-> IF r \in Supersedable(m) THEN "superseded" ELSE status[r]]
    /\ UNCHANGED <<tier, latest, contact, last, job, retryCount, due, old, worker, closing,
                   history, disturbed, faults>>

JobOf(c, kind) ==
    [member |-> change[c].member, tier |-> change[c].tier, ver |-> change[c].ver,
     kind |-> kind, origin |-> 0]

EnqueueChange(c) ==
    /\ \/ At(c, "enqueue") /\ Enqueue(JobOf(c, "tier"), change[c].seen)
       \/ At(c, "fix") /\ Enqueue(JobOf(c, "fix"), 0)
    /\ Finish(c)
    /\ UNCHANGED <<tier, latest, contact, worker, closing, history, faults>>

\* The process dies, or a statement fails for good: the supersede's error is
\* logged by the caller, enqueueHubSpotSync swallows its own and returns null.
ChangeAbandoned(c) ==
    /\ Fault
    /\ ~At(c, "idle")
    /\ Finish(c)
    /\ Record(change[c].member, TRUE)
    /\ UNCHANGED <<tier, latest, contact, table, worker, closing, history>>

-----------------------------------------------------------------------------
(* Startup re-queues dead rows whose option HubSpot did not know.          *)

CopyOf(r) == [job[r] EXCEPT !.kind = "requeue", !.origin = r]

RequeueDead(r) ==
    LET m == job[r].member
        j == CopyOf(r)
    IN  /\ status[r] = "dead"
        /\ r \notin refused \cup closing
        /\ closing' = closing \cup {r}
        /\ IF Holders(j) = {}
           THEN /\ InsertRow(j)
                /\ Record(m, InsertMishap(j, 0))
           ELSE UNCHANGED <<table, disturbed>>
        /\ UNCHANGED <<tier, latest, contact, change, worker, history, faults>>

\* enqueueHubSpotSync answered null: the dead row is closed all the same.
RequeueRefused(r) ==
    /\ Fault
    /\ status[r] = "dead"
    /\ r \notin refused \cup closing
    /\ closing' = closing \cup {r}
    /\ Record(job[r].member, TRUE)
    /\ UNCHANGED <<tier, latest, contact, table, change, worker, history>>

\* UPDATE ... WHERE id: whatever the row's status is by now.
CloseDead(r) ==
    /\ r \in closing
    /\ closing' = closing \ {r}
    /\ status' = [status EXCEPT ![r] = "superseded"]
    /\ UNCHANGED <<tier, latest, contact, last, job, retryCount, due, old, change, worker,
                   history, disturbed, faults>>

RequeueInterrupted(r) ==
    /\ Fault
    /\ r \in closing
    /\ closing' = closing \ {r}
    /\ UNCHANGED <<tier, latest, contact, table, change, worker, history, disturbed>>

-----------------------------------------------------------------------------
(* The worker: processQueue, one at a time in each server process.         *)

Enter(w, s) == step' = [step EXCEPT ![w] = s]

Claimable ==
    {r \in Rows : status[r] = "pending" \/ (status[r] = "failed" /\ due[r])}

\* Mutant: nothing is ever recovered.
StuckNever == {}

Stuck == {r \in Rows : status[r] = "processing" /\ old[r]}

\* recoverStuckProcessingJobs increments without looking at max_retries.  A
\* poll that would find nothing at all is not a step.
Recover(w) ==
    /\ step[w] = "idle"
    /\ Stuck \cup Claimable # {}
    /\ Enter(w, "polling")
    /\ status' = [r \in Rows |-> IF r \in Stuck THEN "failed" ELSE status[r]]
    /\ retryCount' = [r \in Rows |-> IF r \in Stuck THEN retryCount[r] + 1 ELSE retryCount[r]]
    /\ failures' = [r \in Rows |-> IF r \in Stuck THEN failures[r] + 1 ELSE failures[r]]
    /\ due' = [r \in Rows |-> r \notin Stuck /\ due[r]]
    /\ old' = [r \in Rows |-> r \notin Stuck /\ old[r]]
    /\ UNCHANGED <<tier, latest, contact, last, job, change, claimed, now, snap, closing,
                   landed, refused, disturbed, faults>>

ClaimRows ==
    /\ status' = [r \in Rows |-> IF r \in Claimable THEN "processing" ELSE status[r]]
    /\ old' = [r \in Rows |-> r \notin Claimable /\ old[r]]
    /\ UNCHANGED <<last, job, retryCount, due>>

\* Mutant: the claim counts its own attempt already.
ClaimCountsAhead(w) ==
    /\ step[w] = "polling"
    /\ ClaimRows
    /\ claimed' = [claimed EXCEPT ![w] = Claimable]
    /\ snap' = [snap EXCEPT ![w] = [r \in Rows |->
                   IF r \in Claimable THEN retryCount[r] + 1 ELSE 0]]
    /\ Enter(w, IF Claimable = {} THEN "idle" ELSE "working")
    /\ UNCHANGED <<tier, latest, contact, change, now, closing, history, disturbed, faults>>

\* The batch of fifty is never full here; an empty one ends the poll.
Claim(w) ==
    /\ step[w] = "polling"
    /\ ClaimRows
    /\ claimed' = [claimed EXCEPT ![w] = Claimable]
    /\ snap' = [snap EXCEPT ![w] = [r \in Rows |->
                   IF r \in Claimable THEN retryCount[r] ELSE 0]]
    /\ Enter(w, IF Claimable = {} THEN "idle" ELSE "working")
    /\ UNCHANGED <<tier, latest, contact, change, now, closing, history, disturbed, faults>>

\* The UPDATE commits, its answer is lost and queryWithRetry claims again: the
\* rows of the first claim stay in 'processing' with nobody to run them.
ClaimAnswerLost(w) ==
    /\ Fault
    /\ step[w] = "polling"
    /\ ClaimRows
    /\ UNCHANGED <<tier, latest, contact, change, worker, closing, history, disturbed>>

\* A request for a version HubSpot has gone past, or has already and not
\* through this worker alone.
Overtaken(w, r) ==
    LET shown == contact[job[r].member].ver IN
    \/ shown > job[r].ver
    \/ /\ shown = job[r].ver
       /\ status[r] # "processing" \/ \E v \in Workers \ {w} : r \in claimed[v]

\* The batch is executed in the order RETURNING happens to give, and no row
\* is read again before its turn.
PushSkips(w, r) ==
    /\ step[w] = "working"
    /\ r \in claimed[w]
    /\ job[r].tier \notin Listed
    /\ now' = [now EXCEPT ![w] = r]
    /\ Enter(w, "answered")
    /\ UNCHANGED <<tier, latest, contact, table, change, claimed, snap, closing, history,
                   disturbed, faults>>

PushClear(w, r) ==
    LET m == job[r].member IN
    /\ step[w] = "working"
    /\ r \in claimed[w]
    /\ job[r].tier \in Listed
    /\ now' = [now EXCEPT ![w] = r]
    /\ Enter(w, "cleared")
    /\ Clear(m) \/ UNCHANGED contact
    /\ Record(m, Overtaken(w, r))
    /\ UNCHANGED <<tier, latest, table, change, claimed, snap, closing, history, faults>>

PushWrite(w) ==
    LET r == now[w] IN
    /\ Write(job[r].member, job[r].ver, job[r].tier)
    /\ Record(job[r].member, Overtaken(w, r))
    /\ landed' = landed \cup {r}

PushSucceeds(w) ==
    /\ step[w] = "cleared"
    /\ PushWrite(w)
    /\ Enter(w, "answered")
    /\ UNCHANGED <<tier, latest, table, change, claimed, now, snap, closing, failures,
                   refused, faults>>

\* Mutant: syncTierToHubSpot logs the error of the write and does not rethrow.
PushFailsSwallowed(w) ==
    /\ step[w] = "cleared"
    /\ PushWrite(w) \/ UNCHANGED <<contact, disturbed, landed>>
    /\ Enter(w, "answered")
    /\ UNCHANGED <<tier, latest, table, change, claimed, now, snap, closing, failures,
                   refused, faults>>

PushFails(w) ==
    /\ step[w] = "cleared"
    /\ PushWrite(w) \/ UNCHANGED <<contact, disturbed, landed>>
    /\ Enter(w, "threw")
    /\ UNCHANGED <<tier, latest, table, change, claimed, now, snap, closing, failures,
                   refused, faults>>

\* 401, 403 or MISSING_SCOPES.
PushRefused(w) ==
    /\ step[w] = "cleared"
    /\ Enter(w, "refused")
    /\ refused' = refused \cup {now[w]}
    /\ UNCHANGED <<tier, latest, contact, table, change, claimed, now, snap, closing, landed,
                   failures, disturbed, faults>>

NextJob(w) ==
    LET rest == claimed[w] \ {now[w]} IN
    /\ claimed' = [claimed EXCEPT ![w] = rest]
    /\ now' = [now EXCEPT ![w] = 0]
    /\ snap' = [snap EXCEPT ![w][now[w]] = 0]
    /\ Enter(w, IF rest = {} THEN "idle" ELSE "working")

\* Mutant: an update by id alone, which the partial unique index refuses when
\* another row has taken the key.
SetStatusUnguarded(r, s) ==
    IF s = "completed" \/ Holders(job[r]) \subseteq {r}
    THEN status' = [status EXCEPT ![r] = s] /\ old' = [old EXCEPT ![r] = FALSE]
    ELSE UNCHANGED <<status, old>>

\* Every terminal update carries AND status = 'processing'.
SetStatus(r, s) ==
    /\ status' = [status EXCEPT ![r] = IF @ = "processing" THEN s ELSE @]
    /\ old' = [old EXCEPT ![r] = status[r] # "processing" /\ @]

MarkCompleted(w) ==
    /\ step[w] = "answered"
    /\ SetStatus(now[w], "completed")
    /\ NextJob(w)
    /\ UNCHANGED <<tier, latest, contact, last, job, retryCount, due, change, closing,
                   history, disturbed, faults>>

\* The completion cannot be written and the catch block takes the job for a
\* failed one.
MarkCompletedFails(w) ==
    /\ Fault
    /\ step[w] = "answered"
    /\ Enter(w, "threw")
    /\ UNCHANGED <<tier, latest, contact, table, change, claimed, now, snap, closing, history,
                   disturbed>>

\* Mutant: an error no retry can cure ends the job as if it were done.
MarkRefusedDone(w) ==
    /\ step[w] = "refused"
    /\ SetStatus(now[w], "completed")
    /\ NextJob(w)
    /\ UNCHANGED <<tier, latest, contact, last, job, retryCount, due, change, closing,
                   history, disturbed, faults>>

MarkRefused(w) ==
    /\ step[w] = "refused"
    /\ SetStatus(now[w], "dead")
    /\ NextJob(w)
    /\ UNCHANGED <<tier, latest, contact, last, job, retryCount, due, change, closing,
                   history, disturbed, faults>>

\* Mutant: the limit is off by one.
MayRetryOffByOne(r, count) == count + 1 < MaxRetriesOf(r)

MayRetry(r, count) == count < MaxRetriesOf(r)

\* The new count comes from the claim, not from the row.
MarkFailed(w) ==
    LET r == now[w]
        count == snap[w][r] + 1
    IN  /\ step[w] = "threw"
        /\ IF MayRetry(r, count)
           THEN /\ SetStatus(r, "failed")
                /\ retryCount' = [retryCount EXCEPT ![r] =
                                     IF status[r] = "processing" THEN count ELSE @]
                /\ due' = [due EXCEPT ![r] = status[r] # "processing" /\ @]
           ELSE SetStatus(r, "dead") /\ UNCHANGED <<retryCount, due>>
        /\ failures' = [failures EXCEPT ![r] = @ + 1]
        /\ NextJob(w)
        /\ UNCHANGED <<tier, latest, contact, last, job, change, closing, landed, refused,
                       disturbed, faults>>

\* The process dies, or a statement of the catch block fails for good and
\* processHubSpotQueue throws: the rest of the batch stays in 'processing'.
BatchAbandoned(w) ==
    /\ Fault
    /\ step[w] # "idle"
    /\ Enter(w, "idle")
    /\ claimed' = [claimed EXCEPT ![w] = {}]
    /\ now' = [now EXCEPT ![w] = 0]
    /\ snap' = [snap EXCEPT ![w] = [r \in Rows |-> 0]]
    /\ UNCHANGED <<tier, latest, contact, table, change, closing, history, disturbed>>

-----------------------------------------------------------------------------
(* Time.                                                                   *)

RetryDue(r) ==
    /\ status[r] = "failed"
    /\ ~due[r]
    /\ due' = [due EXCEPT ![r] = TRUE]
    /\ UNCHANGED <<tier, latest, contact, last, status, job, retryCount, old, change, worker,
                   closing, history, disturbed, faults>>

Held(r) == \E w \in Workers : r \in claimed[w]

\* Ten minutes pass over a row nobody works on any more ...
GrowsOld(r) ==
    /\ status[r] = "processing"
    /\ ~old[r]
    /\ ~Held(r)
    /\ old' = [old EXCEPT ![r] = TRUE]
    /\ UNCHANGED <<tier, latest, contact, last, status, job, retryCount, due, change, worker,
                   closing, history, disturbed, faults>>

\* ... or over one whose worker is slow.
Stalls(r) ==
    /\ Fault
    /\ status[r] = "processing"
    /\ ~old[r]
    /\ Held(r)
    /\ old' = [old EXCEPT ![r] = TRUE]
    /\ UNCHANGED <<tier, latest, contact, last, status, job, retryCount, due, change, worker,
                   closing, history, disturbed>>

-----------------------------------------------------------------------------
ChangeStep(c) ==
    \/ DirectSkips(c)
    \/ DirectClear(c)
    \/ DirectSucceeds(c)
    \/ DirectFails(c)
    \/ Supersede(c)
    \/ EnqueueChange(c)
    \/ ChangeAbandoned(c)

WorkerStep(w) ==
    \/ Recover(w)
    \/ Claim(w)
    \/ ClaimAnswerLost(w)
    \/ \E r \in Rows : PushSkips(w, r)
    \/ \E r \in Rows : PushClear(w, r)
    \/ PushSucceeds(w)
    \/ PushFails(w)
    \/ PushRefused(w)
    \/ MarkCompleted(w)
    \/ MarkCompletedFails(w)
    \/ MarkRefused(w)
    \/ MarkFailed(w)
    \/ BatchAbandoned(w)

RowStep(r) ==
    \/ RequeueDead(r)
    \/ RequeueRefused(r)
    \/ CloseDead(r)
    \/ RequeueInterrupted(r)
    \/ RetryDue(r)
    \/ GrowsOld(r)
    \/ Stalls(r)

Next ==
    \/ \E c \in Changers, m \in Members, t \in Tiers, first \in Stages :
          CommitTier(c, m, t, first)
    \/ \E c \in Changers : ChangeStep(c)
    \/ \E w \in Workers : WorkerStep(w)
    \/ \E r \in Rows : RowStep(r)

\* The interval timer keeps polling, started requests and statements end, and
\* time passes.  Tier changes, restarts, faults and HubSpot's answers are free.
Fairness ==
    /\ \A w \in Workers :
          /\ WF_vars(Recover(w))
          /\ WF_vars(Claim(w))
          /\ WF_vars(\E r \in Rows : PushSkips(w, r) \/ PushClear(w, r))
          /\ WF_vars(PushSucceeds(w) \/ PushFails(w) \/ PushRefused(w))
          /\ WF_vars(MarkCompleted(w) \/ MarkRefused(w) \/ MarkFailed(w))
    /\ \A r \in Rows : WF_vars(RetryDue(r)) /\ WF_vars(GrowsOld(r))

Spec == Init /\ [][Next]_vars
FairSpec == Spec /\ Fairness

-----------------------------------------------------------------------------
(* Properties.                                                             *)

\* A row whose tier has a HubSpot option is marked completed only when its
\* update reached HubSpot, although the worker that marks it may have lost the
\* row to the recovery and to another worker long before.  (A row of any other
\* tier is completed without a request.)
ListedRow(r) == job[r].tier \in Listed

CompletedReachedHubSpot ==
    \A r \in Rows : status[r] = "completed" /\ ListedRow(r) => r \in landed

\* A row is declared dead only after max_retries failed or timed-out attempts,
\* or after an error no retry can cure: the verdict is taken on a claimed
\* count, and a late worker writes an outdated count over a newer one.
DeadOnlyWhenExhausted ==
    \A r \in Rows : status[r] = "dead" => r \in refused \/ failures[r] >= MaxRetriesOf(r)

\* No stale work waits in the queue: unless one of the recorded mishaps struck
\* the member, a row that may still be claimed or retried is not older than
\* what HubSpot shows, so a retry never puts an old tier back.
NoStaleRetry ==
    \A r \in Rows :
        Open(r) /\ ~disturbed[job[r].member] => job[r].ver >= contact[job[r].member].ver

\* The inductive invariant behind these.  A worker has claimed a count the
\* number of failures has not fallen below, and marks a row completed only when
\* it has pushed it or HubSpot has no option for its tier; an undisturbed
\* member's rows carry rising versions and only the newest is open; what a
\* supersede step has closed stays closed until the insert.
WorkersConsistent ==
    \A w \in Workers :
        /\ step[w] \in {"cleared", "answered", "threw", "refused"} => now[w] \in claimed[w]
        /\ step[w] = "answered" /\ ListedRow(now[w]) => now[w] \in landed
        /\ step[w] = "refused" => now[w] \in refused
        /\ \A r \in claimed[w] : r <= last
        /\ \A r \in Rows : snap[w][r] <= failures[r]

RowsConsistent ==
    \A r \in Rows :
        /\ status[r] = "absent" <=> r > last
        /\ retryCount[r] <= failures[r]
        /\ r \in closing => r <= last

VersionsRise ==
    \A r, s \in Rows :
        r < s /\ s <= last /\ job[r].member = job[s].member /\ ~disturbed[job[r].member]
        => ~Open(r) /\ job[r].ver <= job[s].ver

SupersededStayClosed ==
    \A c \in Changers : At(c, "enqueue") =>
        /\ change[c].seen <= last
        /\ \A r \in Rows :
              r <= change[c].seen /\ job[r].member = change[c].member => ~Open(r)

Bookkeeping ==
    WorkersConsistent /\ RowsConsistent /\ VersionsRise /\ SupersededStayClosed

IInv ==
    /\ TypeOK
    /\ Bookkeeping
    /\ CompletedReachedHubSpot
    /\ DeadOnlyWhenExhausted
    /\ NoStaleRetry

\* When no change of a member is under way and none of its rows is open,
\* HubSpot shows the member's tier with a lifecycle stage, unless HubSpot has no
\* option for it (and keeps an older tier), the last attempt ended dead (staff
\* is notified) or one of the mishaps struck: the list of exceptions is complete.
Active(c, m) == ~At(c, "idle") /\ change[c].member = m

Quiet(m) ==
    /\ \A c \in Changers : ~Active(c, m)
    /\ OpenRows(m) = {}

IsLast(r, m) ==
    /\ r \in 1..last /\ job[r].member = m
    /\ \A s \in 1..last : job[s].member = m => s <= r

EndedDead(m) == \E r \in Rows : IsLast(r, m) /\ status[r] = "dead"

HubSpotFollowsTier ==
    \A m \in Members :
        Quiet(m) /\ tier[m] \in Listed /\ ~disturbed[m] /\ ~EndedDead(m)
        => contact[m].tier = tier[m] /\ ~contact[m].blank

\* Why.  A version has one tier, and one owner until it is queued.
Existing == {r \in Rows : r <= last}

RowVersions ==
    \A r \in Existing :
        LET m == job[r].member IN
        /\ job[r].ver <= latest[m]
        /\ contact[m].ver = job[r].ver => contact[m].tier = job[r].tier
        /\ \A s \in Existing :
              job[s].member = m /\ job[s].ver = job[r].ver => job[s].tier = job[r].tier
        /\ job[r].kind = "requeue" => job[r].origin < r

ChangeVersions ==
    \A c \in Changers : ~At(c, "idle") =>
        LET m == change[c].member IN
        /\ change[c].ver <= latest[m]
        /\ change[c].ver = latest[m] => change[c].tier = tier[m]
        /\ contact[m].ver = change[c].ver => contact[m].tier = change[c].tier
        /\ \A d \in Changers \ {c} : Active(d, m) => change[d].ver # change[c].ver
        /\ \A r \in Existing : job[r].member = m => job[r].ver # change[c].ver

ContactVersions == \A m \in Members : contact[m].ver <= latest[m]

\* Every change of m under way is older than version v.
NoneNewer(m, v) == \A c \in Changers : Active(c, m) => change[c].ver < v

\* The newest version of an undisturbed member, if HubSpot has an option for
\* its tier, is with its request, ...
WithItsRequest(m) == \E c \in Changers : Active(c, m) /\ change[c].ver = latest[m]

\* ... at HubSpot, where only older requests still meddle and will be recorded
\* (one that may still skip has cleared nothing), ...
Meddles(c, m) == Active(c, m) /\ ~At(c, "direct")

AtHubSpot(m) ==
    /\ OpenRows(m) = {}
    /\ contact[m].tier = tier[m]
    /\ NoneNewer(m, contact[m].ver)
    /\ \A r \in Existing : job[r].member = m => job[r].ver <= contact[m].ver
    /\ contact[m].blank => \E c \in Changers : Meddles(c, m)

\* ... or in the last row, which only an older request can have superseded.
InLastRow(m) ==
    \E r \in Existing :
        /\ IsLast(r, m)
        /\ job[r].tier = tier[m]
        /\ NoneNewer(m, job[r].ver)
        /\ \/ Open(r)
           \/ status[r] = "dead"
           \/ \E c \in Changers : Active(c, m) /\ At(c, "enqueue") /\ r <= change[c].seen

\* A worker that has HubSpot's answer left the contact as it wrote it, or someone
\* will be recorded who cleared it since.
Clearing(c) == At(c, "cleared") \/ At(c, "supersede")

AnswerHolds(r) ==
    LET m == job[r].member IN
    /\ disturbed[m] \/ job[r].ver <= contact[m].ver
    /\ \/ disturbed[m] \/ ~Open(r) \/ ~contact[m].blank
       \/ \E c \in Changers : Active(c, m) /\ Clearing(c)

AnswerStands ==
    \A w \in Workers : step[w] = "answered" /\ ListedRow(now[w]) => AnswerHolds(now[w])

ClosingNotLast ==
    \A r \in closing : disturbed[job[r].member] \/ ~IsLast(r, job[r].member)

Followed(m) ==
    \/ tier[m] \notin Listed \/ disturbed[m]
    \/ WithItsRequest(m) \/ AtHubSpot(m) \/ InLastRow(m)

TierInv ==
    /\ RowVersions
    /\ ChangeVersions
    /\ ContactVersions
    /\ AnswerStands
    /\ ClosingNotLast
    /\ \A m \in Members : Followed(m)

\* Both inductive invariants together.
FullInv == IInv /\ TierInv

\* A completed or superseded row is never opened again, by whatever late
\* worker or recovery.
ClosedForGood ==
    [][\A r \in Rows : status[r] \in {"completed", "superseded"} =>
           status'[r] \in {"completed", "superseded"}]_vars

\* Every queued row is eventually completed, superseded or dead.
EventuallyCloses ==
    \A r \in Rows : Open(r) ~> ~Open(r)

=============================================================================
