------------------------------ MODULE JobQueue ------------------------------
(***************************************************************************)
(* The database-backed job queue of server/core/jobQueue.ts.               *)
(*                                                                         *)
(* A row of job_queue is spread over one function per column the code      *)
(* reads or writes.  A poll is one call of processJobs: it picks a batch,  *)
(* locks it, runs the handlers of the batch concurrently (Promise.         *)
(* allSettled) and records each outcome.  The interval timer starts a poll *)
(* every five seconds without waiting for the previous one, and several    *)
(* server processes share the table, so polls overlap freely.              *)
(*                                                                         *)
(* The clock is abstracted to what the WHERE clauses compare it with: a    *)
(* row is due or not, a lock is fresh ("held") or older than LOCK_TIMEOUT  *)
(* ("expired"), processed_at is NULL, recent or beyond the retention.      *)
(***************************************************************************)
EXTENDS Naturals, FiniteSets

CONSTANTS
    Jobs,        \* the job ids that may ever be inserted
    Polls,       \* the overlapping calls of processJobs
    Cancels,     \* the jobs of type stripe_cancel_payment_intent
    BatchSize,   \* BATCH_SIZE
    Priority,    \* the priority column of each job
    MaxRetries,  \* the max_retries column of each job
    MaxFaults    \* bound: crashes and lost or refused database answers

ASSUME JobsAssumption == Cancels \subseteq Jobs
ASSUME BatchAssumption == BatchSize \in Nat \ {0}
ASSUME AttributesAssumption ==
    /\ Priority \in [Jobs -> Nat]
    /\ MaxRetries \in [Jobs -> Nat]
ASSUME FaultsAssumption == MaxFaults \in Nat

VARIABLES
    status,      \* the status column, "absent" before INSERT, "gone" after DELETE
    retryCount,  \* the retry_count column
    lock,        \* locked_at: "free" (NULL), "held" or "expired"
    due,         \* scheduled_for <= now
    processed,   \* processed_at: "null", "recent" or "old"
    batch,       \* ids a poll's claim statement has selected and not yet updated
    phase,       \* where executeJob of a poll stands for each job
    snap,        \* the retry_count the claim returned to that executeJob
    ran,         \* history: jobs whose handler has returned normally
    faults       \* faults so far

row == <<status, retryCount, lock, due, processed>>
poll == <<batch, phase, snap>>
vars == <<row, poll, ran, faults>>

Statuses == {"absent", "pending", "completed", "failed", "gone"}
Phases == {"idle", "running", "returned", "threw"}

TypeOK ==
    /\ status \in [Jobs -> Statuses]
    /\ retryCount \in [Jobs -> Nat]
    /\ lock \in [Jobs -> {"free", "held", "expired"}]
    /\ due \in [Jobs -> BOOLEAN]
    /\ processed \in [Jobs -> {"null", "recent", "old"}]
    /\ batch \in [Polls -> SUBSET Jobs]
    /\ phase \in [Polls -> [Jobs -> Phases]]
    /\ snap \in [Polls -> [Jobs -> Nat]]
    /\ ran \in SUBSET Jobs
    /\ faults \in 0..MaxFaults

Init ==
    /\ status = [j \in Jobs |-> "absent"]
    /\ retryCount = [j \in Jobs |-> 0]
    /\ lock = [j \in Jobs |-> "free"]
    /\ due = [j \in Jobs |-> FALSE]
    /\ processed = [j \in Jobs |-> "null"]
    /\ batch = [p \in Polls |-> {}]
    /\ phase = [p \in Polls |-> [j \in Jobs |-> "idle"]]
    /\ snap = [p \in Polls |-> [j \in Jobs |-> 0]]
    /\ ran = {}
    /\ faults = 0

-----------------------------------------------------------------------------
(* Inserting rows.                                                         *)

Insert(js) ==
    /\ \A j \in js : status[j] = "absent"
    /\ status' = [j \in Jobs |-> IF j \in js THEN "pending" ELSE status[j]]
    /\ due' = [j \in Jobs |-> IF j \in js THEN TRUE ELSE due[j]]
    /\ UNCHANGED <<retryCount, lock, processed>>

\* queueJob, the commit of queueJobInTransaction, and the batch of queueJobs.
Enqueue(js) ==
    /\ js # {}
    /\ Insert(js)
    /\ UNCHANGED <<poll, ran, faults>>

-----------------------------------------------------------------------------
(* Claiming.  The statement is an UPDATE over an unlocked sub-SELECT: the  *)
(* ids come from the statement's snapshot, the rows are locked afterwards, *)
(* and a row another transaction has updated in between is updated again   *)
(* in its new version (the sub-SELECT is not re-evaluated).                *)

\* Mutant: the lock-timeout alternative is dropped, locks never lapse.
ClaimableOnlyUnlocked ==
    {j \in Jobs : status[j] = "pending" /\ due[j] /\ lock[j] = "free"}

Claimable == {j \in Jobs : status[j] = "pending" /\ due[j] /\ lock[j] # "held"}

Idle(p) == batch[p] = {} /\ \A j \in Jobs : phase[p][j] = "idle"

\* ORDER BY priority DESC LIMIT BATCH_SIZE; the ties, broken by scheduled_for,
\* are left open.
IsBatch(b) ==
    /\ b # {}
    /\ \/ b = Claimable /\ Cardinality(b) <= BatchSize
       \/ Cardinality(b) = BatchSize
    /\ \A j \in b, k \in Claimable \ b : Priority[j] >= Priority[k]

ClaimSelect(p) ==
    /\ Idle(p)
    /\ \E b \in SUBSET Claimable : IsBatch(b) /\ batch' = [batch EXCEPT ![p] = b]
    /\ UNCHANGED <<row, phase, snap, ran, faults>>

Taken(p) == {j \in batch[p] : status[j] # "gone"}

LockTaken(p) ==
    /\ batch[p] # {}
    /\ batch' = [batch EXCEPT ![p] = {}]
    /\ lock' = [j \in Jobs |-> IF j \in Taken(p) THEN "held" ELSE lock[j]]
    /\ UNCHANGED <<status, retryCount, due, processed, ran>>

\* Mutant: the attempt about to start is counted in the claimed retry_count.
ClaimUpdateCountsAhead(p) ==
    /\ LockTaken(p)
    /\ phase' = [phase EXCEPT ![p] = [j \in Jobs |->
                    IF j \in Taken(p) THEN "running" ELSE phase[p][j]]]
    /\ snap' = [snap EXCEPT ![p] = [j \in Jobs |->
                    IF j \in Taken(p) THEN retryCount[j] + 1 ELSE snap[p][j]]]
    /\ UNCHANGED faults

ClaimUpdate(p) ==
    /\ LockTaken(p)
    /\ phase' = [phase EXCEPT ![p] = [j \in Jobs |->
                    IF j \in Taken(p) THEN "running" ELSE phase[p][j]]]
    /\ snap' = [snap EXCEPT ![p] = [j \in Jobs |->
                    IF j \in Taken(p) THEN retryCount[j] ELSE snap[p][j]]]
    /\ UNCHANGED faults

Fault ==
    /\ faults < MaxFaults
    /\ faults' = faults + 1

\* The UPDATE commits but its answer is lost: queryWithRetry runs the claim
\* again, and the rows of the first one stay locked with nobody to run them.
ClaimAnswerLost(p) ==
    /\ Fault
    /\ LockTaken(p)
    /\ UNCHANGED <<phase, snap>>

-----------------------------------------------------------------------------
(* Running a handler and recording its outcome.                            *)

SetPhase(p, j, ph) == phase' = [phase EXCEPT ![p][j] = ph]

\* The handler of a cancellation that finds the payment intent already
\* succeeded queues a refund job before it returns.
HandlerReturns(p, j) ==
    /\ phase[p][j] = "running"
    /\ SetPhase(p, j, "returned")
    /\ ran' = ran \cup {j}
    /\ \/ UNCHANGED row
       \/ j \in Cancels /\ \E k \in Jobs : Insert({k})
    /\ UNCHANGED <<batch, snap, faults>>

HandlerThrows(p, j) ==
    /\ phase[p][j] = "running"
    /\ SetPhase(p, j, "threw")
    /\ UNCHANGED <<row, batch, snap, ran, faults>>

\* UPDATE ... WHERE id = $1: by id alone, whoever holds the lock and whatever
\* the status is; a deleted row is left alone.
WriteCompleted(j) ==
    /\ IF status[j] = "gone"
       THEN UNCHANGED <<status, lock, processed>>
       ELSE /\ status' = [status EXCEPT ![j] = "completed"]
            /\ lock' = [lock EXCEPT ![j] = "free"]
            /\ processed' = [processed EXCEPT ![j] = "recent"]
    /\ UNCHANGED <<retryCount, due>>

MarkJobCompleted(p, j) ==
    /\ phase[p][j] = "returned"
    /\ WriteCompleted(j)
    /\ SetPhase(p, j, "idle")
    /\ UNCHANGED <<batch, snap, ran, faults>>

\* queryWithRetry loses an answer and repeats the UPDATE, or gives up and the
\* catch block of executeJob takes over, whether or not the write happened.
MarkJobCompletedFaulty(p, j) ==
    /\ Fault
    /\ phase[p][j] = "returned"
    /\ \/ WriteCompleted(j) /\ UNCHANGED phase
       \/ WriteCompleted(j) /\ SetPhase(p, j, "threw")
       \/ UNCHANGED row /\ SetPhase(p, j, "threw")
    /\ UNCHANGED <<batch, snap, ran>>

\* Mutants of WriteFailed.  The limit is off by one; a retry writes 'pending';
\* the last failure is not counted.
WriteFailedOffByOne(j, claimedCount) ==
    /\ retryCount' = [retryCount EXCEPT ![j] = @ + 1]
    /\ lock' = [lock EXCEPT ![j] = "free"]
    /\ IF claimedCount + 2 >= MaxRetries[j]
       THEN status' = [status EXCEPT ![j] = "failed"] /\ UNCHANGED due
       ELSE due' = [due EXCEPT ![j] = FALSE] /\ UNCHANGED status
    /\ UNCHANGED processed

WriteFailedRequeues(j, claimedCount) ==
    IF status[j] = "gone"
    THEN UNCHANGED row
    ELSE /\ retryCount' = [retryCount EXCEPT ![j] = @ + 1]
         /\ lock' = [lock EXCEPT ![j] = "free"]
         /\ due' = [due EXCEPT ![j] = FALSE]
         /\ status' = [status EXCEPT ![j] =
                          IF claimedCount + 1 >= MaxRetries[j] THEN "failed" ELSE "pending"]
         /\ UNCHANGED processed

WriteFailedUncounted(j, claimedCount) ==
    IF status[j] = "gone"
    THEN UNCHANGED row
    ELSE /\ lock' = [lock EXCEPT ![j] = "free"]
         /\ IF claimedCount + 1 >= MaxRetries[j]
            THEN /\ status' = [status EXCEPT ![j] = "failed"]
                 /\ UNCHANGED <<retryCount, due>>
            ELSE /\ retryCount' = [retryCount EXCEPT ![j] = @ + 1]
                 /\ due' = [due EXCEPT ![j] = FALSE]
                 /\ UNCHANGED status
         /\ UNCHANGED processed

\* The verdict is taken on the claimed retry_count, the increment is made on
\* the stored one.  A retry leaves the status alone, and only a completion
\* writes processed_at.
WriteFailed(j, claimedCount) ==
    IF status[j] = "gone"
    THEN UNCHANGED row
    ELSE /\ retryCount' = [retryCount EXCEPT ![j] = @ + 1]
         /\ lock' = [lock EXCEPT ![j] = "free"]
         /\ IF claimedCount + 1 >= MaxRetries[j]
            THEN status' = [status EXCEPT ![j] = "failed"] /\ UNCHANGED due
            ELSE due' = [due EXCEPT ![j] = FALSE] /\ UNCHANGED status
         /\ UNCHANGED processed

MarkJobFailed(p, j) ==
    /\ phase[p][j] = "threw"
    /\ WriteFailed(j, snap[p][j])
    /\ SetPhase(p, j, "idle")
    /\ UNCHANGED <<batch, snap, ran, faults>>

\* A lost answer repeats the increment; when queryWithRetry gives up,
\* allSettled swallows the rejection and the row keeps its lock.
MarkJobFailedFaulty(p, j) ==
    /\ Fault
    /\ phase[p][j] = "threw"
    /\ \/ WriteFailed(j, snap[p][j]) /\ UNCHANGED phase
       \/ UNCHANGED row /\ SetPhase(p, j, "idle")
    /\ UNCHANGED <<batch, snap, ran>>

-----------------------------------------------------------------------------
(* The environment: process crashes, the passage of time, the cleanup.     *)

Crash(p) ==
    /\ Fault
    /\ ~Idle(p)
    /\ batch' = [batch EXCEPT ![p] = {}]
    /\ phase' = [phase EXCEPT ![p] = [j \in Jobs |-> "idle"]]
    /\ UNCHANGED <<row, snap, ran>>

BackoffEnds(j) ==
    /\ status[j] = "pending"
    /\ ~due[j]
    /\ due' = [due EXCEPT ![j] = TRUE]
    /\ UNCHANGED <<status, retryCount, lock, processed, poll, ran, faults>>

LockExpires(j) ==
    /\ status[j] # "gone"
    /\ lock[j] = "held"
    /\ lock' = [lock EXCEPT ![j] = "expired"]
    /\ UNCHANGED <<status, retryCount, due, processed, poll, ran, faults>>

RetentionEnds(j) ==
    /\ status[j] # "gone"
    /\ processed[j] = "recent"
    /\ processed' = [processed EXCEPT ![j] = "old"]
    /\ UNCHANGED <<status, retryCount, lock, due, poll, ran, faults>>

\* Mutant: the cleanup forgets to ask for processed_at.
OldWhenSettled == {j \in Jobs : status[j] \in {"completed", "failed"}}

Old == {j \in Jobs : status[j] \in {"completed", "failed"} /\ processed[j] = "old"}

CleanupOldJobs ==
    /\ Old # {}
    /\ status' = [j \in Jobs |-> IF j \in Old THEN "gone" ELSE status[j]]
    /\ UNCHANGED <<retryCount, lock, due, processed, poll, ran, faults>>

-----------------------------------------------------------------------------
PollStep(p) ==
    \/ ClaimSelect(p)
    \/ ClaimUpdate(p)
    \/ ClaimAnswerLost(p)
    \/ Crash(p)
    \/ \E j \in Jobs :
          \/ HandlerReturns(p, j)
          \/ HandlerThrows(p, j)
          \/ MarkJobCompleted(p, j)
          \/ MarkJobCompletedFaulty(p, j)
          \/ MarkJobFailed(p, j)
          \/ MarkJobFailedFaulty(p, j)

Next ==
    \/ \E js \in SUBSET Jobs : Enqueue(js)
    \/ \E p \in Polls : PollStep(p)
    \/ \E j \in Jobs : BackoffEnds(j) \/ LockExpires(j) \/ RetentionEnds(j)
    \/ CleanupOldJobs

\* The timer keeps polling, a started statement and a started handler end, and
\* time passes.  Submission, faults and the outcome of a handler are free.
Fairness ==
    /\ \A p \in Polls :
          /\ WF_vars(ClaimSelect(p))
          /\ WF_vars(ClaimUpdate(p))
          /\ \A j \in Jobs :
                /\ WF_vars(HandlerReturns(p, j) \/ HandlerThrows(p, j))
                /\ WF_vars(MarkJobCompleted(p, j))
                /\ WF_vars(MarkJobFailed(p, j))
    /\ \A j \in Jobs :
          WF_vars(BackoffEnds(j)) /\ WF_vars(LockExpires(j)) /\ WF_vars(RetentionEnds(j))
    /\ WF_vars(CleanupOldJobs)

Spec == Init /\ [][Next]_vars
FairSpec == Spec /\ Fairness

-----------------------------------------------------------------------------
(* Properties.                                                             *)

Settled(j) == status[j] \in {"completed", "failed", "gone"}

\* A job is marked failed only when the attempts max_retries grants it have
\* been counted: the verdict is taken on a count read before the handler ran,
\* by a poll whose lock may be long gone, and the count is incremented twice
\* by overlapping polls.
FailedOnlyWhenExhausted ==
    \A j \in Jobs : status[j] = "failed" => retryCount[j] >= MaxRetries[j]

\* No work is dropped silently: a completed row, and a row the cleanup has
\* deleted, belong to a job whose handler returned at least once, whatever was
\* recorded in between by polls that had lost the lock.
NothingDroppedUnrun ==
    \A j \in Jobs : status[j] \in {"completed", "gone"} => j \in ran

\* The inductive invariant behind these two.  A poll only works on inserted
\* rows and has claimed a count that the stored one has not fallen below, so
\* its verdict is never premature; processed_at is written only by a poll
\* whose handler returned, and every completed or deleted row carries it.
PollsConsistent ==
    \A p \in Polls, j \in Jobs :
        /\ j \in batch[p] \/ phase[p][j] # "idle" => status[j] # "absent"
        /\ phase[p][j] = "returned" => j \in ran
        /\ snap[p][j] <= retryCount[j]

RowsConsistent ==
    \A j \in Jobs :
        /\ processed[j] # "null" => j \in ran
        /\ status[j] \in {"completed", "gone"} => processed[j] # "null"
        /\ status[j] = "failed" => retryCount[j] >= MaxRetries[j]

IInv == TypeOK /\ PollsConsistent /\ RowsConsistent

\* A late markJobFailed of a poll that lost its lock, or an Enqueue, never puts
\* a settled job back in the queue: it could be charged or refunded again.
SettledForGood ==
    [][\A j \in Jobs : Settled(j) => Settled(j)']_vars

\* Every queued job is eventually completed or failed, through crashes, lost
\* answers and locks that nobody releases.
EventuallySettles ==
    \A j \in Jobs : status[j] = "pending" ~> Settled(j)

\* The queue implements at-least-once delivery with a bounded retry budget:
\* whatever overlapping polls, crashes and lost answers do to a row, a client
\* sees one submission, deliveries, and one settlement that is never undone.
Standing(j) ==
    CASE status[j] = "absent" -> "new"
      [] status[j] = "pending" -> "outstanding"
      [] status[j] \in {"completed", "failed"} -> "settled"
      [] status[j] = "gone" -> "gone"

Delivery == INSTANCE AtLeastOnceDelivery WITH
    Items <- Jobs,
    Budget <- MaxRetries,
    standing <- [j \in Jobs |-> Standing(j)],
    failures <- retryCount,
    delivered <- ran

ImplementsDelivery == Delivery!Spec

=============================================================================
