--------------------------- MODULE JobQueueProofs ---------------------------
(***************************************************************************)
(* Theorems about JobQueue, for every set of jobs and of overlapping polls *)
(* and every number of faults: its type invariant, the inductive invariant *)
(* behind its safety properties, and the implementation of                 *)
(* AtLeastOnceDelivery.                                                    *)
(***************************************************************************)
EXTENDS JobQueue, TLAPS

\* The columns a write of markJobCompleted or markJobFailed may change.
RowTypeOK ==
    /\ status \in [Jobs -> Statuses]
    /\ retryCount \in [Jobs -> Nat]
    /\ lock \in [Jobs -> {"free", "held", "expired"}]
    /\ due \in [Jobs -> BOOLEAN]
    /\ processed \in [Jobs -> {"null", "recent", "old"}]

LEMMA TypeOKRow == TypeOK => RowTypeOK
  BY DEF TypeOK, RowTypeOK

\* The three writes of a row keep each column in its range.
LEMMA InsertTypeOK ==
  ASSUME RowTypeOK, NEW js, Insert(js)
  PROVE  RowTypeOK'
  BY DEF RowTypeOK, Insert, Statuses

LEMMA WriteCompletedTypeOK ==
  ASSUME RowTypeOK, NEW j \in Jobs, WriteCompleted(j)
  PROVE  RowTypeOK'
<1>1. CASE status[j] = "gone"
  BY <1>1 DEF RowTypeOK, WriteCompleted
<1>2. CASE status[j] # "gone"
  BY <1>2 DEF RowTypeOK, WriteCompleted, Statuses
<1> QED
  BY <1>1, <1>2

LEMMA WriteFailedTypeOK ==
  ASSUME RowTypeOK, NEW j \in Jobs, NEW n \in Nat, WriteFailed(j, n)
  PROVE  RowTypeOK'
<1>1. CASE status[j] = "gone"
  BY <1>1 DEF RowTypeOK, WriteFailed, row
<1>2. CASE status[j] # "gone" /\ n + 1 >= MaxRetries[j]
  BY <1>2 DEF RowTypeOK, WriteFailed, Statuses
<1>3. CASE status[j] # "gone" /\ ~(n + 1 >= MaxRetries[j])
  <2>1. /\ retryCount' = [retryCount EXCEPT ![j] = @ + 1]
        /\ lock' = [lock EXCEPT ![j] = "free"]
        /\ due' = [due EXCEPT ![j] = FALSE]
        /\ UNCHANGED <<status, processed>>
    BY <1>3 DEF WriteFailed
  <2> QED
    BY <2>1 DEF RowTypeOK
<1> QED
  BY <1>1, <1>2, <1>3

LEMMA SetPhaseTypeOK ==
  ASSUME phase \in [Polls -> [Jobs -> Phases]],
         NEW p \in Polls, NEW j \in Jobs, NEW ph \in Phases, SetPhase(p, j, ph)
  PROVE  phase' \in [Polls -> [Jobs -> Phases]]
  BY DEF SetPhase

LEMMA InitTypeOK == Init => TypeOK
  BY JobsAssumption, FaultsAssumption DEF Init, TypeOK, Statuses, Phases

\* Every step of the queue keeps every variable in its range.
LEMMA NextTypeOK == TypeOK /\ [Next]_vars => TypeOK'
<1> SUFFICES ASSUME TypeOK, [Next]_vars PROVE TypeOK'
  OBVIOUS
<1>0. RowTypeOK
  BY TypeOKRow
<1> DEFINE PollTypeOK ==
             /\ batch \in [Polls -> SUBSET Jobs]
             /\ phase \in [Polls -> [Jobs -> Phases]]
             /\ snap \in [Polls -> [Jobs -> Nat]]
             /\ ran \in SUBSET Jobs
             /\ faults \in 0..MaxFaults
<1>a. ASSUME RowTypeOK', PollTypeOK' PROVE TypeOK'
  BY <1>a DEF TypeOK, RowTypeOK
<1> USE FaultsAssumption DEF TypeOK, Phases
<1>1. ASSUME NEW js \in SUBSET Jobs, Enqueue(js) PROVE TypeOK'
  BY <1>0, <1>1, <1>a, InsertTypeOK DEF Enqueue, poll
<1>2. ASSUME NEW p \in Polls, ClaimSelect(p) PROVE TypeOK'
  BY <1>2 DEF ClaimSelect, Claimable, row
<1>3. ASSUME NEW p \in Polls, ClaimUpdate(p) PROVE TypeOK'
  BY <1>3 DEF ClaimUpdate, LockTaken, Taken
<1>4. ASSUME NEW p \in Polls, ClaimAnswerLost(p) PROVE TypeOK'
  BY <1>4 DEF ClaimAnswerLost, LockTaken, Taken, Fault
<1>5. ASSUME NEW p \in Polls, Crash(p) PROVE TypeOK'
  BY <1>5 DEF Crash, Fault, row
<1>6. ASSUME NEW p \in Polls, NEW j \in Jobs, HandlerReturns(p, j) PROVE TypeOK'
  <2>1. PollTypeOK'
    BY <1>6 DEF HandlerReturns, SetPhase
  <2>2. RowTypeOK'
    <3>1. CASE UNCHANGED row
      BY <1>0, <3>1 DEF RowTypeOK, row
    <3>2. ASSUME NEW k \in Jobs, Insert({k}) PROVE RowTypeOK'
      BY <1>0, <3>2, InsertTypeOK
    <3> QED
      BY <1>6, <3>1, <3>2 DEF HandlerReturns
  <2> QED
    BY <2>1, <2>2, <1>a
<1>7. ASSUME NEW p \in Polls, NEW j \in Jobs, HandlerThrows(p, j) PROVE TypeOK'
  BY <1>7 DEF HandlerThrows, SetPhase, row
<1>8. ASSUME NEW p \in Polls, NEW j \in Jobs,
             MarkJobCompleted(p, j) \/ MarkJobCompletedFaulty(p, j)
      PROVE TypeOK'
  <2>1. PollTypeOK'
    <3>1. phase' \in [Polls -> [Jobs -> Phases]]
      BY <1>8, SetPhaseTypeOK DEF MarkJobCompleted, MarkJobCompletedFaulty
    <3>2. UNCHANGED <<batch, snap, ran>> /\ faults' \in 0..MaxFaults
      BY <1>8 DEF MarkJobCompleted, MarkJobCompletedFaulty, Fault
    <3> QED
      BY <3>1, <3>2
  <2>2. RowTypeOK'
    <3>1. CASE UNCHANGED row
      BY <1>0, <3>1 DEF RowTypeOK, row
    <3>2. CASE WriteCompleted(j)
      BY <1>0, <3>2, WriteCompletedTypeOK
    <3> QED
      BY <1>8, <3>1, <3>2 DEF MarkJobCompleted, MarkJobCompletedFaulty
  <2> QED
    BY <2>1, <2>2, <1>a
<1>9. ASSUME NEW p \in Polls, NEW j \in Jobs,
             MarkJobFailed(p, j) \/ MarkJobFailedFaulty(p, j)
      PROVE TypeOK'
  <2>1. PollTypeOK'
    <3>1. phase' \in [Polls -> [Jobs -> Phases]]
      BY <1>9, SetPhaseTypeOK DEF MarkJobFailed, MarkJobFailedFaulty
    <3>2. UNCHANGED <<batch, snap, ran>> /\ faults' \in 0..MaxFaults
      BY <1>9 DEF MarkJobFailed, MarkJobFailedFaulty, Fault
    <3> QED
      BY <3>1, <3>2
  <2>2. RowTypeOK'
    <3>1. CASE UNCHANGED row
      BY <1>0, <3>1 DEF RowTypeOK, row
    <3>2. CASE WriteFailed(j, snap[p][j])
      BY <1>0, <3>2, WriteFailedTypeOK
    <3> QED
      BY <1>9, <3>1, <3>2 DEF MarkJobFailed, MarkJobFailedFaulty
  <2> QED
    BY <2>1, <2>2, <1>a
<1>10. ASSUME NEW j \in Jobs, BackoffEnds(j) \/ LockExpires(j) \/ RetentionEnds(j)
       PROVE TypeOK'
  BY <1>10 DEF BackoffEnds, LockExpires, RetentionEnds, poll
<1>11. ASSUME CleanupOldJobs PROVE TypeOK'
  BY <1>11 DEF CleanupOldJobs, Old, poll, Statuses
<1>12. ASSUME UNCHANGED vars PROVE TypeOK'
  BY <1>12 DEF vars, row, poll
<1> QED
  BY <1>1, <1>2, <1>3, <1>4, <1>5, <1>6, <1>7, <1>8, <1>9, <1>10, <1>11, <1>12
     DEF Next, PollStep

\* The queue is type correct.
THEOREM TypeCorrect == Spec => []TypeOK
  BY InitTypeOK, NextTypeOK, PTL DEF Spec

-----------------------------------------------------------------------------
(* The inductive invariant.                                                *)

LEMMA InitIInv == Init => IInv
  BY InitTypeOK DEF Init, IInv, PollsConsistent, RowsConsistent

LEMMA NextIInv == IInv /\ [Next]_vars => IInv'
<1> SUFFICES ASSUME IInv, [Next]_vars PROVE IInv'
  OBVIOUS
<1>t. TypeOK'
  BY NextTypeOK DEF IInv
<1> USE <1>t, AttributesAssumption DEF IInv, TypeOK, PollsConsistent, RowsConsistent
<1>1. ASSUME NEW js \in SUBSET Jobs, Enqueue(js) PROVE IInv'
  BY <1>1 DEF Enqueue, Insert, poll
<1>2. ASSUME NEW p \in Polls, ClaimSelect(p) PROVE IInv'
  BY <1>2 DEF ClaimSelect, Claimable, row
<1>3. ASSUME NEW p \in Polls, ClaimUpdate(p) PROVE IInv'
  BY <1>3 DEF ClaimUpdate, LockTaken, Taken
<1>4. ASSUME NEW p \in Polls, ClaimAnswerLost(p) PROVE IInv'
  BY <1>4 DEF ClaimAnswerLost, LockTaken, Taken
<1>5. ASSUME NEW p \in Polls, Crash(p) PROVE IInv'
  BY <1>5 DEF Crash, row
<1>6. ASSUME NEW p \in Polls, NEW j \in Jobs, HandlerReturns(p, j) PROVE IInv'
  <2>1. CASE UNCHANGED row
    BY <1>6, <2>1 DEF HandlerReturns, SetPhase, row
  <2>2. ASSUME NEW k \in Jobs, Insert({k}) PROVE IInv'
    <3>1. \A q \in Polls, l \in Jobs :
             \/ phase'[q][l] = phase[q][l]
             \/ q = p /\ l = j /\ phase'[q][l] = "returned"
      BY <1>6 DEF HandlerReturns, SetPhase
    <3>2. /\ phase[p][j] = "running" /\ ran' = ran \cup {j}
          /\ UNCHANGED <<batch, snap, retryCount, processed>>
      BY <1>6, <2>2 DEF HandlerReturns, Insert
    <3>3. \A l \in Jobs :
             \/ status'[l] = status[l]
             \/ status[l] = "absent" /\ status'[l] = "pending"
      BY <2>2 DEF Insert
    <3>4. PollsConsistent'
      BY <3>1, <3>2, <3>3
    <3>5. RowsConsistent'
      BY <3>2, <3>3
    <3> QED
      BY <3>4, <3>5
  <2> QED
    BY <1>6, <2>1, <2>2 DEF HandlerReturns
<1>7. ASSUME NEW p \in Polls, NEW j \in Jobs, HandlerThrows(p, j) PROVE IInv'
  BY <1>7 DEF HandlerThrows, SetPhase, row
<1>8. ASSUME NEW p \in Polls, NEW j \in Jobs,
             MarkJobCompleted(p, j) \/ MarkJobCompletedFaulty(p, j)
      PROVE IInv'
  <2>1. \A q \in Polls, l \in Jobs :
           \/ phase'[q][l] = phase[q][l]
           \/ q = p /\ l = j /\ phase'[q][l] \in {"idle", "threw"}
    BY <1>8 DEF MarkJobCompleted, MarkJobCompletedFaulty, SetPhase
  <2>2. phase[p][j] = "returned" /\ UNCHANGED <<batch, snap, ran, retryCount>>
    BY <1>8 DEF MarkJobCompleted, MarkJobCompletedFaulty, WriteCompleted, row
  <2>3. \A l \in Jobs :
           \/ status'[l] = status[l] /\ processed'[l] = processed[l]
           \/ l = j /\ status'[l] = "completed" /\ processed'[l] = "recent"
    BY <1>8 DEF MarkJobCompleted, MarkJobCompletedFaulty, WriteCompleted, row
  <2>4. PollsConsistent'
    BY <2>1, <2>2, <2>3
  <2>5. RowsConsistent'
    BY <2>2, <2>3
  <2> QED
    BY <2>4, <2>5
<1>9. ASSUME NEW p \in Polls, NEW j \in Jobs,
             MarkJobFailed(p, j) \/ MarkJobFailedFaulty(p, j)
      PROVE IInv'
  <2>1. \A q \in Polls, l \in Jobs :
           \/ phase'[q][l] = phase[q][l]
           \/ q = p /\ l = j /\ phase'[q][l] = "idle"
    BY <1>9 DEF MarkJobFailed, MarkJobFailedFaulty, SetPhase
  <2>2. phase[p][j] = "threw" /\ UNCHANGED <<batch, snap, ran, processed>>
    BY <1>9 DEF MarkJobFailed, MarkJobFailedFaulty, WriteFailed, row
  <2>3. \A l \in Jobs :
           \/ status'[l] = status[l] /\ retryCount'[l] >= retryCount[l]
           \/ /\ l = j /\ status'[l] = "failed"
              /\ retryCount'[l] = retryCount[l] + 1
              /\ snap[p][j] + 1 >= MaxRetries[j]
    <3>1. CASE UNCHANGED row
      BY <3>1 DEF row
    <3>2. CASE WriteFailed(j, snap[p][j])
      BY <3>2 DEF WriteFailed, row
    <3> QED
      BY <1>9, <3>1, <3>2 DEF MarkJobFailed, MarkJobFailedFaulty
  <2>4. PollsConsistent'
    BY <2>1, <2>2, <2>3
  <2>5. RowsConsistent'
    BY <2>2, <2>3
  <2> QED
    BY <2>4, <2>5
<1>10. ASSUME NEW j \in Jobs, BackoffEnds(j) \/ LockExpires(j) \/ RetentionEnds(j)
       PROVE IInv'
  BY <1>10 DEF BackoffEnds, LockExpires, RetentionEnds, poll
<1>11. ASSUME CleanupOldJobs PROVE IInv'
  BY <1>11 DEF CleanupOldJobs, Old, poll
<1>12. ASSUME UNCHANGED vars PROVE IInv'
  BY <1>12 DEF vars, row, poll
<1> QED
  BY <1>1, <1>2, <1>3, <1>4, <1>5, <1>6, <1>7, <1>8, <1>9, <1>10, <1>11, <1>12
     DEF Next, PollStep

THEOREM Inductive == Spec => []IInv
  BY InitIInv, NextIInv, PTL DEF Spec

\* A job is marked failed only after max_retries failed attempts were counted.
THEOREM FailedExhausted == Spec => []FailedOnlyWhenExhausted
<1>1. IInv => FailedOnlyWhenExhausted
  BY DEF IInv, RowsConsistent, FailedOnlyWhenExhausted
<1> QED
  BY Inductive, <1>1, PTL

\* A completed or deleted job has run to the end at least once.
THEOREM NoneDroppedUnrun == Spec => []NothingDroppedUnrun
<1>1. IInv => NothingDroppedUnrun
  BY DEF IInv, RowsConsistent, NothingDroppedUnrun
<1> QED
  BY Inductive, <1>1, PTL

-----------------------------------------------------------------------------
(* Settlement is final, and the queue implements AtLeastOnceDelivery.      *)

\* A settled job is never put back in the queue.
THEOREM SettlementIsFinal == Spec => SettledForGood
<1>1. ASSUME IInv, IInv', [Next]_vars
      PROVE  \A j \in Jobs : Settled(j) => Settled(j)'
  <2> SUFFICES ASSUME NEW k \in Jobs, Settled(k) PROVE Settled(k)'
    OBVIOUS
  <2>0. status \in [Jobs -> Statuses]
    BY <1>1 DEF IInv, TypeOK
  <2> USE <2>0 DEF Settled
  <2>1. ASSUME NEW js \in SUBSET Jobs, Insert(js) PROVE Settled(k)'
    BY <2>1 DEF Insert
  <2>2. ASSUME NEW j \in Jobs, WriteCompleted(j) PROVE Settled(k)'
    <3>1. status' = status \/ status' = [status EXCEPT ![j] = "completed"]
      BY <2>2 DEF WriteCompleted
    <3> QED
      BY <3>1
  <2>3. ASSUME NEW j \in Jobs, NEW n, WriteFailed(j, n) PROVE Settled(k)'
    <3>1. status' = status \/ status' = [status EXCEPT ![j] = "failed"]
      BY <2>3 DEF WriteFailed, row
    <3> QED
      BY <3>1
  <2>4. CASE UNCHANGED status
    BY <2>4
  <2>5. CASE CleanupOldJobs
    BY <2>5 DEF CleanupOldJobs
  <2>6. ASSUME NEW js \in SUBSET Jobs, Enqueue(js) PROVE Settled(k)'
    BY <2>1, <2>6 DEF Enqueue
  <2>7. ASSUME NEW p \in Polls, PollStep(p) PROVE Settled(k)'
    <3>1. CASE ClaimSelect(p) \/ ClaimUpdate(p) \/ ClaimAnswerLost(p) \/ Crash(p)
      BY <2>4, <3>1 DEF ClaimSelect, ClaimUpdate, ClaimAnswerLost, LockTaken, Crash, row
    <3>2. ASSUME NEW j \in Jobs, HandlerReturns(p, j) PROVE Settled(k)'
      BY <2>1, <2>4, <3>2 DEF HandlerReturns, row
    <3>3. ASSUME NEW j \in Jobs, HandlerThrows(p, j) PROVE Settled(k)'
      BY <2>4, <3>3 DEF HandlerThrows, row
    <3>4. ASSUME NEW j \in Jobs, MarkJobCompleted(p, j) \/ MarkJobCompletedFaulty(p, j)
          PROVE  Settled(k)'
      BY <2>2, <2>4, <3>4 DEF MarkJobCompleted, MarkJobCompletedFaulty, row
    <3>5. ASSUME NEW j \in Jobs, MarkJobFailed(p, j) \/ MarkJobFailedFaulty(p, j)
          PROVE  Settled(k)'
      BY <2>3, <2>4, <3>5 DEF MarkJobFailed, MarkJobFailedFaulty, row
    <3> QED
      BY <2>7, <3>1, <3>2, <3>3, <3>4, <3>5 DEF PollStep
  <2>8. ASSUME NEW j \in Jobs, BackoffEnds(j) \/ LockExpires(j) \/ RetentionEnds(j)
        PROVE  Settled(k)'
    BY <2>4, <2>8 DEF BackoffEnds, LockExpires, RetentionEnds
  <2>9. CASE UNCHANGED vars
    BY <2>4, <2>9 DEF vars, row
  <2> QED
    BY <1>1, <2>5, <2>6, <2>7, <2>8, <2>9 DEF Next
<1> QED
  BY <1>1, Inductive, PTL DEF Spec, SettledForGood

LEMMA InitDelivers == Init => Delivery!Init
  BY DEF Init, Delivery!Init, Standing

LEMMA StepDelivers == IInv /\ [Next]_vars => [Delivery!Next]_(Delivery!vars)
<1> SUFFICES ASSUME IInv, [Next]_vars PROVE [Delivery!Next]_(Delivery!vars)
  OBVIOUS
<1> DEFINE Stutters == UNCHANGED <<status, retryCount, ran>>
<1> USE DEF IInv, TypeOK, Statuses, Standing
<1>1. CASE Stutters
  BY <1>1 DEF Delivery!vars
<1>2. ASSUME NEW js \in SUBSET Jobs, Insert(js) PROVE Delivery!Submit(js)
  BY <1>2 DEF Insert, Delivery!Submit
<1>3. ASSUME NEW js \in SUBSET Jobs, Enqueue(js) PROVE Delivery!Next
  BY <1>2, <1>3 DEF Enqueue, Insert, Delivery!Next
<1>4. ASSUME NEW p \in Polls, NEW j \in Jobs, HandlerReturns(p, j) PROVE Delivery!Next
  <2>1. Delivery!Deliver(j)
    BY <1>4 DEF HandlerReturns, Insert, row, PollsConsistent, Delivery!Deliver, Delivery!Known
  <2>2. CASE UNCHANGED row
    BY <2>1, <2>2 DEF row, Delivery!Next
  <2>3. ASSUME NEW k \in Jobs, Insert({k}) PROVE Delivery!Next
    BY <1>2, <2>1, <2>3 DEF Delivery!Next
  <2> QED
    BY <1>4, <2>2, <2>3 DEF HandlerReturns
<1>5. ASSUME NEW p \in Polls, NEW j \in Jobs,
             MarkJobCompleted(p, j) \/ MarkJobCompletedFaulty(p, j)
      PROVE  Stutters \/ Delivery!Next
  <2>1. phase[p][j] = "returned" /\ ran' = ran
    BY <1>5 DEF MarkJobCompleted, MarkJobCompletedFaulty
  <2>2. CASE UNCHANGED row
    BY <2>1, <2>2 DEF row
  <2>3. CASE WriteCompleted(j) /\ status[j] = "gone"
    BY <2>1, <2>3 DEF WriteCompleted
  <2>4. CASE WriteCompleted(j) /\ status[j] # "gone"
    <3>1. status[j] # "absent" /\ j \in ran
      BY <2>1 DEF PollsConsistent
    <3>2. status' = [status EXCEPT ![j] = "completed"] /\ retryCount' = retryCount
      BY <2>4 DEF WriteCompleted
    <3>3. Delivery!Complete(j)
      BY <2>1, <2>4, <3>1, <3>2 DEF Delivery!Complete, Delivery!Settle
    <3> QED
      BY <3>3 DEF Delivery!Next
  <2> QED
    BY <1>5, <2>2, <2>3, <2>4 DEF MarkJobCompleted, MarkJobCompletedFaulty
<1>6. ASSUME NEW p \in Polls, NEW j \in Jobs,
             MarkJobFailed(p, j) \/ MarkJobFailedFaulty(p, j)
      PROVE  Stutters \/ Delivery!Next
  <2>1. phase[p][j] = "threw" /\ ran' = ran
    BY <1>6 DEF MarkJobFailed, MarkJobFailedFaulty
  <2>2. CASE UNCHANGED row \/ (WriteFailed(j, snap[p][j]) /\ status[j] = "gone")
    BY <2>1, <2>2 DEF row, WriteFailed
  <2>3. CASE WriteFailed(j, snap[p][j]) /\ status[j] # "gone"
    <3>1. status[j] # "absent" /\ snap[p][j] <= retryCount[j]
      BY <2>1 DEF PollsConsistent
    <3>2. retryCount' = [retryCount EXCEPT ![j] = @ + 1]
      BY <2>3 DEF WriteFailed
    <3>3. Delivery!CountFailure(j)
      BY <2>1, <2>3, <3>1, <3>2 DEF Delivery!CountFailure
    <3>4. CASE snap[p][j] + 1 >= MaxRetries[j]
      <4>1. status' = [status EXCEPT ![j] = "failed"]
        BY <2>3, <3>4 DEF WriteFailed
      <4>2. Delivery!Settle(j)
        BY <2>3, <3>1, <4>1 DEF Delivery!Settle
      <4>3. retryCount[j] + 1 >= MaxRetries[j]
        BY <3>1, <3>4, AttributesAssumption
      <4> QED
        BY <3>3, <4>2, <4>3 DEF Delivery!GiveUp, Delivery!Next
    <3>5. CASE ~(snap[p][j] + 1 >= MaxRetries[j])
      <4>1. status' = status
        BY <2>3, <3>5 DEF WriteFailed
      <4> QED
        BY <3>3, <4>1 DEF Delivery!Next
    <3> QED
      BY <3>4, <3>5
  <2> QED
    BY <1>6, <2>2, <2>3 DEF MarkJobFailed, MarkJobFailedFaulty
<1>7. CASE CleanupOldJobs
  <2>1. Delivery!Purge(Old)
    BY <1>7 DEF CleanupOldJobs, Old, RowsConsistent, Delivery!Purge
  <2>2. Old \in SUBSET Jobs
    BY DEF Old
  <2>3. \E js \in SUBSET Jobs : Delivery!Purge(js)
    BY <2>1, <2>2 DEF Delivery!Purge
  <2> QED
    BY <2>3 DEF Delivery!Next
<1>8. ASSUME NEW p \in Polls, NEW j \in Jobs, HandlerThrows(p, j)
      PROVE  Stutters
  BY <1>8 DEF HandlerThrows, row
<1>9. ASSUME NEW j \in Jobs, BackoffEnds(j) \/ LockExpires(j) \/ RetentionEnds(j)
      PROVE  Stutters
  BY <1>9 DEF BackoffEnds, LockExpires, RetentionEnds
<1>10. ASSUME NEW p \in Polls, ClaimSelect(p) \/ ClaimUpdate(p) \/ ClaimAnswerLost(p) \/ Crash(p)
       PROVE  Stutters
  BY <1>10 DEF ClaimSelect, ClaimUpdate, ClaimAnswerLost, LockTaken, Crash, row
<1> QED
  BY <1>1, <1>3, <1>4, <1>5, <1>6, <1>7, <1>8, <1>9, <1>10 DEF Next, PollStep, vars, row

\* The queue implements at-least-once delivery.
THEOREM DeliversAtLeastOnce == Spec => ImplementsDelivery
  BY InitDelivers, StepDelivers, Inductive, PTL DEF Spec, Delivery!Spec, ImplementsDelivery
=============================================================================
