----------------------------- MODULE QueueProofs -----------------------------
(* Proof that each project's queue is first in, first out: PromotionIsFIFO,   *)
(* for every value of the constants.                                          *)
EXTENDS ExclusionProofs

-----------------------------------------------------------------------------
(* Rows are created in order, so that a row younger than all others cannot    *)
(* get in front of one that a promotion has selected.                         *)

RowsInOrder == \A i, j \in Jobs : i < j /\ j \in Rows => i \in Rows

(* The older queued rows a promotion has skipped stay locked until it commits *)
(* or are promoted themselves: it needs a rollback or a shutdown to unlock a  *)
(* row that is still queued.                                                  *)
SkippedAreLocked ==
    "db" \notin Faults /\ daemon # "stopping" =>
        \A w \in Workers : stage[w] = "promoting" =>
            \A i \in Jobs :
                /\ i < job[w]
                /\ status[i] = "QUEUED" /\ project[i] = project[job[w]]
                => i \in locked

QueueInv == RowsInOrder /\ SkippedAreLocked

-----------------------------------------------------------------------------
(* What a step does to the rows: it keeps their project, queues none again,   *)
(* makes a queued one ready only in a promotion that selected it, and adds at *)
(* most the next one.                                                         *)

RowStep ==
    /\ \A j \in Rows :
        /\ project'[j] = project[j] /\ status'[j] # "NONE"
        /\ status'[j] # status[j] =>
            /\ status'[j] # "QUEUED"
            /\ status'[j] = "PENDING_PLAN" =>
                \E w \in Workers : stage[w] = "promoting" /\ job[w] = j
    /\ \A j \in Jobs \ Rows :
        status'[j] # "NONE" => \A i \in Jobs : i < j => i \in Rows

LEMMA SameTable ==
    ASSUME UNCHANGED <<status, project>>
    PROVE  RowStep
  BY DEF RowStep, Rows

LEMMA OneRowWritten ==
    ASSUME TypeInv, NEW j \in Rows, NEW s, s \notin {"NONE", "QUEUED"},
           status' = [status EXCEPT ![j] = s], project' = project,
           s = "PENDING_PLAN" /\ status[j] # s =>
               \E w \in Workers : stage[w] = "promoting" /\ job[w] = j
    PROVE  RowStep
  BY DEF TypeInv, TypeOK, StoreTypeOK, RowStep, Rows

LEMMA WorkerMovesRows ==
    ASSUME TypeInv, PlanInv, ExclusionInv, NEW w \in Workers,
           WorkerStep(w) \/ AbandonStep(w)
    PROVE  RowStep
  <1>1. stage[w] # "idle" => job[w] \in Rows
    BY DEF PlanInv, BusyHasRow
  <1>2. ASSUME stage[w] = "claiming", CommitRow(job[w], ClaimedStatus(job[w]))
        PROVE  RowStep
    <2>1. job[w] \in Rows /\ status[job[w]] \in ClaimableStatuses
      BY <1>1, <1>2 DEF ExclusionInv, SelectedStatus
    <2>2. ClaimedStatus(job[w]) \in {"PLANNING", "APPLYING", "DESTROYING", status[job[w]]}
      BY DEF ClaimedStatus
    <2>3. /\ ClaimedStatus(job[w]) \notin {"NONE", "QUEUED"}
          /\ ClaimedStatus(job[w]) = "PENDING_PLAN" =>
                ClaimedStatus(job[w]) = status[job[w]]
      BY <2>1, <2>2 DEF ClaimableStatuses
    <2> QED
      BY <1>2, <2>1, <2>3, OneRowWritten DEF CommitRow
  <1>3. CASE CommitClaim(w)
    BY <1>2, <1>3 DEF CommitClaim
  <1>4. CASE LoseClaim(w)
    <2>1. CASE Rollback(job[w])
      BY <2>1, SameTable DEF Rollback
    <2>2. CASE CommitRow(job[w], ClaimedStatus(job[w]))
      BY <1>2, <1>4, <2>2 DEF LoseClaim
    <2> QED
      BY <1>4, <2>1, <2>2 DEF LoseClaim
  <1>5. CASE Finish(w)
    <2>1. /\ job[w] \in Rows
          /\ status' = [status EXCEPT ![job[w]] = ResultStatus(job[w])]
          /\ project' = project
      BY <1>1, <1>5 DEF Finish, UpdateJobStatus
    <2>2. ResultStatus(job[w]) \in {"APPLIED", "PLANNED"}
      BY DEF ResultStatus
    <2> QED
      BY <2>1, <2>2, OneRowWritten
  <1>6. CASE MarkFailed(w)
    BY <1>1, <1>6, OneRowWritten, SameTable DEF MarkFailed, UpdateJobStatus, storeVars
  <1>7. CASE CommitPromotion(w)
    BY <1>1, <1>7, OneRowWritten DEF CommitPromotion, CommitRow
  <1>8. CASE UNCHANGED <<status, project>>
    BY <1>8, SameTable
  <1> QED
    BY <1>3, <1>4, <1>5, <1>6, <1>7, <1>8
    DEF WorkerStep, AbandonStep, LockClaim, ClaimFails, Setup, Initialise, LockState,
        UnlockState, CheckCancelled, UploadPlan, RunFails, CleanUp, LockPromotion,
        SkipPromotion, PromotionFails, LosePromotion, AbandonRun, LockRow, Rollback,
        storeVars

LEMMA RequestMovesRows ==
    ASSUME TypeInv, PlanInv, NEW c \in Clients, StartRequest(c) \/ EndRequest(c)
    PROVE  RowStep
  <1>1. CASE StartRequest(c) \/ DropRequest(c)
    BY <1>1, SameTable DEF StartRequest, StartCreate, StartApprove, StartDiscard,
                           StartUnlock, Decide, DropRequest, storeVars
  <1>2. CASE FinishCreate(c)
    <2>1. CASE UNCHANGED storeVars
      BY <2>1, SameTable DEF storeVars
    <2>2. CASE CreateJob(req[c].project, req[c].operation, req[c].status)
      BY <2>2 DEF CreateJob, RowStep, Rows, Jobs, TypeInv, TypeOK, StoreTypeOK
    <2> QED
      BY <1>2, <2>1, <2>2 DEF FinishCreate
  <1>3. CASE FinishUpdate(c)
    <2>1. req[c] \in Updates
      BY <1>3 DEF FinishUpdate, TypeInv, TypeOK, ApiTypeOK, NoRequest, Inserts
    <2>2. req[c].job \in Rows /\ req[c].status \in {"APPROVED", "CANCELLED"}
      BY <2>1 DEF PlanInv, PendingHold, UpdatesHaveRow, Updates
    <2> QED
      BY <1>3, <2>2, OneRowWritten DEF FinishUpdate, UpdateJobStatus
  <1> QED
    BY <1>1, <1>2, <1>3 DEF EndRequest

LEMMA StepMovesRows ==
    ASSUME TypeInv, PlanInv, ExclusionInv, [Next]_vars
    PROVE  RowStep
  <1>1. ASSUME NEW w \in Workers, Work(w) \/ Abandon(w) PROVE RowStep
    BY <1>1, WorkerMovesRows DEF Work, Abandon
  <1>2. ASSUME NEW c \in Clients, StartRequest(c) \/ EndRequest(c) PROVE RowStep
    BY <1>2, RequestMovesRows
  <1>3. CASE RecoverJob
    <2>1. \A j \in stale : j \in Rows
      BY DEF PlanInv, PendingHold
    <2> QED
      BY <1>3, <2>1, OneRowWritten, SameTable DEF RecoverJob, UpdateJobStatus, storeVars
  <1>4. CASE CleanupTick
    BY <1>4 DEF CleanupTick, FailTimedOutJobs, RowStep, Rows
  <1>5. CASE Start \/ FetchStale \/ RecoveryDone \/ Exit \/ TimePasses \/ Shutdown
             \/ Crash \/ UNCHANGED vars
    BY <1>5, SameTable
    DEF Start, FetchStale, RecoveryDone, Exit, TimePasses, Age, Shutdown, Crash, vars,
        storeVars
  <1> QED
    BY <1>1, <1>2, <1>3, <1>4, <1>5 DEF Next, DaemonStep

-----------------------------------------------------------------------------
(* What a step does to the locks and the promotions while no statement fails  *)
(* and the process is not stopping: a promotion that is open after it was     *)
(* open before or has just selected its row, and a row that loses its lock    *)
(* leaves the queue.                                                          *)

LockStep ==
    /\ \A w \in Workers : stage'[w] = "promoting" =>
        \/ stage[w] = "promoting" /\ job'[w] = job[w]
        \/ FirstUnlocked(QueuedJobs(project[job[w]]), job'[w])
    /\ \A i \in locked \ locked' : status'[i] # "QUEUED"

LEMMA SameLocks ==
    ASSUME UNCHANGED locked,
           \A w \in Workers : stage'[w] = "promoting" =>
               stage[w] = "promoting" /\ job'[w] = job[w]
    PROVE  LockStep
  BY DEF LockStep

LEMMA WorkerMovesLocks ==
    ASSUME TypeInv, ExclusionInv, NEW w \in Workers, WorkerStep(w), "db" \notin Faults
    PROVE  LockStep
  <1> USE DEF TypeInv, TypeOK, StoreTypeOK, WorkerTypeOK, BusyHasJob
  <1>1. CASE LockClaim(w) \/ LockPromotion(w)
    BY <1>1 DEF LockClaim, LockPromotion, LockRow, LockStep
  <1>2. CASE CommitClaim(w)
    <2>1. job[w] \in Jobs /\ status[job[w]] \in ClaimableStatuses
      BY <1>2 DEF CommitClaim, ExclusionInv, SelectedStatus
    <2>2. ClaimedStatus(job[w]) # "QUEUED"
      BY <2>1 DEF ClaimedStatus, ClaimableStatuses
    <2> QED
      BY <1>2, <2>1, <2>2 DEF CommitClaim, CommitRow, Goto, LockStep
  <1>3. CASE CommitPromotion(w)
    BY <1>3 DEF CommitPromotion, CommitRow, BackToLoop, LockStep
  <1>4. CASE (UNCHANGED locked) /\ (Goto(w, stage'[w]) \/ BackToLoop(w))
                /\ stage'[w] # "promoting"
    BY <1>4, SameLocks DEF Goto, BackToLoop
  <1>5. CASE Setup(w) \/ Initialise(w) \/ LockState(w) \/ UnlockState(w)
             \/ CheckCancelled(w) \/ UploadPlan(w) \/ Finish(w) \/ RunFails(w)
             \/ CleanUp(w) \/ MarkFailed(w) \/ SkipPromotion(w)
    BY <1>4, <1>5
    DEF Setup, Initialise, LockState, UnlockState, CheckCancelled, AfterCheck,
        UploadPlan, Finish, RunFails, CleanUp, MarkFailed, SkipPromotion,
        UpdateJobStatus, storeVars, Goto, BackToLoop
  <1> QED
    BY <1>1, <1>2, <1>3, <1>5 DEF WorkerStep, ClaimFails, PromotionFails

LEMMA StepMovesLocks ==
    ASSUME TypeInv, ExclusionInv, [Next]_vars, "db" \notin Faults,
           daemon' # "stopping",
           NEW w \in Workers, stage'[w] = "promoting"
    PROVE  daemon # "stopping" /\ LockStep
  <1>1. CASE \E v \in Workers : Work(v) \/ Abandon(v)
    BY <1>1, WorkerMovesLocks DEF Work, Abandon, daemonVars, Running
  <1>2. CASE \E c \in Clients : StartRequest(c) \/ EndRequest(c)
    BY <1>2, SameLocks
    DEF StartRequest, EndRequest, StartCreate, StartApprove, StartDiscard,
        StartUnlock, Decide, DropRequest, FinishCreate, FinishUpdate, CreateJob,
        UpdateJobStatus, storeVars, workerVars, daemonVars
  <1>3. CASE Exit \/ Crash
    BY <1>3 DEF Exit, Crash, workerVars
  <1>4. CASE Start \/ FetchStale \/ RecoverJob \/ RecoveryDone \/ CleanupTick
             \/ TimePasses \/ Shutdown \/ UNCHANGED vars
    BY <1>4, SameLocks
    DEF Start, FetchStale, RecoverJob, RecoveryDone, CleanupTick, FailTimedOutJobs,
        TimePasses, Age, Shutdown, UpdateJobStatus, vars, storeVars, workerVars,
        daemonVars
  <1> QED
    BY <1>1, <1>2, <1>3, <1>4 DEF Next, DaemonStep

-----------------------------------------------------------------------------
(* The invariant and the theorem *)

LEMMA StepKeepsOrder ==
    ASSUME TypeInv, RowsInOrder, RowStep
    PROVE  RowsInOrder'
  BY DEF RowsInOrder, RowStep, Rows

LEMMA StepKeepsSkipped ==
    ASSUME TypeInv, PlanInv, ExclusionInv, QueueInv, RowStep, [Next]_vars
    PROVE  SkippedAreLocked'
  <1> SUFFICES ASSUME "db" \notin Faults, daemon' # "stopping",
                      NEW w \in Workers, stage'[w] = "promoting",
                      NEW i \in Jobs, i < job'[w], status'[i] = "QUEUED",
                      project'[i] = project'[job'[w]]
               PROVE  i \in locked'
    BY DEF SkippedAreLocked
  <1>1. daemon # "stopping" /\ LockStep
    BY StepMovesLocks
  <1>2. job'[w] \in Rows
    BY <1>1 DEF LockStep, FirstUnlocked, QueuedJobs, PlanInv, BusyHasRow
  <1>3. i \in Rows
    BY <1>2 DEF QueueInv, RowsInOrder, Rows
  <1>4. status[i] = "QUEUED" /\ project[i] = project[job'[w]]
    BY <1>2, <1>3 DEF RowStep
  <1>5. i \in locked
    <2>1. CASE stage[w] = "promoting" /\ job'[w] = job[w]
      BY <1>1, <1>4, <2>1 DEF QueueInv, SkippedAreLocked
    <2>2. CASE FirstUnlocked(QueuedJobs(project[job[w]]), job'[w])
      <3>1. i \in QueuedJobs(project[job[w]])
        BY <1>3, <1>4, <2>2 DEF FirstUnlocked, QueuedJobs
      <3>2. ~(job'[w] <= i)
        BY <1>2 DEF Rows, Jobs
      <3> QED
        BY <2>2, <3>1, <3>2 DEF FirstUnlocked
    <2> QED
      BY <1>1, <2>1, <2>2 DEF LockStep
  <1> QED
    BY <1>1, <1>5 DEF LockStep

LEMMA InitHasQueue == Init => QueueInv
  BY DEF Init, StoreInit, WorkerInit, QueueInv, RowsInOrder, SkippedAreLocked, Rows

(* A promotion never overtakes an older queued job of the same project, but   *)
(* for one another worker is promoting: neither a request, the clean-up, a    *)
(* claim nor another worker unlocks a row that promotions have skipped.       *)
THEOREM PromotionIsFIFOHolds == Spec => PromotionIsFIFO
  <1> DEFINE I == TypeInv /\ PlanInv /\ LockInv /\ ExclusionInv /\ QueueInv
             Overtakes(i, j) ==
                 /\ i < j
                 /\ status[j] = "QUEUED" /\ status'[j] = "PENDING_PLAN"
                 /\ status[i] = "QUEUED" /\ project[i] = project[j]
             A == "db" \notin Faults /\ daemon # "stopping" =>
                      \A i, j \in Jobs : Overtakes(i, j) => i \in locked
  <1>1. Init => I
    BY InitHasTypes, InitHasPlans, InitHasLocks, InitHasExclusion, InitHasQueue
  <1>2. I /\ [Next]_vars => I'
    BY StepKeepsTypes, StepKeepsPlans, StepKeepsLocks, StepKeepsExclusion,
       StepMovesRows, StepKeepsOrder, StepKeepsSkipped DEF QueueInv
  <1>3. I /\ [Next]_vars => A
    <2> SUFFICES ASSUME I, [Next]_vars, "db" \notin Faults, daemon # "stopping",
                        NEW i \in Jobs, NEW j \in Jobs, Overtakes(i, j)
                 PROVE  i \in locked
      OBVIOUS
    <2>1. PICK w \in Workers : stage[w] = "promoting" /\ job[w] = j
      BY StepMovesRows DEF RowStep, Rows
    <2> QED
      BY <2>1 DEF QueueInv, SkippedAreLocked
  <1>4. I /\ [Next]_vars => [A]_vars
    BY <1>3
  <1> QED
    BY <1>1, <1>2, <1>4, PTL DEF Spec, PromotionIsFIFO

=============================================================================
