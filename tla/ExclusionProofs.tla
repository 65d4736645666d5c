--------------------------- MODULE ExclusionProofs ---------------------------
(* Proofs that row locks and claims keep workers apart: LockedByOne and       *)
(* ExclusiveRun, for every value of the constants.                            *)
EXTENDS OrchestratorProofs, FiniteSetTheorems

-----------------------------------------------------------------------------
(* Row locks.  A worker in a transaction holds the row it works on, no two    *)
(* hold the same, and no row is locked without a holder.                      *)

InTransaction == {"claiming", "promoting"}

HoldersHold == \A w \in Workers : stage[w] \in InTransaction => job[w] \in locked

HoldersDiffer ==
    \A v, w \in Workers :
        v # w /\ stage[v] \in InTransaction /\ stage[w] \in InTransaction =>
            job[v] # job[w]

LocksHeld ==
    \A j \in locked : \E w \in Workers : stage[w] \in InTransaction /\ job[w] = j

LockInv == HoldersHold /\ HoldersDiffer /\ LocksHeld

LEMMA WorkerKeepsLocks ==
    ASSUME TypeInv, LockInv, NEW w \in Workers, WorkerStep(w) \/ AbandonStep(w)
    PROVE  LockInv'
<1> USE DEF LockInv, HoldersHold, HoldersDiffer, LocksHeld, InTransaction
<1>1. stage \in [Workers -> Stages] /\ job \in [Workers -> Jobs \union {0}]
  BY DEF TypeInv, TypeOK, WorkerTypeOK
(* a turn outside a transaction *)
<1>2. ASSUME stage[w] \notin InTransaction, locked' = locked,
             NEW s, s \notin InTransaction, stage' = [stage EXCEPT ![w] = s],
             NEW j, job' = [job EXCEPT ![w] = j]
      PROVE  LockInv'
  BY <1>1, <1>2
(* the end of a transaction *)
<1>3. ASSUME stage[w] \in InTransaction, locked' = locked \ {job[w]},
             NEW s, s \notin InTransaction, stage' = [stage EXCEPT ![w] = s],
             NEW j, job' = [job EXCEPT ![w] = j]
      PROVE  LockInv'
  BY <1>1, <1>3
(* the start of a transaction *)
<1>4. ASSUME stage[w] \notin InTransaction,
             NEW j \in Jobs, j \notin locked, locked' = locked \union {j},
             NEW s, s \in InTransaction, stage' = [stage EXCEPT ![w] = s],
             job' = [job EXCEPT ![w] = j]
      PROVE  LockInv'
  BY <1>1, <1>4
<1>5. job = [job EXCEPT ![w] = job[w]]
  BY <1>1
<1>6. CASE LockClaim(w)
  BY <1>4, <1>6 DEF LockClaim, FirstUnlocked, LockRow
<1>7. CASE CommitClaim(w)
  BY <1>3, <1>5, <1>7 DEF CommitClaim, CommitRow, Goto
<1>8. CASE LoseClaim(w)
  BY <1>3, <1>8 DEF LoseClaim, CommitRow, Rollback, BackToLoop
<1>9. CASE Setup(w) \/ Initialise(w) \/ LockState(w) \/ UnlockState(w)
           \/ CheckCancelled(w) \/ UploadPlan(w) \/ RunFails(w) \/ CleanUp(w)
  <2>1. PICK s \in Stages \ InTransaction : Goto(w, s)
    BY <1>9
    DEF Setup, Initialise, LockState, UnlockState, CheckCancelled, AfterCheck,
        UploadPlan, RunFails, CleanUp, Stages, Executing
  <2>2. stage[w] \notin InTransaction /\ locked' = locked
    BY <1>9
    DEF Setup, Initialise, LockState, UnlockState, CheckCancelled, UploadPlan,
        RunFails, CleanUp, Executing, storeVars
  <2> QED  BY <1>2, <1>5, <2>1, <2>2 DEF Goto
<1>10. CASE Finish(w)
  BY <1>2, <1>5, <1>10 DEF Finish, UpdateJobStatus, Goto
<1>11. CASE MarkFailed(w)
  BY <1>2, <1>5, <1>11 DEF MarkFailed, UpdateJobStatus, Goto, storeVars
<1>12. CASE LockPromotion(w)
  BY <1>4, <1>12 DEF LockPromotion, FirstUnlocked, LockRow
<1>13. CASE SkipPromotion(w)
  BY <1>2, <1>13 DEF SkipPromotion, BackToLoop, storeVars
<1>14. CASE CommitPromotion(w)
  BY <1>3, <1>14 DEF CommitPromotion, CommitRow, BackToLoop
<1>15. CASE LosePromotion(w)
  BY <1>3, <1>15 DEF LosePromotion, Rollback, BackToLoop
<1>16. CASE AbandonRun(w)
  BY <1>2, <1>16 DEF AbandonRun, BackToLoop, storeVars
<1> QED
  BY <1>6, <1>7, <1>8, <1>9, <1>10, <1>11, <1>12, <1>13, <1>14, <1>15, <1>16
  DEF WorkerStep, AbandonStep, ClaimFails, PromotionFails

LEMMA StepKeepsLocks == TypeInv /\ LockInv /\ [Next]_vars => LockInv'
<1> SUFFICES ASSUME TypeInv, LockInv, [Next]_vars  PROVE LockInv'
  OBVIOUS
<1>1. UNCHANGED <<stage, job, locked>> => LockInv'
  BY DEF LockInv, HoldersHold, HoldersDiffer, LocksHeld
<1>2. ASSUME NEW w \in Workers, Work(w) \/ Abandon(w)  PROVE LockInv'
  BY <1>2, WorkerKeepsLocks DEF Work, Abandon
<1>3. CASE Crash
  BY <1>3 DEF Crash, LockInv, HoldersHold, HoldersDiffer, LocksHeld, InTransaction
<1>4. ASSUME NEW c \in Clients, StartRequest(c) \/ EndRequest(c)
      PROVE  UNCHANGED <<stage, job, locked>>
  BY <1>4
  DEF StartRequest, EndRequest, StartCreate, StartApprove, StartDiscard, StartUnlock,
      Decide, FinishCreate, CreateJob, FinishUpdate, UpdateJobStatus, DropRequest,
      workerVars, storeVars
<1>5. CASE DaemonStep \/ TimePasses \/ Shutdown \/ UNCHANGED vars
  BY <1>1, <1>5
  DEF DaemonStep, Start, FetchStale, RecoverJob, UpdateJobStatus, RecoveryDone,
      CleanupTick, FailTimedOutJobs, Exit, TimePasses, Age, Shutdown, vars,
      workerVars, storeVars
<1> QED  BY <1>1, <1>2, <1>3, <1>4, <1>5 DEF Next

LEMMA InitHasLocks == Init => LockInv
BY DEF Init, StoreInit, WorkerInit, LockInv, HoldersHold, HoldersDiffer, LocksHeld,
       InTransaction

LEMMA LocksCorrect == Spec => [](TypeInv /\ LockInv)
<1>1. Init => TypeInv /\ LockInv
  BY InitHasTypes, InitHasLocks
<1>2. TypeInv /\ LockInv /\ [Next]_vars => TypeInv' /\ LockInv'
  BY StepKeepsTypes, StepKeepsLocks
<1> QED  BY <1>1, <1>2, PTL DEF Spec

(* Every locked row has exactly one worker in a transaction on it, and every  *)
(* worker in a transaction has its row locked.                                *)
THEOREM LockedByOneHolds == Spec => []LockedByOne
<1>1. LockInv => LockedByOne
  <2> SUFFICES ASSUME LockInv, NEW j \in Jobs
               PROVE  LET holders == {w \in Workers :
                              job[w] = j /\ stage[w] \in {"claiming", "promoting"}}
                      IN  IF j \in locked THEN Cardinality(holders) = 1
                                          ELSE holders = {}
    BY DEF LockedByOne
  <2> DEFINE holders == {w \in Workers :
                             job[w] = j /\ stage[w] \in {"claiming", "promoting"}}
  <2> USE DEF LockInv, HoldersHold, HoldersDiffer, LocksHeld, InTransaction
  <2>1. CASE j \in locked
    <3>1. PICK w \in Workers : w \in holders
      BY <2>1
    <3>2. holders = {w}
      BY <3>1
    <3> QED  BY <2>1, <3>2, FS_Singleton
  <2>2. CASE j \notin locked
    BY <2>2
  <2> QED  BY <2>1, <2>2
<1> QED  BY <1>1, LocksCorrect, PTL

-----------------------------------------------------------------------------
(* Exclusive runs.  For jobs a handler knows they are inductive with what the *)
(* rows look like: a row in a transaction still has the status it was         *)
(* selected for, since every other write waits for its lock; and a job that   *)
(* runs, and was not overtaken by an approval, has a status nothing claims,   *)
(* promotes or approves.  A job of unknown operation has no such status; what *)
(* keeps its runs harmless is that none gets past init (OnlyPlansRun).        *)

RunStatuses == StaleStatuses \union {"CANCELLED", "FAILED"}

SelectedStatus ==
    \A w \in Workers :
        /\ stage[w] = "claiming" => status[job[w]] \in ClaimableStatuses
        /\ stage[w] = "promoting" => status[job[w]] = "QUEUED"

RunningStatus ==
    \A w \in Workers :
        stage[w] \in Executing /\ KnownOperation(job[w]) /\ job[w] \notin overtaken =>
            status[job[w]] \in RunStatuses

KnownExclusive ==
    \A v, w \in Workers :
        /\ v # w
        /\ stage[v] \in Executing
        /\ stage[w] \in Executing
        /\ job[v] = job[w]
        /\ KnownOperation(job[v])
        => job[v] \in overtaken

ExclusionInv == SelectedStatus /\ RunningStatus /\ KnownExclusive

LEMMA WorkerKeepsExclusion ==
    ASSUME TypeInv, LockInv, ExclusionInv, NEW w \in Workers,
           WorkerStep(w) \/ AbandonStep(w), UNCHANGED apiVars
    PROVE  ExclusionInv'
<1>1. /\ stage \in [Workers -> Stages]
      /\ job \in [Workers -> Jobs \union {0}]
      /\ status \in [Jobs -> JobStatus \union {"NONE"}]
      /\ stage[w] # "idle" => job[w] \in Jobs
      /\ overtaken' = overtaken
  BY DEF TypeInv, TypeOK, WorkerTypeOK, StoreTypeOK, BusyHasJob, apiVars
<1>others. /\ \A v \in Workers \ {w} : stage'[v] = stage[v] /\ job'[v] = job[v]
      /\ operation' = operation
  BY <1>1
  DEF WorkerStep, AbandonStep, LockClaim, CommitClaim, ClaimFails, LoseClaim, Setup,
      Initialise, LockState, UnlockState, CheckCancelled, UploadPlan, Finish, RunFails,
      CleanUp, MarkFailed, LockPromotion, SkipPromotion, CommitPromotion,
      PromotionFails, LosePromotion, AbandonRun, Goto, BackToLoop, LockRow, CommitRow,
      Rollback, UpdateJobStatus, storeVars
(* a move that starts neither a run nor a transaction and writes nothing *)
<1>2. ASSUME status' = status, stage'[w] \notin InTransaction,
             stage'[w] \in Executing => stage[w] \in Executing /\ job'[w] = job[w]
      PROVE  ExclusionInv'
  BY <1>others, <1>1, <1>2 DEF InTransaction, ExclusionInv, SelectedStatus, RunningStatus,
                    KnownExclusive, KnownOperation
(* the start of a transaction *)
<1>3. ASSUME status' = status, stage'[w] \in InTransaction,
             stage'[w] = "claiming" => status[job'[w]] \in ClaimableStatuses,
             stage'[w] = "promoting" => status[job'[w]] = "QUEUED"
      PROVE  ExclusionInv'
  BY <1>others, <1>1, <1>3 DEF InTransaction, Executing, ExclusionInv, SelectedStatus,
                    RunningStatus, KnownExclusive, KnownOperation
(* a write to w's row by which w ends a run, a failure or a transaction *)
<1>4. ASSUME NEW t, status' = [status EXCEPT ![job[w]] = t], stage[w] # "idle",
             stage'[w] \notin InTransaction, stage'[w] \notin Executing,
             job[w] \notin locked \/ stage[w] \in InTransaction,
             \/ t \in RunStatuses \union {status[job[w]]}
             \/ stage[w] \in Executing
             \/ status[job[w]] \notin RunStatuses
      PROVE  ExclusionInv'
  <2> USE DEF ExclusionInv, SelectedStatus, RunningStatus, KnownExclusive, KnownOperation
  <2>1. \A v \in Workers \ {w} :
            stage[v] \in InTransaction => status'[job[v]] = status[job[v]]
    BY <1>others, <1>1, <1>4 DEF LockInv, HoldersHold, HoldersDiffer
  <2>2. SelectedStatus'
    BY <1>others, <1>1, <1>4, <2>1 DEF InTransaction
  <2>3. RunningStatus'
    BY <1>others, <1>1, <1>4, <2>1
  <2>4. KnownExclusive'
    BY <1>others, <1>1, <1>4, <2>1
  <2> QED  BY <2>2, <2>3, <2>4
<1>5. ASSUME stage[w] = "claiming"
      PROVE  /\ status[job[w]] \in ClaimableStatuses
             /\ status[job[w]] \notin RunStatuses
             /\ KnownOperation(job[w]) => ClaimedStatus(job[w]) \in RunStatuses
  BY <1>5 DEF ClaimableStatuses, RunStatuses, StaleStatuses, ClaimedStatus,
              ExclusionInv, SelectedStatus, KnownOperation
<1>6. CASE LockClaim(w)
  BY <1>1, <1>3, <1>6 DEF LockClaim, LockRow, FirstUnlocked, ClaimableJobs, InTransaction
<1>7. CASE CommitClaim(w)
  <2> USE DEF ExclusionInv, SelectedStatus, RunningStatus, KnownExclusive, KnownOperation
  <2>1. /\ stage[w] = "claiming"
        /\ status' = [status EXCEPT ![job[w]] = ClaimedStatus(job[w])]
        /\ stage' = [stage EXCEPT ![w] = "setup"]
        /\ job' = job /\ operation' = operation
    BY <1>1, <1>7 DEF CommitClaim, CommitRow, Goto
  <2>2. \A v \in Workers \ {w} :
            /\ stage'[v] = stage[v] /\ job'[v] = job[v]
            /\ stage[v] \in InTransaction => job[v] # job[w]
            /\ stage[v] \in Executing /\ KnownOperation(job[v]) /\ job[v] \notin overtaken
                  => job[v] # job[w]
    BY <1>1, <1>5, <2>1 DEF LockInv, HoldersDiffer, InTransaction
  <2>3. SelectedStatus'
    BY <1>1, <2>1, <2>2 DEF InTransaction
  <2>4. RunningStatus'
    BY <1>1, <1>5, <2>1, <2>2
  <2>5. KnownExclusive'
    BY <1>1, <2>1, <2>2
  <2> QED  BY <1>1, <2>3, <2>4, <2>5
<1>8. CASE LoseClaim(w)
  <2>1. stage[w] = "claiming" /\ BackToLoop(w)
    BY <1>1, <1>8 DEF LoseClaim
  <2>2. CASE Rollback(job[w])
    BY <1>1, <1>2, <2>1, <2>2 DEF BackToLoop, Rollback, InTransaction, Executing
  <2>3. CASE CommitRow(job[w], ClaimedStatus(job[w]))
    BY <1>1, <1>4, <1>5, <2>1, <2>3 DEF BackToLoop, CommitRow, InTransaction, Executing
  <2> QED  BY <1>1, <1>8, <2>2, <2>3 DEF LoseClaim
<1>9. CASE Setup(w) \/ Initialise(w) \/ LockState(w) \/ UnlockState(w)
           \/ CheckCancelled(w) \/ UploadPlan(w) \/ RunFails(w) \/ CleanUp(w)
  <2>1. PICK s \in Stages \ InTransaction :
            Goto(w, s) /\ (s \in Executing => stage[w] \in Executing)
    BY <1>1, <1>9
    DEF Setup, Initialise, LockState, UnlockState, CheckCancelled, AfterCheck,
        UploadPlan, RunFails, CleanUp, Stages, Executing, InTransaction
  <2>2. UNCHANGED <<status, operation>>
    BY <1>1, <1>9
    DEF Setup, Initialise, LockState, UnlockState, CheckCancelled, UploadPlan,
        RunFails, CleanUp, storeVars
  <2> QED  BY <1>1, <1>2, <2>1, <2>2 DEF Goto
<1>10. CASE Finish(w)
  <2>1. PICK s \in {"done", "abort"} : Goto(w, s)
    BY <1>1, <1>10 DEF Finish
  <2> QED
    BY <1>1, <1>4, <1>10, <2>1
    DEF Finish, UpdateJobStatus, Goto, InTransaction, Executing
<1>11. CASE MarkFailed(w)
  <2>1. CASE UpdateJobStatus(job[w], "FAILED")
    BY <1>1, <1>4, <1>11, <2>1
    DEF MarkFailed, UpdateJobStatus, Goto, InTransaction, Executing, RunStatuses
  <2>2. CASE UNCHANGED storeVars
    BY <1>1, <1>2, <1>11, <2>2 DEF MarkFailed, Goto, InTransaction, Executing, storeVars
  <2> QED  BY <1>1, <1>11, <2>1, <2>2 DEF MarkFailed
<1>12. CASE LockPromotion(w)
  BY <1>1, <1>3, <1>12 DEF LockPromotion, LockRow, FirstUnlocked, QueuedJobs, InTransaction
<1>13. CASE SkipPromotion(w)
  BY <1>1, <1>2, <1>13 DEF SkipPromotion, BackToLoop, storeVars, InTransaction, Executing
<1>14. CASE CommitPromotion(w)
  <2>1. status[job[w]] \notin RunStatuses
    BY <1>1, <1>14 DEF CommitPromotion, RunStatuses, StaleStatuses, ExclusionInv,
                 SelectedStatus
  <2> QED
    BY <1>1, <1>4, <1>14, <2>1
    DEF CommitPromotion, CommitRow, BackToLoop, InTransaction, Executing
<1>15. CASE LosePromotion(w)
  BY <1>1, <1>2, <1>15 DEF LosePromotion, Rollback, BackToLoop, InTransaction, Executing
<1>16. CASE AbandonRun(w)
  BY <1>1, <1>2, <1>16 DEF AbandonRun, BackToLoop, storeVars, InTransaction, Executing
<1> QED
  BY <1>6, <1>7, <1>8, <1>9, <1>10, <1>11, <1>12, <1>13, <1>14, <1>15, <1>16
  DEF WorkerStep, AbandonStep, ClaimFails, PromotionFails

LEMMA StepKeepsExclusion ==
    TypeInv /\ PlanInv /\ LockInv /\ ExclusionInv /\ [Next]_vars => ExclusionInv'
<1> SUFFICES ASSUME TypeInv, PlanInv, LockInv, ExclusionInv, [Next]_vars
             PROVE  ExclusionInv'
  OBVIOUS
<1>1. /\ stage \in [Workers -> Stages]
      /\ status \in [Jobs -> JobStatus \union {"NONE"}]
      /\ operation \in [Jobs -> Operations \union {"none"}]
      /\ \A w \in Workers : stage[w] # "idle" => job[w] \in Rows
      /\ \A w \in Workers : stage[w] \in InTransaction => job[w] \in locked
      /\ "idle" \notin Executing /\ "idle" \notin InTransaction
  BY DEF TypeInv, TypeOK, WorkerTypeOK, StoreTypeOK, PlanInv, BusyHasRow, LockInv,
         HoldersHold, InTransaction, Executing
(* a step outside the pool that leaves the pool's rows alone *)
<1>2. ASSUME UNCHANGED <<stage, job>>, overtaken \subseteq overtaken',
             \A j \in Rows : operation'[j] = operation[j],
             \A j \in Rows : j \in locked => status'[j] = status[j],
             \A j \in Rows \ overtaken' :
                 status[j] \in RunStatuses => status'[j] \in RunStatuses
      PROVE  ExclusionInv'
  BY <1>1, <1>2
  DEF ExclusionInv, SelectedStatus, RunningStatus, KnownExclusive, KnownOperation,
      InTransaction
<1>3. ASSUME NEW w \in Workers, Work(w) \/ Abandon(w)  PROVE ExclusionInv'
  BY <1>3, WorkerKeepsExclusion DEF Work, Abandon
<1>4. ASSUME UNCHANGED <<status, operation, stage, job, overtaken>>
      PROVE  ExclusionInv'
  BY <1>2, <1>4
<1>5. ASSUME NEW c \in Clients, StartRequest(c) \/ DropRequest(c),
             UNCHANGED workerVars
      PROVE  ExclusionInv'
  BY <1>4, <1>5
  DEF StartRequest, StartCreate, StartApprove, StartDiscard, StartUnlock, Decide,
      DropRequest, workerVars, storeVars
<1>6. ASSUME NEW c \in Clients, FinishCreate(c), UNCHANGED workerVars
      PROVE  ExclusionInv'
  <2>1. UNCHANGED <<stage, job, overtaken>>
    BY <1>6 DEF FinishCreate, workerVars
  <2>2. \A j \in Rows : operation'[j] = operation[j] /\ status'[j] = status[j]
    BY <1>1, <1>6 DEF FinishCreate, CreateJob, storeVars, Rows
  <2> QED  BY <1>2, <2>1, <2>2
<1>7. ASSUME NEW c \in Clients, FinishUpdate(c), UNCHANGED workerVars
      PROVE  ExclusionInv'
  <2>1. UNCHANGED <<stage, job, operation>> /\ overtaken \subseteq overtaken'
    BY <1>7 DEF FinishUpdate, UpdateJobStatus, workerVars
  <2>2. req[c] \in Updates
    BY <1>7 DEF FinishUpdate, TypeInv, TypeOK, ApiTypeOK, NoRequest, Inserts
  <2>3. \A j \in Rows \ overtaken' :
            status[j] \in RunStatuses => status'[j] \in RunStatuses
    <3>1. CASE req[c].status = "CANCELLED"
      BY <1>1, <1>7, <3>1 DEF FinishUpdate, UpdateJobStatus, RunStatuses, Rows
    <3>2. CASE req[c].status = "APPROVED"
      BY <1>1, <1>7, <3>2 DEF FinishUpdate, UpdateJobStatus, RunStatuses, StaleStatuses, Rows
    <3> QED  BY <2>2, <3>1, <3>2 DEF Updates
  <2>4. \A j \in Rows : j \in locked => status'[j] = status[j]
    BY <1>1, <1>7 DEF FinishUpdate, UpdateJobStatus, Rows
  <2> QED  BY <1>2, <2>1, <2>3, <2>4
<1>8. CASE Start \/ FetchStale \/ RecoveryDone \/ TimePasses \/ Shutdown \/ Exit
             \/ UNCHANGED vars
  BY <1>4, <1>8
  DEF Start, FetchStale, RecoveryDone, TimePasses, Age, Shutdown, Exit, vars, apiVars,
      workerVars, storeVars
<1>9. CASE RecoverJob
  <2>1. UNCHANGED <<stage, job, operation, overtaken>>
    BY <1>9 DEF RecoverJob, UpdateJobStatus, apiVars, workerVars, storeVars
  <2>2. \A j \in Rows : /\ j \in locked => status'[j] = status[j]
                        /\ status'[j] \in {status[j], "FAILED"}
    BY <1>1, <1>9 DEF RecoverJob, UpdateJobStatus, storeVars, Rows
  <2> QED  BY <1>2, <2>1, <2>2 DEF RunStatuses
<1>10. CASE CleanupTick
  <2>1. UNCHANGED <<stage, job, operation, overtaken>>
    BY <1>10 DEF CleanupTick, FailTimedOutJobs, apiVars, workerVars
  <2>2. \A j \in Rows : /\ j \in locked => status'[j] = status[j]
                        /\ status'[j] \in {status[j], "FAILED"}
    BY <1>1, <1>10 DEF CleanupTick, FailTimedOutJobs, Rows
  <2> QED  BY <1>2, <2>1, <2>2 DEF RunStatuses
<1>11. CASE Crash
  BY <1>1, <1>11
  DEF Crash, ExclusionInv, SelectedStatus, RunningStatus, KnownExclusive
<1> QED
  BY <1>3, <1>5, <1>6, <1>7, <1>8, <1>9, <1>10, <1>11
  DEF Next, DaemonStep, StartRequest, EndRequest

LEMMA InitHasExclusion == Init => ExclusionInv
BY DEF Init, WorkerInit, ExclusionInv, SelectedStatus, RunningStatus, KnownExclusive,
       Executing

(* Two workers run one job at a time only if an approval overtook it, or if   *)
(* no handler knows its operation, and then none of them gets past terraform  *)
(* init: claims of other jobs, promotions, discards, recovery, the clean-up,  *)
(* failing statements, crashes and restarts never hand out a running job.     *)
THEOREM ExclusiveRunHolds == Spec => []ExclusiveRun
<1> DEFINE I == TypeInv /\ PlanInv /\ LockInv /\ ExclusionInv
<1>1. Init => I
  BY InitHasTypes, InitHasPlans, InitHasLocks, InitHasExclusion
<1>2. I /\ [Next]_vars => I'
  BY StepKeepsTypes, StepKeepsPlans, StepKeepsLocks, StepKeepsExclusion
<1>3. I => ExclusiveRun
  <2> SUFFICES ASSUME PlanInv, KnownExclusive,
                      NEW v \in Workers, NEW w \in Workers, v # w,
                      stage[v] \in Executing, stage[w] \in Executing, job[v] = job[w],
                      job[v] \notin overtaken
               PROVE  ~KnownOperation(job[v]) /\ {stage[v], stage[w]} \subseteq {"setup", "init"}
    BY DEF ExclusiveRun, ExclusionInv
  <2>1. ~KnownOperation(job[v]) /\ ~KnownOperation(job[w])
    BY DEF KnownExclusive
  <2>2. stage[v] \notin PastDownload /\ stage[w] \notin PastDownload
    BY <2>1 DEF PlanInv, OnlyPlansRun, KnownOperation
  <2> QED
    BY <2>1, <2>2 DEF Executing, PastDownload
<1> QED  BY <1>1, <1>2, <1>3, PTL DEF Spec

=============================================================================
