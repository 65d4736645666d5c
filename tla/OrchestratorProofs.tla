------------------------- MODULE OrchestratorProofs -------------------------
(* Proofs about Orchestrator, for every number of jobs, workers and requests, *)
(* every set of projects and operations, every fault and any number of stops. *)
EXTENDS Orchestrator, TLAPS

-----------------------------------------------------------------------------
(* The statements of the jobs table keep its type *)

LEMMA UpdateTypes ==
    ASSUME StoreTypeOK, NEW j \in Jobs, NEW s \in JobStatus,
           UpdateJobStatus(j, s)
    PROVE  StoreTypeOK'
BY DEF StoreTypeOK, UpdateJobStatus

LEMMA LockTypes ==
    ASSUME StoreTypeOK, NEW j \in Jobs, LockRow(j)
    PROVE  StoreTypeOK'
BY DEF StoreTypeOK, LockRow

LEMMA CommitTypes ==
    ASSUME StoreTypeOK, NEW j \in Jobs, NEW s \in JobStatus \union {"NONE"},
           CommitRow(j, s)
    PROVE  StoreTypeOK'
BY DEF StoreTypeOK, CommitRow

LEMMA RollbackTypes ==
    ASSUME StoreTypeOK, NEW j \in Jobs, Rollback(j)
    PROVE  StoreTypeOK'
BY DEF StoreTypeOK, Rollback

LEMMA ClaimedStatusType ==
    ASSUME StoreTypeOK, NEW j \in Jobs
    PROVE  ClaimedStatus(j) \in JobStatus \union {"NONE"}
BY DEF StoreTypeOK, ClaimedStatus, JobStatus

LEMMA ResultStatusType ==
    ASSUME NEW j \in Jobs
    PROVE  ResultStatus(j) \in JobStatus
BY DEF ResultStatus, JobStatus

LEMMA CreateTypes ==
    ASSUME StoreTypeOK, NEW p \in Projects, NEW op \in Operations,
           NEW s \in JobStatus, CreateJob(p, op, s)
    PROVE  StoreTypeOK'
BY DEF StoreTypeOK, CreateJob, Rows

LEMMA CleanupTypes ==
    ASSUME StoreTypeOK, FailTimedOutJobs
    PROVE  StoreTypeOK'
BY DEF StoreTypeOK, FailTimedOutJobs, JobStatus

LEMMA AgeTypes ==
    ASSUME StoreTypeOK, Age
    PROVE  StoreTypeOK'
BY MaxJobsAssumption DEF StoreTypeOK, Age, Rows, Jobs

-----------------------------------------------------------------------------
(* Type correctness.  A worker that is not in its loop has a job: without     *)
(* that, a commit or a status write could go to a row that does not exist.    *)

BusyHasJob == \A w \in Workers : stage[w] # "idle" => job[w] \in Jobs

TypeInv == TypeOK /\ BusyHasJob

LEMMA WorkerKeepsTypes ==
    ASSUME StoreTypeOK, WorkerTypeOK, BusyHasJob, NEW w \in Workers,
           WorkerStep(w) \/ AbandonStep(w)
    PROVE  StoreTypeOK' /\ WorkerTypeOK' /\ BusyHasJob'
<1> USE DEF Stages, Executing, WorkerTypeOK, BusyHasJob
<1>0. UNCHANGED storeVars => StoreTypeOK'
  BY DEF StoreTypeOK, storeVars
<1>1. CASE LockClaim(w)
  BY <1>1, LockTypes DEF LockClaim, LockRow
<1>2. CASE CommitClaim(w)
  BY <1>2, CommitTypes, ClaimedStatusType DEF CommitClaim, Goto
<1>3. CASE LoseClaim(w)
  BY <1>3, CommitTypes, RollbackTypes, ClaimedStatusType DEF LoseClaim, BackToLoop
<1>4. CASE Setup(w)
  BY <1>0, <1>4 DEF Setup, Goto
<1>5. CASE Initialise(w)
  BY <1>0, <1>5 DEF Initialise, Goto
<1>6. CASE LockState(w)
  BY <1>0, <1>6 DEF LockState, Goto
<1>7. CASE UnlockState(w)
  BY <1>0, <1>7 DEF UnlockState, Goto
<1>8. CASE CheckCancelled(w)
  BY <1>0, <1>8 DEF CheckCancelled, Goto, AfterCheck
<1>9. CASE UploadPlan(w)
  BY <1>0, <1>9 DEF UploadPlan, Goto
<1>10. CASE Finish(w)
  BY <1>10, UpdateTypes, ResultStatusType DEF Finish, Goto
<1>11. CASE RunFails(w)
  BY <1>0, <1>11 DEF RunFails, Goto
<1>12. CASE CleanUp(w)
  BY <1>0, <1>12 DEF CleanUp, Goto
<1>13. CASE MarkFailed(w)
  BY <1>0, <1>13, UpdateTypes DEF MarkFailed, Goto, JobStatus
<1>14. CASE LockPromotion(w)
  BY <1>14, LockTypes DEF LockPromotion
<1>15. CASE SkipPromotion(w)
  BY <1>0, <1>15 DEF SkipPromotion, BackToLoop
<1>16. CASE CommitPromotion(w)
  BY <1>16, CommitTypes DEF CommitPromotion, BackToLoop, JobStatus
<1>17. CASE LosePromotion(w)
  BY <1>17, RollbackTypes DEF LosePromotion, BackToLoop
<1>18. CASE AbandonRun(w)
  BY <1>0, <1>18 DEF AbandonRun, BackToLoop
<1> QED
  BY <1>1, <1>2, <1>3, <1>4, <1>5, <1>6, <1>7, <1>8, <1>9, <1>10, <1>11, <1>12,
     <1>13, <1>14, <1>15, <1>16, <1>17, <1>18
  DEF WorkerStep, AbandonStep, ClaimFails, PromotionFails

LEMMA RequestKeepsTypes ==
    ASSUME StoreTypeOK, ApiTypeOK, NEW c \in Clients,
           StartRequest(c) \/ EndRequest(c)
    PROVE  StoreTypeOK' /\ ApiTypeOK'
<1> USE DEF ApiTypeOK, NoRequest, Inserts, Updates
<1>0. UNCHANGED storeVars => StoreTypeOK'
  BY DEF StoreTypeOK, storeVars
<1>1. ASSUME NEW p \in Projects, NEW op \in Operations, StartCreate(c, p, op)
      PROVE  StoreTypeOK' /\ ApiTypeOK'
  BY <1>0, <1>1 DEF StartCreate, Decide
<1>2. ASSUME NEW j \in Jobs, StartApprove(c, j) \/ StartDiscard(c, j)
      PROVE  StoreTypeOK' /\ ApiTypeOK'
  BY <1>0, <1>2 DEF StartApprove, StartDiscard, Decide
<1>3. ASSUME NEW p \in Projects, StartUnlock(c, p)
      PROVE  StoreTypeOK' /\ ApiTypeOK'
  BY <1>0, <1>3 DEF StartUnlock, Decide, ActiveJobs, Rows
<1>4. CASE FinishCreate(c)
  <2>1. req[c] \in Inserts
    BY <1>4 DEF FinishCreate
  <2>2. StoreTypeOK'
    BY <1>0, <1>4, <2>1, CreateTypes DEF FinishCreate, JobStatus
  <2>3. ApiTypeOK'
    BY <1>4 DEF FinishCreate
  <2> QED  BY <2>2, <2>3
<1>5. CASE FinishUpdate(c)
  <2>1. req[c] \in Updates
    BY <1>5 DEF FinishUpdate
  <2>2. StoreTypeOK'
    BY <1>5, <2>1, UpdateTypes DEF FinishUpdate, JobStatus
  <2>3. ApiTypeOK'
    BY <1>5, <2>1 DEF FinishUpdate
  <2> QED  BY <2>2, <2>3
<1>6. CASE DropRequest(c)
  BY <1>0, <1>6 DEF DropRequest
<1> QED
  BY <1>1, <1>2, <1>3, <1>4, <1>5, <1>6 DEF StartRequest, EndRequest

LEMMA StepKeepsTypes == TypeInv /\ [Next]_vars => TypeInv'
<1> SUFFICES ASSUME TypeInv, [Next]_vars  PROVE TypeInv'
  OBVIOUS
<1> USE DEF TypeInv, TypeOK
<1>0. /\ UNCHANGED storeVars => StoreTypeOK'
      /\ UNCHANGED apiVars => ApiTypeOK'
      /\ UNCHANGED workerVars => WorkerTypeOK' /\ BusyHasJob'
      /\ UNCHANGED daemonVars =>
            daemon' \in DaemonStates /\ stale' \subseteq Jobs /\ stops' \in 0 .. MaxStops
  BY DEF StoreTypeOK, storeVars, ApiTypeOK, apiVars, WorkerTypeOK, BusyHasJob,
         workerVars, daemonVars
<1>1. ASSUME NEW w \in Workers, Work(w) \/ Abandon(w)  PROVE TypeInv'
  BY <1>0, <1>1, WorkerKeepsTypes DEF Work, Abandon
<1>2. ASSUME NEW c \in Clients, StartRequest(c) \/ EndRequest(c)  PROVE TypeInv'
  BY <1>0, <1>2, RequestKeepsTypes DEF StartRequest, EndRequest
<1>3. CASE Start
  BY <1>0, <1>3 DEF Start, DaemonStates, WorkerTypeOK, BusyHasJob
<1>4. CASE FetchStale
  BY <1>0, <1>4 DEF FetchStale, DaemonStates, Rows
<1>5. CASE RecoverJob
  BY <1>0, <1>5, UpdateTypes DEF RecoverJob, DaemonStates, JobStatus
<1>6. CASE RecoveryDone
  BY <1>0, <1>6 DEF RecoveryDone, DaemonStates
<1>7. CASE CleanupTick
  BY <1>0, <1>7, CleanupTypes DEF CleanupTick
<1>8. CASE Exit
  BY <1>0, <1>8 DEF Exit, DaemonStates, ApiTypeOK
<1>9. CASE TimePasses
  BY <1>0, <1>9, AgeTypes DEF TimePasses
<1>10. CASE Shutdown
  BY <1>0, <1>10, MaxStopsAssumption DEF Shutdown, DaemonStates
<1>11. CASE Crash
  BY <1>11, MaxStopsAssumption
  DEF Crash, DaemonStates, StoreTypeOK, ApiTypeOK, WorkerTypeOK, Stages, BusyHasJob
<1>12. CASE UNCHANGED vars
  BY <1>0, <1>12 DEF vars
<1> QED
  BY <1>1, <1>2, <1>3, <1>4, <1>5, <1>6, <1>7, <1>8, <1>9, <1>10, <1>11, <1>12
  DEF Next, DaemonStep

LEMMA InitHasTypes == Init => TypeInv
BY MaxJobsAssumption, MaxStopsAssumption
DEF Init, StoreInit, ApiInit, WorkerInit, TypeInv, TypeOK, StoreTypeOK, ApiTypeOK,
    WorkerTypeOK, BusyHasJob, Stages, DaemonStates

(* Every variable keeps its type, and a worker outside its loop has a job, in *)
(* every behaviour of the orchestrator.                                       *)
THEOREM TypeCorrect == Spec => []TypeInv
BY InitHasTypes, StepKeepsTypes, PTL DEF Spec

(* TypeOK, which the runs check, holds for every value of the constants.      *)
THEOREM TypeOKHolds == Spec => []TypeOK
<1>1. TypeInv => TypeOK
  BY DEF TypeInv
<1> QED  BY <1>1, TypeCorrect, PTL

-----------------------------------------------------------------------------
(* Plans and results.  PlannedHasPlan is not inductive: an approval in        *)
(* flight, and a worker about to write its result, must know of the plan too, *)
(* and only plan and destroy jobs may get past their initialisation.          *)

PastDownload == {"lock", "run", "check", "upload", "finish"}

ApprovalsHavePlan ==
    \A c \in Clients :
        req[c].kind = "update" /\ req[c].status = "APPROVED" => req[c].job \in plans

UpdatesHaveRow == \A c \in Clients : req[c].kind = "update" => req[c].job \in Rows

PlansOfRows == \A j \in plans : j \in Rows /\ operation[j] # "apply"

BusyHasRow == \A w \in Workers : stage[w] # "idle" => job[w] \in Rows

OnlyPlansRun ==
    \A w \in Workers : stage[w] \in PastDownload => operation[job[w]] \in {"plan", "destroy"}

ResultsHavePlan == \A w \in Workers : stage[w] = "finish" => job[w] \in plans

NoResult == \A j \in Rows : status[j] \notin {"APPLIED", "DESTROYED"}

(* what is still to be written: the requests' and the recovery's part *)
PendingHold == ApprovalsHavePlan /\ UpdatesHaveRow /\ stale \subseteq Rows

PlanInv ==
    /\ PlannedHasPlan
    /\ PendingHold
    /\ PlansOfRows
    /\ BusyHasRow
    /\ OnlyPlansRun
    /\ ResultsHavePlan
    /\ NoResult

(* what a change of one row must satisfy for the table's part of PlanInv *)
LEMMA RowChangeKeepsPlans ==
    ASSUME TypeInv, PlanInv, NEW j \in Rows, NEW s \in JobStatus,
           status' = [status EXCEPT ![j] = s],
           operation' = operation,
           plans \subseteq plans', plans' \subseteq plans \union {j},
           j \in plans' => operation[j] # "apply",
           s \in {"PLANNED", "APPROVED"} => j \in plans',
           s \notin {"APPLIED", "DESTROYED"}
    PROVE  PlannedHasPlan' /\ PlansOfRows' /\ NoResult' /\ Rows' = Rows
BY DEF TypeInv, TypeOK, StoreTypeOK, PlanInv, PlannedHasPlan, PlansOfRows,
       NoResult, Rows, JobStatus

LEMMA SameTableKeepsPlans ==
    ASSUME PlanInv, status' = status, operation' = operation, plans' = plans
    PROVE  PlannedHasPlan' /\ PlansOfRows' /\ NoResult' /\ Rows' = Rows
BY DEF PlanInv, PlannedHasPlan, PlansOfRows, NoResult, Rows

(* what a worker's move must satisfy for the pool's part of PlanInv *)
LEMMA MoveKeepsPlans ==
    ASSUME TypeInv, PlanInv, NEW w \in Workers, NEW j, NEW s,
           stage' = [stage EXCEPT ![w] = s],
           job' = [job EXCEPT ![w] = j],
           operation' = operation, Rows' = Rows, plans \subseteq plans',
           UNCHANGED <<req, stale>>,
           s # "idle" => j \in Rows,
           s \in PastDownload => operation[j] \in {"plan", "destroy"},
           s = "finish" => j \in plans'
    PROVE  PendingHold' /\ BusyHasRow' /\ OnlyPlansRun' /\ ResultsHavePlan'
BY DEF TypeInv, TypeOK, WorkerTypeOK, PlanInv, PendingHold, ApprovalsHavePlan,
       UpdatesHaveRow, BusyHasRow, OnlyPlansRun, ResultsHavePlan

LEMMA WorkerKeepsPlans ==
    ASSUME TypeInv, PlanInv, NEW w \in Workers,
           WorkerStep(w) \/ AbandonStep(w), UNCHANGED <<apiVars, daemonVars>>
    PROVE  PlanInv'
<1>1. /\ stage[w] # "idle" => job[w] \in Rows
      /\ stage[w] \in PastDownload => operation[job[w]] \in {"plan", "destroy"}
      /\ stage[w] = "finish" => job[w] \in plans
      /\ UNCHANGED <<req, stale>>
      /\ job[w] \in Rows => status[job[w]] \in JobStatus
      /\ job = [job EXCEPT ![w] = job[w]]
  BY DEF PlanInv, BusyHasRow, OnlyPlansRun, ResultsHavePlan, apiVars, daemonVars, TypeInv, TypeOK,
         StoreTypeOK, WorkerTypeOK, Rows
<1> USE DEF PlanInv, PastDownload
<1>2. ASSUME NEW s, Goto(w, s), stage[w] # "idle", UNCHANGED storeVars, plans' = plans,
             s \in PastDownload => \/ stage[w] \in PastDownload
                                  \/ operation[job[w]] \in {"plan", "destroy"},
             s = "finish" => job[w] \in plans
      PROVE  PlanInv'
  <2>1. PlannedHasPlan' /\ PlansOfRows' /\ NoResult' /\ Rows' = Rows
    BY <1>2, SameTableKeepsPlans DEF storeVars
  <2>2. /\ stage' = [stage EXCEPT ![w] = s]
        /\ job' = [job EXCEPT ![w] = job[w]]
        /\ operation' = operation
    BY <1>1, <1>2 DEF Goto, storeVars
  <2>3. PendingHold' /\ BusyHasRow' /\ OnlyPlansRun' /\ ResultsHavePlan'
    BY <1>1, <1>2, <2>1, <2>2, MoveKeepsPlans
  <2> QED  BY <2>1, <2>3
<1>3. ASSUME BackToLoop(w), UNCHANGED <<status, operation, plans>>
      PROVE  PlanInv'
  <2>1. PlannedHasPlan' /\ PlansOfRows' /\ NoResult' /\ Rows' = Rows
    BY <1>3, SameTableKeepsPlans
  <2>2. PendingHold' /\ BusyHasRow' /\ OnlyPlansRun' /\ ResultsHavePlan'
    BY <1>1, <1>3, <2>1, MoveKeepsPlans DEF BackToLoop
  <2> QED  BY <2>1, <2>2
<1>4. ASSUME NEW s \in JobStatus, status' = [status EXCEPT ![job[w]] = s],
             operation' = operation, plans' = plans, stage[w] # "idle",
             s \in {"PLANNED", "APPROVED"} => job[w] \in plans,
             s \notin {"APPLIED", "DESTROYED"},
             NEW t, stage' = [stage EXCEPT ![w] = t], t \notin PastDownload,
             NEW j, job' = [job EXCEPT ![w] = j], t # "idle" => j = job[w]
      PROVE  PlanInv'
  <2>1. PlannedHasPlan' /\ PlansOfRows' /\ NoResult' /\ Rows' = Rows
    BY <1>1, <1>4, RowChangeKeepsPlans DEF PlansOfRows
  <2>2. PendingHold' /\ BusyHasRow' /\ OnlyPlansRun' /\ ResultsHavePlan'
    BY <1>1, <1>4, <2>1, MoveKeepsPlans
  <2> QED  BY <2>1, <2>2
<1>5. ASSUME stage[w] = "claiming", CommitRow(job[w], ClaimedStatus(job[w]))
      PROVE  /\ ClaimedStatus(job[w]) \in JobStatus
             /\ ClaimedStatus(job[w]) \in {"PLANNED", "APPROVED"} => job[w] \in plans
             /\ ClaimedStatus(job[w]) \notin {"APPLIED", "DESTROYED"}
  <2>1. ClaimedStatus(job[w]) \in {"PLANNING", "APPLYING", "DESTROYING", status[job[w]]}
    BY DEF ClaimedStatus
  <2> QED  BY <1>1, <1>5, <2>1 DEF PlannedHasPlan, NoResult, JobStatus
<1>6. CASE LockClaim(w)
  <2> PICK j \in Jobs : FirstUnlocked(ClaimableJobs, j) /\ LockRow(j)
                        /\ stage' = [stage EXCEPT ![w] = "claiming"]
                        /\ job' = [job EXCEPT ![w] = j]
    BY <1>6 DEF LockClaim
  <2>1. j \in Rows
    BY DEF FirstUnlocked, ClaimableJobs
  <2>2. PlannedHasPlan' /\ PlansOfRows' /\ NoResult' /\ Rows' = Rows
    BY <1>6, SameTableKeepsPlans DEF LockClaim, LockRow
  <2>3. PendingHold' /\ BusyHasRow' /\ OnlyPlansRun' /\ ResultsHavePlan'
    BY <1>1, <1>6, <2>1, <2>2, MoveKeepsPlans DEF LockClaim, LockRow
  <2> QED  BY <2>2, <2>3
<1>7. CASE CommitClaim(w)
  BY <1>1, <1>4, <1>5, <1>7 DEF CommitClaim, CommitRow, Goto
<1>8. CASE LoseClaim(w)
  <2>1. CASE Rollback(job[w])
    BY <1>3, <1>8, <2>1 DEF LoseClaim, Rollback
  <2>2. CASE CommitRow(job[w], ClaimedStatus(job[w]))
    BY <1>1, <1>4, <1>5, <1>8, <2>2 DEF LoseClaim, CommitRow, BackToLoop
  <2> QED  BY <1>8, <2>1, <2>2 DEF LoseClaim
<1>9. CASE Setup(w)
  BY <1>2, <1>9 DEF Setup
<1>10. CASE Initialise(w)
  BY <1>2, <1>10 DEF Initialise, Blocked, HandlerMissing, PlanMissing, KnownOperation, PlansOfRows
<1>11. CASE LockState(w)
  BY <1>2, <1>11 DEF LockState
<1>12. CASE UnlockState(w)
  BY <1>2, <1>12 DEF UnlockState
<1>13. CASE CheckCancelled(w)
  BY <1>1, <1>2, <1>13 DEF CheckCancelled, AfterCheck
<1>14. CASE UploadPlan(w)
  <2>1. /\ stage' = [stage EXCEPT ![w] = "finish"]
        /\ job' = [job EXCEPT ![w] = job[w]]
        /\ plans' = plans \union {job[w]}
        /\ UNCHANGED <<status, operation>>
    BY <1>1, <1>14 DEF UploadPlan, Goto, storeVars
  <2>2. PlannedHasPlan' /\ PlansOfRows' /\ NoResult' /\ Rows' = Rows
    BY <1>1, <1>14, <2>1 DEF UploadPlan, PlannedHasPlan, PlansOfRows, NoResult, Rows
  <2>3. PendingHold' /\ BusyHasRow' /\ OnlyPlansRun' /\ ResultsHavePlan'
    BY <1>1, <1>14, <2>1, <2>2, MoveKeepsPlans DEF UploadPlan
  <2> QED  BY <2>2, <2>3
<1>15. CASE Finish(w)
  <2>1. ResultStatus(job[w]) = "PLANNED"
    BY <1>1, <1>15 DEF Finish, ResultStatus
  <2>2. /\ status' = [status EXCEPT ![job[w]] = "PLANNED"]
        /\ job' = [job EXCEPT ![w] = job[w]]
        /\ \E t \in {"done", "abort"} : stage' = [stage EXCEPT ![w] = t]
        /\ operation' = operation /\ plans' = plans
    BY <1>1, <1>15, <2>1 DEF Finish, Goto, UpdateJobStatus
  <2> QED  BY <1>1, <1>4, <1>15, <2>2 DEF Finish, JobStatus
<1>16. CASE RunFails(w)
  BY <1>2, <1>16 DEF RunFails, Executing
<1>17. CASE CleanUp(w)
  BY <1>2, <1>17 DEF CleanUp
<1>18. CASE MarkFailed(w)
  <2>1. CASE UpdateJobStatus(job[w], "FAILED")
    BY <1>1, <1>4, <1>18, <2>1 DEF MarkFailed, UpdateJobStatus, Goto, JobStatus
  <2>2. CASE UNCHANGED storeVars
    BY <1>2, <1>18, <2>2 DEF MarkFailed
  <2> QED  BY <1>18, <2>1, <2>2 DEF MarkFailed
<1>19. CASE LockPromotion(w)
  <2> PICK j \in Jobs : FirstUnlocked(QueuedJobs(project[job[w]]), j) /\ LockRow(j)
                        /\ stage' = [stage EXCEPT ![w] = "promoting"]
                        /\ job' = [job EXCEPT ![w] = j]
    BY <1>19 DEF LockPromotion
  <2>1. j \in Rows
    BY DEF FirstUnlocked, QueuedJobs
  <2>2. PlannedHasPlan' /\ PlansOfRows' /\ NoResult' /\ Rows' = Rows
    BY <1>19, SameTableKeepsPlans DEF LockPromotion, LockRow
  <2>3. PendingHold' /\ BusyHasRow' /\ OnlyPlansRun' /\ ResultsHavePlan'
    BY <1>1, <1>19, <2>1, <2>2, MoveKeepsPlans DEF LockPromotion, LockRow
  <2> QED  BY <2>2, <2>3
<1>20. CASE SkipPromotion(w)
  BY <1>3, <1>20 DEF SkipPromotion, storeVars
<1>21. CASE CommitPromotion(w)
  BY <1>1, <1>4, <1>21 DEF CommitPromotion, CommitRow, BackToLoop, JobStatus
<1>22. CASE LosePromotion(w)
  BY <1>3, <1>22 DEF LosePromotion, Rollback
<1>23. CASE AbandonRun(w)
  BY <1>3, <1>23 DEF AbandonRun, storeVars
<1> QED
  BY <1>6, <1>7, <1>8, <1>9, <1>10, <1>11, <1>12, <1>13, <1>14, <1>15, <1>16, <1>17,
     <1>18, <1>19, <1>20, <1>21, <1>22, <1>23
  DEF WorkerStep, AbandonStep, ClaimFails, PromotionFails

(* the pool's part of PlanInv when the pool does not move *)
LEMMA StillPoolKeepsPlans ==
    ASSUME PlanInv, UNCHANGED <<stage, job>>, Rows \subseteq Rows', plans' = plans,
           \A j \in Rows : operation'[j] = operation[j]
    PROVE  BusyHasRow' /\ OnlyPlansRun' /\ ResultsHavePlan'
BY DEF PlanInv, BusyHasRow, OnlyPlansRun, ResultsHavePlan, PastDownload

LEMMA RequestKeepsPlans ==
    ASSUME TypeInv, PlanInv, NEW c \in Clients,
           StartRequest(c) \/ EndRequest(c)
    PROVE  PlanInv'
<1> USE DEF PlanInv
<1>1. UNCHANGED <<stage, job, plans, stale>>
  BY DEF StartRequest, EndRequest, workerVars, daemonVars
<1>2. req \in [Clients -> {NoRequest} \union Inserts \union Updates]
  BY DEF TypeInv, TypeOK, ApiTypeOK
<1>3. ASSUME NEW r, req' = [req EXCEPT ![c] = r], UNCHANGED storeVars,
             r.kind = "update" => r.job \in Rows,
             r.kind = "update" /\ r.status = "APPROVED" => r.job \in plans
      PROVE  PlanInv'
  <2>1. PlannedHasPlan' /\ PlansOfRows' /\ NoResult' /\ Rows' = Rows
    BY <1>1, <1>3, SameTableKeepsPlans DEF storeVars
  <2>2. BusyHasRow' /\ OnlyPlansRun' /\ ResultsHavePlan'
    BY <1>1, <1>3, <2>1, StillPoolKeepsPlans DEF storeVars
  <2>3. PendingHold'
    BY <1>1, <1>2, <1>3, <2>1 DEF PendingHold, ApprovalsHavePlan, UpdatesHaveRow
  <2> QED  BY <2>1, <2>2, <2>3
<1>4. ASSUME req' = [req EXCEPT ![c] = NoRequest], Rows \subseteq Rows'
      PROVE  PendingHold'
  BY <1>1, <1>2, <1>4 DEF PendingHold, ApprovalsHavePlan, UpdatesHaveRow, NoRequest
<1>5. ASSUME NEW p \in Projects, NEW op \in Operations, StartCreate(c, p, op)
      PROVE  PlanInv'
  <2> DEFINE r == [kind |-> "insert", project |-> p, operation |-> op,
                   status |-> IF IsProjectActive(p) THEN "QUEUED" ELSE "PENDING_PLAN"]
  <2>1. req' = [req EXCEPT ![c] = r] /\ UNCHANGED storeVars
    BY <1>5 DEF StartCreate, Decide
  <2>2. r.kind # "update"
    OBVIOUS
  <2> HIDE DEF r
  <2> QED  BY <1>3, <2>1, <2>2
<1>6. ASSUME NEW j \in Jobs, StartApprove(c, j)
      PROVE  PlanInv'
  BY <1>3, <1>6 DEF StartApprove, Decide, PlannedHasPlan, Rows
<1>7. ASSUME NEW j \in Jobs, StartDiscard(c, j)
      PROVE  PlanInv'
  BY <1>3, <1>7 DEF StartDiscard, Decide
<1>8. ASSUME NEW p \in Projects, StartUnlock(c, p)
      PROVE  PlanInv'
  BY <1>3, <1>8 DEF StartUnlock, Decide, ActiveJobs
<1>9. CASE FinishCreate(c)
  <2>1. req[c] \in Inserts
    BY <1>2, <1>9 DEF FinishCreate, NoRequest, Updates
  <2>2. CASE UNCHANGED storeVars
    BY <1>3, <1>9, <2>2 DEF FinishCreate, NoRequest
  <2>3. CASE CreateJob(req[c].project, req[c].operation, req[c].status)
    <3>1. PICK j \in Jobs \ Rows :
              /\ status' = [status EXCEPT ![j] = req[c].status]
              /\ operation' = [operation EXCEPT ![j] = req[c].operation]
      BY <2>3 DEF CreateJob
    <3>2. status \in [Jobs -> JobStatus \union {"NONE"}] /\ DOMAIN operation = Jobs
      BY DEF TypeInv, TypeOK, StoreTypeOK
    <3>3. req[c].status \in {"PENDING_PLAN", "QUEUED"}
      BY <2>1 DEF Inserts
    <3>4. Rows' = Rows \union {j} /\ \A i \in Rows : operation'[i] = operation[i]
      BY <3>1, <3>2, <3>3 DEF Rows
    <3>5. PlannedHasPlan' /\ PlansOfRows' /\ NoResult'
      BY <1>1, <3>1, <3>2, <3>3, <3>4 DEF PlannedHasPlan, PlansOfRows, NoResult, Rows
    <3>6. BusyHasRow' /\ OnlyPlansRun' /\ ResultsHavePlan'
      BY <1>1, <3>4, StillPoolKeepsPlans
    <3> QED  BY <1>4, <1>9, <3>4, <3>5, <3>6 DEF FinishCreate
  <2> QED  BY <1>9, <2>2, <2>3 DEF FinishCreate
<1>10. CASE FinishUpdate(c)
  <2>1. req[c] \in Updates
    BY <1>2, <1>10 DEF FinishUpdate, NoRequest, Inserts
  <2> DEFINE j == req[c].job
             s == req[c].status
  <2>2. /\ j \in Jobs /\ s \in {"APPROVED", "CANCELLED"}
        /\ s = "APPROVED" => j \in plans
        /\ status' = [status EXCEPT ![j] = s] /\ operation' = operation
    BY <1>10, <2>1 DEF Updates, FinishUpdate, UpdateJobStatus, PendingHold, ApprovalsHavePlan
  <2>3. j \in Rows
    BY <1>10 DEF FinishUpdate, PendingHold, UpdatesHaveRow
  <2>4. PlannedHasPlan' /\ PlansOfRows' /\ NoResult' /\ Rows' = Rows
    BY <1>1, <2>2, <2>3, RowChangeKeepsPlans DEF PlansOfRows, JobStatus
  <2>5. BusyHasRow' /\ OnlyPlansRun' /\ ResultsHavePlan'
    BY <1>1, <2>2, <2>4, StillPoolKeepsPlans
  <2> QED  BY <1>4, <1>10, <2>4, <2>5 DEF FinishUpdate
<1>11. CASE DropRequest(c)
  BY <1>3, <1>11 DEF DropRequest, NoRequest
<1> QED
  BY <1>5, <1>6, <1>7, <1>8, <1>9, <1>10, <1>11 DEF StartRequest, EndRequest

LEMMA StepKeepsPlans == TypeInv /\ PlanInv /\ [Next]_vars => PlanInv'
<1> SUFFICES ASSUME TypeInv, PlanInv, [Next]_vars  PROVE PlanInv'
  OBVIOUS
<1> USE DEF PlanInv
<1>1. ASSUME UNCHANGED <<status, operation, plans, stage, job>>,
             stale' \subseteq Rows,
             \A c \in Clients : req'[c] \in {req[c], NoRequest}
      PROVE  PlanInv'
  <2>1. PlannedHasPlan' /\ PlansOfRows' /\ NoResult' /\ Rows' = Rows
    BY <1>1, SameTableKeepsPlans
  <2>2. BusyHasRow' /\ OnlyPlansRun' /\ ResultsHavePlan'
    BY <1>1, <2>1, StillPoolKeepsPlans
  <2>3. PendingHold'
    BY <1>1, <2>1 DEF PendingHold, ApprovalsHavePlan, UpdatesHaveRow, NoRequest
  <2> QED  BY <2>1, <2>2, <2>3
(* recovery and the clean-up fail some rows and touch nothing else *)
<1>2. ASSUME status' \in [Jobs -> JobStatus \union {"NONE"}],
             \A j \in Jobs : status'[j] # status[j] => j \in Rows /\ status'[j] = "FAILED",
             UNCHANGED <<operation, plans, stage, job, req>>, stale' \subseteq stale
      PROVE  PlanInv'
  <2>1. PlannedHasPlan' /\ PlansOfRows' /\ NoResult' /\ Rows' = Rows
    BY <1>2 DEF PlannedHasPlan, PlansOfRows, NoResult, Rows
  <2>2. BusyHasRow' /\ OnlyPlansRun' /\ ResultsHavePlan'
    BY <1>2, <2>1, StillPoolKeepsPlans
  <2>3. PendingHold'
    BY <1>2, <2>1 DEF PendingHold, ApprovalsHavePlan, UpdatesHaveRow
  <2> QED  BY <2>1, <2>2, <2>3
<1>3. TypeInv'
  BY StepKeepsTypes
<1>4. /\ status \in [Jobs -> JobStatus \union {"NONE"}]
      /\ status' \in [Jobs -> JobStatus \union {"NONE"}]
      /\ stale \subseteq Jobs
      /\ req \in [Clients -> {NoRequest} \union Inserts \union Updates]
  BY <1>3 DEF TypeInv, TypeOK, StoreTypeOK, ApiTypeOK
<1> USE DEF storeVars, apiVars, workerVars, daemonVars
<1>4a. stale \subseteq Rows
  BY DEF PendingHold
<1>5. ASSUME NEW w \in Workers, Work(w) \/ Abandon(w)  PROVE PlanInv'
  BY <1>5, WorkerKeepsPlans DEF Work, Abandon
<1>6. ASSUME NEW c \in Clients, StartRequest(c) \/ EndRequest(c)  PROVE PlanInv'
  BY <1>6, RequestKeepsPlans
<1>7. CASE Start \/ FetchStale \/ RecoveryDone \/ TimePasses \/ Shutdown \/ UNCHANGED vars
  <2>1. stale' \subseteq Rows
    BY <1>7, <1>4a DEF Start, FetchStale, RecoveryDone, TimePasses, Shutdown, vars
  <2> QED
    BY <1>1, <1>7, <2>1
    DEF Start, FetchStale, RecoveryDone, TimePasses, Age, Shutdown, vars
<1>8. CASE Exit
  BY <1>1, <1>8, <1>4a DEF Exit
<1>9. CASE RecoverJob
  <2>1. CASE UNCHANGED storeVars
    BY <1>1, <1>9, <1>4a, <2>1 DEF RecoverJob
  <2>2. ASSUME NEW j \in stale, UpdateJobStatus(j, "FAILED"), stale' = stale \ {j}
        PROVE  PlanInv'
    BY <1>2, <1>4, <1>9, <1>4a, <2>2 DEF RecoverJob, UpdateJobStatus
  <2> QED  BY <1>9, <2>1, <2>2 DEF RecoverJob
<1>10. CASE CleanupTick
  BY <1>2, <1>4, <1>10 DEF CleanupTick, FailTimedOutJobs, Rows
<1>11. CASE Crash
  <2>1. PlannedHasPlan' /\ PlansOfRows' /\ NoResult' /\ Rows' = Rows
    BY <1>11, SameTableKeepsPlans DEF Crash
  <2>2. BusyHasRow' /\ OnlyPlansRun' /\ ResultsHavePlan'
    BY <1>11 DEF Crash, BusyHasRow, OnlyPlansRun, ResultsHavePlan, PastDownload
  <2>3. PendingHold'
    BY <1>11 DEF Crash, PendingHold, ApprovalsHavePlan, UpdatesHaveRow, NoRequest
  <2> QED  BY <2>1, <2>2, <2>3
<1> QED
  BY <1>5, <1>6, <1>7, <1>8, <1>9, <1>10, <1>11 DEF Next, DaemonStep

LEMMA InitHasPlans == Init => PlanInv
BY DEF Init, StoreInit, ApiInit, WorkerInit, PlanInv, PlannedHasPlan, PendingHold,
       ApprovalsHavePlan, UpdatesHaveRow, PlansOfRows, BusyHasRow, OnlyPlansRun,
       ResultsHavePlan, NoResult, Rows, NoRequest, PastDownload

LEMMA PlansCorrect == Spec => [](TypeInv /\ PlanInv)
<1>1. Init => TypeInv /\ PlanInv
  BY InitHasTypes, InitHasPlans
<1>2. TypeInv /\ PlanInv /\ [Next]_vars => TypeInv' /\ PlanInv'
  BY StepKeepsTypes, StepKeepsPlans
<1> QED  BY <1>1, <1>2, PTL DEF Spec

(* Whatever requests, workers, faults and restarts do, a job that waits for   *)
(* an approval or has one has a plan in the object store.                     *)
THEOREM PlannedHasPlanHolds == Spec => []PlannedHasPlan
<1>1. PlanInv => PlannedHasPlan
  BY DEF PlanInv
<1> QED  BY <1>1, PlansCorrect, PTL

(* What the refuted claim FreshApplySucceeds shows of one apply job is so of  *)
(* every one in every behaviour: none gets past the download of a plan that   *)
(* nothing writes under its id, and nothing is ever recorded as APPLIED.      *)
LEMMA NoApplyRuns == Spec => [](OnlyPlansRun /\ NoResult)
<1>1. PlanInv => OnlyPlansRun /\ NoResult
  BY DEF PlanInv
<1> QED  BY <1>1, PlansCorrect, PTL

=============================================================================
