--------------------------- MODULE RecoveryProofs ---------------------------
(* Proofs of what a restart leaves behind: NoLeakedWorkDir and                *)
(* InProgressHasWorker, for every value of the constants.                     *)
EXTENDS OrchestratorProofs

(* what a worker's turn does to the other workers *)
LEMMA OthersStay ==
    ASSUME TypeInv, NEW w \in Workers, WorkerStep(w) \/ AbandonStep(w)
    PROVE  \A v \in Workers \ {w} : stage'[v] = stage[v] /\ job'[v] = job[v]
BY DEF TypeInv, TypeOK, WorkerTypeOK,
       WorkerStep, AbandonStep, LockClaim, CommitClaim, ClaimFails, LoseClaim, Setup,
       Initialise, LockState, UnlockState, CheckCancelled, UploadPlan, Finish, RunFails,
       CleanUp, MarkFailed, LockPromotion, SkipPromotion, CommitPromotion,
       PromotionFails, LosePromotion, AbandonRun, Goto, BackToLoop

-----------------------------------------------------------------------------
(* Job directories.  NoLeakedWorkDir is inductive as it stands. *)

LEMMA WorkerKeepsDirs ==
    ASSUME TypeInv, NEW w \in Workers, WorkerStep(w) \/ AbandonStep(w),
           \A j \in workDirs : \E v \in Workers : job[v] = j /\ stage[v] \in InWorkDir
    PROVE  \A j \in workDirs' : \E v \in Workers : job'[v] = j /\ stage'[v] \in InWorkDir
<1>1. \A v \in Workers \ {w} : stage'[v] = stage[v] /\ job'[v] = job[v]
  BY OthersStay
<1>2. stage \in [Workers -> Stages] /\ job \in [Workers -> Jobs \union {0}]
  BY DEF TypeInv, TypeOK, WorkerTypeOK
(* enough: w keeps its directory, or removes it, or never had one *)
<1>3. ASSUME \/ workDirs' \subseteq workDirs \ {job[w]}
             \/ workDirs' \subseteq workDirs /\ stage[w] \notin InWorkDir
             \/ /\ workDirs' \subseteq workDirs \union {job[w]}
                /\ job'[w] = job[w] /\ stage'[w] \in InWorkDir
      PROVE  \A j \in workDirs' : \E v \in Workers :
                 job'[v] = j /\ stage'[v] \in InWorkDir
  BY <1>1, <1>3
<1> USE DEF InWorkDir, Executing
<1>4. CASE LockClaim(w) \/ CommitClaim(w) \/ LoseClaim(w) \/ MarkFailed(w)
           \/ LockPromotion(w) \/ SkipPromotion(w) \/ CommitPromotion(w)
           \/ LosePromotion(w)
  <2>1. workDirs' = workDirs /\ stage[w] \notin InWorkDir
    BY <1>4
    DEF LockClaim, CommitClaim, LoseClaim, MarkFailed, LockPromotion, SkipPromotion,
        CommitPromotion, LosePromotion
  <2> QED  BY <1>3, <2>1
<1>5. CASE Setup(w)
  BY <1>2, <1>3, <1>5 DEF Setup, Goto
<1>6. CASE Initialise(w) \/ LockState(w) \/ UnlockState(w) \/ CheckCancelled(w)
           \/ UploadPlan(w) \/ Finish(w)
  <2>1. workDirs' = workDirs /\ job'[w] = job[w] /\ stage'[w] \in InWorkDir
    BY <1>2, <1>6
    DEF Initialise, LockState, UnlockState, CheckCancelled, AfterCheck, UploadPlan,
        Finish, Goto
  <2> QED  BY <1>3, <2>1
<1>7. CASE RunFails(w)
  <2>1. workDirs' = workDirs /\ job'[w] = job[w]
    BY <1>7 DEF RunFails, Goto
  <2>2. stage'[w] \in InWorkDir \/ stage[w] \notin InWorkDir
    BY <1>2, <1>7 DEF RunFails, Goto
  <2> QED  BY <1>3, <2>1, <2>2
<1>8. CASE CleanUp(w)
  BY <1>3, <1>8 DEF CleanUp
<1>9. CASE AbandonRun(w)
  BY <1>3, <1>9 DEF AbandonRun
<1> QED
  BY <1>4, <1>5, <1>6, <1>7, <1>8, <1>9
  DEF WorkerStep, AbandonStep, ClaimFails, PromotionFails

LEMMA StepKeepsDirs == TypeInv /\ NoLeakedWorkDir /\ [Next]_vars => NoLeakedWorkDir'
<1> SUFFICES ASSUME TypeInv, NoLeakedWorkDir, [Next]_vars, daemon' # "down"
             PROVE  \A j \in workDirs' : \E w \in Workers :
                        job'[w] = j /\ stage'[w] \in InWorkDir
  BY DEF NoLeakedWorkDir
<1>1. ASSUME NEW w \in Workers, Work(w) \/ Abandon(w)
      PROVE  \A j \in workDirs' : \E v \in Workers : job'[v] = j /\ stage'[v] \in InWorkDir
  BY <1>1, WorkerKeepsDirs DEF Work, Abandon, NoLeakedWorkDir, daemonVars
<1>2. CASE Start
  BY <1>2 DEF Start
<1>3. CASE UNCHANGED workerVars /\ (daemon' = "down" \/ daemon # "down")
  BY <1>3 DEF NoLeakedWorkDir, workerVars
<1>4. ASSUME NEW c \in Clients, StartRequest(c) \/ EndRequest(c)
      PROVE  UNCHANGED workerVars /\ daemon' = daemon
  BY <1>4 DEF StartRequest, EndRequest, daemonVars
<1>5. CASE FetchStale \/ RecoverJob \/ RecoveryDone \/ CleanupTick \/ Exit
           \/ TimePasses \/ Shutdown \/ UNCHANGED vars
  <2>1. UNCHANGED workerVars /\ (daemon' = daemon \/ daemon # "down")
    BY <1>5
    DEF FetchStale, RecoverJob, RecoveryDone, CleanupTick, Exit, TimePasses, Shutdown,
        Running, vars, daemonVars
  <2> QED  BY <1>3, <2>1
<1>6. CASE Crash
  BY <1>6 DEF Crash
<1> QED
  BY <1>1, <1>2, <1>3, <1>4, <1>5, <1>6 DEF Next, DaemonStep

(* Every job directory of a running process belongs to a worker that will     *)
(* remove it: failures, cancellations, shutdowns and crashes leak none.       *)
THEOREM NoLeakedWorkDirHolds == Spec => []NoLeakedWorkDir
<1>1. Init => TypeInv /\ NoLeakedWorkDir
  BY InitHasTypes DEF Init, NoLeakedWorkDir
<1>2. TypeInv /\ NoLeakedWorkDir /\ [Next]_vars => TypeInv' /\ NoLeakedWorkDir'
  BY StepKeepsTypes, StepKeepsDirs
<1> QED  BY <1>1, <1>2, PTL DEF Spec

-----------------------------------------------------------------------------
(* Jobs in progress.  The strengthening covers the time recovery takes: a job *)
(* in progress has a worker, or recovery has fetched it and not yet failed it.*)

Writers(j) == {w \in Workers :
                  job[w] = j /\ stage[w] \in Executing \union {"abort", "fail"}}

ProgressInv ==
    "db" \notin Faults /\ daemon \in {"recover", "ticking"} =>
        \A j \in Rows : status[j] \in StaleStatuses =>
            Writers(j) # {} \/ (daemon = "recover" /\ j \in stale)

(* a worker's turn leaves a job in progress without a writer only if it was   *)
(* in that state before                                                       *)
LEMMA WorkerKeepsProgress ==
    ASSUME TypeInv, "db" \notin Faults, NEW w \in Workers, WorkerStep(w),
           NEW j \in Jobs, status'[j] \in StaleStatuses
    PROVE  Writers(j)' # {} \/ (status[j] \in StaleStatuses /\ Writers(j) = {})
<1>1. \A v \in Workers \ {w} : stage'[v] = stage[v] /\ job'[v] = job[v]
  BY OthersStay
<1>2. /\ stage \in [Workers -> Stages]
      /\ job \in [Workers -> Jobs \union {0}]
      /\ status \in [Jobs -> JobStatus \union {"NONE"}]
      /\ stage[w] # "idle" => job[w] \in Jobs
  BY DEF TypeInv, TypeOK, WorkerTypeOK, StoreTypeOK, BusyHasJob
(* enough: w still writes j if it did, and only then *)
<1>3. ASSUME status'[j] = status[j], w \in Writers(j) => w \in Writers(j)'
      PROVE  Writers(j)' # {} \/ (status[j] \in StaleStatuses /\ Writers(j) = {})
  BY <1>1, <1>3 DEF Writers
<1>4. ASSUME job[w] # j \/ stage[w] \notin Executing \union {"abort", "fail"}
      PROVE  w \notin Writers(j)
  BY <1>4 DEF Writers
<1>5. CASE LockClaim(w) \/ LockPromotion(w) \/ SkipPromotion(w)
  BY <1>3, <1>5
  DEF LockClaim, LockPromotion, SkipPromotion, LockRow, storeVars, Writers, Executing
<1>6. CASE CommitClaim(w)
  <2>1. CASE job[w] = j
    BY <1>2, <1>6, <2>1 DEF CommitClaim, Goto, Writers, Executing
  <2>2. CASE job[w] # j
    BY <1>2, <1>3, <1>6, <2>2 DEF CommitClaim, CommitRow, Writers
  <2> QED  BY <2>1, <2>2
<1>7. CASE Setup(w) \/ Initialise(w) \/ LockState(w) \/ UnlockState(w)
           \/ CheckCancelled(w) \/ UploadPlan(w) \/ RunFails(w) \/ CleanUp(w)
  <2>1. /\ status' = status /\ job' = job
        /\ stage[w] \in Executing \union {"abort", "fail"} =>
              stage'[w] \in Executing \union {"abort", "fail"}
    BY <1>2, <1>7
    DEF Setup, Initialise, LockState, UnlockState, CheckCancelled, AfterCheck,
        UploadPlan, RunFails, CleanUp, Goto, storeVars, Executing
  <2> QED  BY <1>3, <2>1 DEF Writers
<1>8. CASE Finish(w)
  <2>1. job[w] # j
    BY <1>2, <1>8 DEF Finish, UpdateJobStatus, ResultStatus, StaleStatuses
  <2> QED  BY <1>2, <1>3, <1>4, <1>8, <2>1 DEF Finish, UpdateJobStatus
<1>9. CASE MarkFailed(w)
  <2>1. UpdateJobStatus(job[w], "FAILED")
    BY <1>9 DEF MarkFailed
  <2>2. job[w] # j
    BY <1>2, <1>9, <2>1 DEF MarkFailed, UpdateJobStatus, StaleStatuses
  <2> QED  BY <1>2, <1>3, <1>4, <1>9, <2>1, <2>2 DEF MarkFailed, UpdateJobStatus
<1>10. CASE CommitPromotion(w)
  <2>1. job[w] # j
    BY <1>2, <1>10 DEF CommitPromotion, CommitRow, StaleStatuses
  <2> QED  BY <1>2, <1>3, <1>4, <1>10, <2>1 DEF CommitPromotion, CommitRow
<1> QED
  BY <1>5, <1>6, <1>7, <1>8, <1>9, <1>10 DEF WorkerStep, ClaimFails, PromotionFails

(* no request writes one of the statuses of a job in progress *)
LEMMA RequestWritesNoProgress ==
    ASSUME TypeInv, NEW c \in Clients, StartRequest(c) \/ EndRequest(c),
           NEW j \in Jobs, status'[j] \in StaleStatuses
    PROVE  status'[j] = status[j]
<1>1. /\ status \in [Jobs -> JobStatus \union {"NONE"}]
      /\ req[c] \in {NoRequest} \union Inserts \union Updates
  BY DEF TypeInv, TypeOK, StoreTypeOK, ApiTypeOK
<1>2. CASE StartRequest(c) \/ DropRequest(c)
  BY <1>2 DEF StartRequest, DropRequest, StartCreate, StartApprove, StartDiscard,
              StartUnlock, Decide, storeVars
<1>3. CASE FinishCreate(c)
  <2>1. req[c].status \in {"PENDING_PLAN", "QUEUED"}
    BY <1>1, <1>3 DEF FinishCreate, NoRequest, Inserts, Updates
  <2> QED  BY <1>1, <1>3, <2>1 DEF FinishCreate, CreateJob, StaleStatuses, storeVars
<1>4. CASE FinishUpdate(c)
  <2>1. req[c].status \in {"APPROVED", "CANCELLED"}
    BY <1>1, <1>4 DEF FinishUpdate, NoRequest, Inserts, Updates
  <2> QED  BY <1>1, <1>4, <2>1 DEF FinishUpdate, UpdateJobStatus, StaleStatuses
<1> QED  BY <1>2, <1>3, <1>4 DEF EndRequest

LEMMA StepKeepsProgress == TypeInv /\ ProgressInv /\ [Next]_vars => ProgressInv'
<1> SUFFICES ASSUME TypeInv, ProgressInv, [Next]_vars, "db" \notin Faults,
                    daemon' \in {"recover", "ticking"},
                    NEW j \in Jobs, status'[j] \in StaleStatuses
             PROVE  Writers(j)' # {} \/ (daemon' = "recover" /\ j \in stale')
  BY DEF ProgressInv, Rows
<1>1. /\ status \in [Jobs -> JobStatus \union {"NONE"}]
      /\ status[j] \in StaleStatuses => j \in Rows
  BY DEF TypeInv, TypeOK, StoreTypeOK, Rows, StaleStatuses
<1>2. daemon \in {"recover", "ticking"} /\ status[j] \in StaleStatuses =>
          Writers(j) # {} \/ (daemon = "recover" /\ j \in stale)
  BY <1>1 DEF ProgressInv
(* enough: j was in progress and lost neither its writers nor its place in    *)
(* the list recovery works through                                            *)
<1>3. ASSUME status'[j] = status[j], UNCHANGED workerVars,
             daemon \in {"recover", "ticking"},
             daemon = "recover" /\ j \in stale => daemon' = "recover" /\ j \in stale'
      PROVE  Writers(j)' # {} \/ (daemon' = "recover" /\ j \in stale')
  <2>1. Writers(j)' = Writers(j)
    BY <1>3 DEF Writers, workerVars
  <2> QED  BY <1>2, <1>3, <2>1
<1>4. ASSUME NEW w \in Workers, Work(w) \/ Abandon(w)
      PROVE  Writers(j)' # {} \/ (daemon' = "recover" /\ j \in stale')
  <2>1. WorkerStep(w) /\ daemon' = daemon /\ stale' = stale
    BY <1>4 DEF Work, Abandon, daemonVars
  <2>2. Writers(j)' # {} \/ (status[j] \in StaleStatuses /\ Writers(j) = {})
    BY <2>1, WorkerKeepsProgress
  <2> QED  BY <1>2, <2>1, <2>2
<1>5. ASSUME NEW c \in Clients, StartRequest(c) \/ EndRequest(c)
      PROVE  Writers(j)' # {} \/ (daemon' = "recover" /\ j \in stale')
  <2>1. UNCHANGED workerVars /\ daemon' = daemon /\ stale' = stale
    BY <1>5 DEF StartRequest, EndRequest, daemonVars
  <2>2. status'[j] = status[j]
    BY <1>5, RequestWritesNoProgress
  <2> QED  BY <1>3, <2>1, <2>2
<1>6. CASE FetchStale
  BY <1>1, <1>6 DEF FetchStale, storeVars
<1>7. CASE RecoverJob
  <2>1. PICK i \in stale : UpdateJobStatus(i, "FAILED") /\ stale' = stale \ {i}
    BY <1>7 DEF RecoverJob
  <2>2. i # j /\ status'[j] = status[j]
    BY <1>1, <2>1 DEF UpdateJobStatus, StaleStatuses
  <2> QED  BY <1>3, <1>7, <2>1, <2>2 DEF RecoverJob
<1>8. CASE RecoveryDone \/ TimePasses
  BY <1>3, <1>8 DEF RecoveryDone, TimePasses, Age, storeVars, daemonVars
<1>9. CASE CleanupTick
  <2>1. status'[j] = status[j]
    BY <1>9 DEF CleanupTick, FailTimedOutJobs, StaleStatuses
  <2> QED  BY <1>3, <1>9, <2>1 DEF CleanupTick, daemonVars
<1>10. CASE UNCHANGED vars
  BY <1>3, <1>10 DEF vars, storeVars, daemonVars
<1>11. CASE Start \/ Exit \/ Shutdown \/ Crash
  BY <1>11 DEF Start, Exit, Shutdown, Crash
<1> QED
  BY <1>4, <1>5, <1>6, <1>7, <1>8, <1>9, <1>10, <1>11 DEF Next, DaemonStep

(* Once recovery is over, every job the table shows in progress has a worker  *)
(* that will write its outcome, after any number of shutdowns and crashes.    *)
THEOREM InProgressHasWorkerHolds == Spec => []InProgressHasWorker
<1>1. Init => TypeInv /\ ProgressInv
  BY InitHasTypes DEF Init, ProgressInv
<1>2. TypeInv /\ ProgressInv /\ [Next]_vars => TypeInv' /\ ProgressInv'
  BY StepKeepsTypes, StepKeepsProgress
<1>3. ProgressInv => InProgressHasWorker
  BY DEF ProgressInv, InProgressHasWorker, Writers
<1> QED  BY <1>1, <1>2, <1>3, PTL DEF Spec

=============================================================================
