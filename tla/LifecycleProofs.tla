--------------------------- MODULE LifecycleProofs ---------------------------
(* Proof that the orchestrator implements the life of a job that JobLifecycle *)
(* promises: every step of it is a step of that life or changes no phase.     *)
EXTENDS ExclusionProofs

-----------------------------------------------------------------------------
(* The invariant the refinement needs.  A job that no worker has claimed has  *)
(* a status the claim, the clean-up or a discard can give an unclaimed row,   *)
(* and nobody who holds a write that would make it another one has it in      *)
(* hand: not a request, not recovery, not a worker in or after a run.  A job  *)
(* that was claimed is not in its project's queue, where a promotion or the   *)
(* clean-up could find it.                                                    *)

UnclaimedStatuses == {"NONE", "QUEUED", "PENDING_PLAN", "FAILED", "CANCELLED"}

(* the stages in which a worker works on a job it has claimed *)
Claiming == Executing \union {"done", "abort", "fail"}

ClaimedAreRows == claimed \subseteq Rows

ClaimedLeftQueue == \A j \in claimed : status[j] # "QUEUED"

UnclaimedStatus == \A j \in Jobs \ claimed : status[j] \in UnclaimedStatuses

ApprovedWereClaimed ==
    \A c \in Clients :
        req[c] \in Updates /\ req[c].status = "APPROVED" => req[c].job \in claimed

StaleWereClaimed == stale \subseteq claimed

RunningWereClaimed == \A w \in Workers : stage[w] \in Claiming => job[w] \in claimed

LifeInv ==
    /\ ClaimedAreRows
    /\ ClaimedLeftQueue
    /\ UnclaimedStatus
    /\ ApprovedWereClaimed
    /\ StaleWereClaimed
    /\ RunningWereClaimed

LEMMA InitHasLife == Init => LifeInv
  BY DEF Init, StoreInit, ApiInit, WorkerInit, NoRequest, Updates, Claiming, Executing,
         LifeInv, ClaimedAreRows, ClaimedLeftQueue, UnclaimedStatus, UnclaimedStatuses,
         ApprovedWereClaimed, StaleWereClaimed, RunningWereClaimed

-----------------------------------------------------------------------------
(* What a step does to the phases, seen from what it writes *)

LEMMA SameColumnsSamePhase ==
    ASSUME UNCHANGED <<status, claimed>>
    PROVE  phase' = phase
  BY DEF phase

(* the phase of row j alone changes *)
LEMMA RowChangesPhase ==
    ASSUME TypeInv, NEW j \in Jobs, NEW s, status' = [status EXCEPT ![j] = s],
           claimed' \in {claimed, claimed \union {j}}
    PROVE  phase' = [phase EXCEPT ![j] = phase'[j]]
  <1>1. \A i \in Jobs \ {j} : status'[i] = status[i] /\ (i \in claimed' <=> i \in claimed)
    BY DEF TypeInv, TypeOK, StoreTypeOK
  <1>2. \A i \in Jobs \ {j} : phase'[i] = phase[i]
    BY <1>1 DEF phase
  <1>3. phase \in [Jobs -> {phase[i] : i \in Jobs}]
        /\ DOMAIN phase = Jobs /\ DOMAIN phase' = Jobs
    BY DEF phase
  <1>4. phase = [i \in Jobs |-> phase[i]] /\ phase' = [i \in Jobs |-> phase'[i]]
    BY DEF phase
  <1> QED
    BY <1>2, <1>3, <1>4

(* The write of a run's, an approval's or a recovery's status to a row that   *)
(* has left the queue and is or becomes claimed: the job begins, or goes on.  *)
LEMMA StartingWrite ==
    ASSUME TypeInv, NEW j \in Jobs, status[j] \notin {"NONE", "QUEUED"},
           j \in claimed \/ status[j] = "PENDING_PLAN",
           NEW s, s \notin {"NONE", "QUEUED", "PENDING_PLAN"},
           status' = [status EXCEPT ![j] = s],
           claimed' \in {claimed, claimed \union {j}}, j \in claimed'
    PROVE  [Lifecycle!LifecycleNext]_phase
  <1>1. phase[j] \in {"ready", "started"} /\ phase'[j] = "started"
    BY DEF phase, TypeInv, TypeOK, StoreTypeOK
  <1>2. phase' = [phase EXCEPT ![j] = "started"]
    BY <1>1, RowChangesPhase
  <1>3. CASE phase[j] = "started"
    <2>1. phase' = phase
      BY <1>2, <1>3 DEF phase
    <2> QED
      BY <2>1
  <1>4. CASE phase[j] = "ready"
    <2>1. Lifecycle!Begin(j)
      BY <1>2, <1>4 DEF Lifecycle!Begin
    <2> QED
      BY <2>1 DEF Lifecycle!LifecycleNext
  <1> QED
    BY <1>1, <1>3, <1>4

(* what an update of one row leaves of the invariant *)
LEMMA RowKeepsLife ==
    ASSUME TypeInv, LifeInv, NEW j \in Rows, NEW s, s \notin {"NONE", "QUEUED"},
           status' = [status EXCEPT ![j] = s],
           claimed' \in {claimed, claimed \union {j}},
           j \in claimed' \/ s \in UnclaimedStatuses
    PROVE  ClaimedAreRows' /\ ClaimedLeftQueue' /\ UnclaimedStatus'
  BY DEF TypeInv, TypeOK, StoreTypeOK, LifeInv, ClaimedAreRows, ClaimedLeftQueue,
         UnclaimedStatus, Rows

-----------------------------------------------------------------------------
(* The workers *)

(* what a worker's move must satisfy for the pool's part of LifeInv *)
LEMMA MoveKeepsLife ==
    ASSUME TypeInv, LifeInv, NEW w \in Workers, NEW j, NEW s,
           stage' = [stage EXCEPT ![w] = s],
           job' = [job EXCEPT ![w] = j],
           UNCHANGED <<req, stale>>, claimed \subseteq claimed',
           s \in Claiming => j \in claimed'
    PROVE  ApprovedWereClaimed' /\ StaleWereClaimed' /\ RunningWereClaimed'
  BY DEF TypeInv, TypeOK, WorkerTypeOK, LifeInv, ApprovedWereClaimed, StaleWereClaimed,
         RunningWereClaimed

LEMMA SameColumnsKeepLife ==
    ASSUME LifeInv, UNCHANGED <<status, claimed>>
    PROVE  ClaimedAreRows' /\ ClaimedLeftQueue' /\ UnclaimedStatus'
  BY DEF LifeInv, ClaimedAreRows, ClaimedLeftQueue, UnclaimedStatus, Rows

LEMMA WorkerLives ==
    ASSUME TypeInv, PlanInv, LockInv, ExclusionInv, LifeInv, NEW w \in Workers,
           WorkerStep(w) \/ AbandonStep(w), UNCHANGED <<apiVars, daemonVars>>
    PROVE  LifeInv' /\ [Lifecycle!LifecycleNext]_phase
  <1>1. /\ stage[w] # "idle" => job[w] \in Rows /\ job[w] \in Jobs
        /\ job[w] \in Rows => status[job[w]] # "NONE"
        /\ job = [job EXCEPT ![w] = job[w]]
        /\ UNCHANGED <<req, stale>>
        /\ stage[w] \in Claiming => job[w] \in claimed
    BY DEF PlanInv, BusyHasRow, Rows, TypeInv, TypeOK, WorkerTypeOK, apiVars, daemonVars,
           LifeInv, RunningWereClaimed
  (* a move that writes nothing to the table *)
  <1>2. ASSUME UNCHANGED <<status, claimed>>,
               NEW s, stage' = [stage EXCEPT ![w] = s],
               NEW j, job' = [job EXCEPT ![w] = j],
               s \in Claiming => j \in claimed
        PROVE  LifeInv' /\ [Lifecycle!LifecycleNext]_phase
    BY <1>1, <1>2, MoveKeepsLife, SameColumnsKeepLife, SameColumnsSamePhase DEF LifeInv
  (* a write to the row of a job that was claimed *)
  <1>3. ASSUME NEW t, t \notin {"NONE", "QUEUED", "PENDING_PLAN"},
               status' = [status EXCEPT ![job[w]] = t], UNCHANGED <<claimed, job>>, stage[w] \in Claiming,
               NEW s, stage' = [stage EXCEPT ![w] = s]
        PROVE  LifeInv' /\ [Lifecycle!LifecycleNext]_phase
    <2>1. stage[w] # "idle"
      BY <1>3 DEF Claiming, Executing
    <2>2. /\ job[w] \in Rows /\ job[w] \in Jobs /\ job[w] \in claimed
          /\ status[job[w]] \notin {"NONE", "QUEUED"}
      BY <1>1, <1>3, <2>1 DEF LifeInv, ClaimedLeftQueue
    <2>3. ClaimedAreRows' /\ ClaimedLeftQueue' /\ UnclaimedStatus'
      BY <1>3, <2>2, RowKeepsLife
    <2>4. ApprovedWereClaimed' /\ StaleWereClaimed' /\ RunningWereClaimed'
      BY <1>1, <1>3, <2>2, MoveKeepsLife
    <2>5. [Lifecycle!LifecycleNext]_phase
      BY <1>3, <2>2, StartingWrite
    <2> QED
      BY <2>3, <2>4, <2>5 DEF LifeInv
  (* the commit of a claim: the job begins, or goes on if it was claimed before *)
  <1>4. ASSUME stage[w] = "claiming",
               CommitRow(job[w], ClaimedStatus(job[w])),
               claimed' = claimed \union {job[w]},
               NEW s, stage' = [stage EXCEPT ![w] = s],
               NEW j, job' = [job EXCEPT ![w] = j],
               s \in Claiming => j = job[w]
        PROVE  LifeInv' /\ [Lifecycle!LifecycleNext]_phase
    <2>1. /\ job[w] \in Rows /\ job[w] \in Jobs
          /\ status' = [status EXCEPT ![job[w]] = ClaimedStatus(job[w])]
          /\ status[job[w]] \in ClaimableStatuses
      BY <1>1, <1>4 DEF CommitRow, ExclusionInv, SelectedStatus
    <2>2. /\ ClaimedStatus(job[w]) \notin {"NONE", "QUEUED"}
          /\ ClaimedStatus(job[w]) = "PENDING_PLAN" => status[job[w]] = "PENDING_PLAN"
          /\ status[job[w]] \notin {"NONE", "QUEUED"}
          /\ job[w] \in claimed \/ status[job[w]] = "PENDING_PLAN"
      BY <2>1 DEF ClaimedStatus, ClaimableStatuses, LifeInv, UnclaimedStatus, UnclaimedStatuses
    <2>3. ClaimedAreRows' /\ ClaimedLeftQueue' /\ UnclaimedStatus'
      BY <1>4, <2>1, <2>2, RowKeepsLife
    <2>4. ApprovedWereClaimed' /\ StaleWereClaimed' /\ RunningWereClaimed'
      BY <1>1, <1>4, MoveKeepsLife
    <2>5. CASE ClaimedStatus(job[w]) = "PENDING_PLAN"
      <3>1. status' = status
        BY <2>1, <2>2, <2>5 DEF TypeInv, TypeOK, StoreTypeOK
      <3>2. \A i \in Jobs : phase'[i] = phase[i]
        BY <1>4, <2>2, <2>5, <3>1 DEF phase
      <3>3. phase' = phase
        BY <3>2 DEF phase
      <3> QED
        BY <2>3, <2>4, <3>3 DEF LifeInv
    <2>6. CASE ClaimedStatus(job[w]) # "PENDING_PLAN"
      <3>1. [Lifecycle!LifecycleNext]_phase
        BY <1>4, <2>1, <2>2, <2>6, StartingWrite
      <3> QED
        BY <2>3, <2>4, <3>1 DEF LifeInv
    <2> QED
      BY <2>5, <2>6
  <1>atrest. {"idle", "claiming", "promote", "promoting"} \intersect Claiming = {}
    BY DEF Claiming, Executing
  <1>5. CASE LockClaim(w)
    <2> PICK j \in Jobs : LockRow(j) /\ stage' = [stage EXCEPT ![w] = "claiming"]
                          /\ job' = [job EXCEPT ![w] = j] /\ claimed' = claimed
      BY <1>5 DEF LockClaim
    <2> QED
      BY <1>2, <1>atrest DEF LockRow
  <1>6. CASE CommitClaim(w)
    BY <1>1, <1>4, <1>6 DEF CommitClaim, Goto
  <1>7. CASE LoseClaim(w)
    <2>1. CASE Rollback(job[w]) /\ UNCHANGED claimed
      BY <1>2, <1>7, <1>atrest, <2>1 DEF LoseClaim, Rollback, BackToLoop
    <2>2. CASE CommitRow(job[w], ClaimedStatus(job[w])) /\ claimed' = claimed \union {job[w]}
      BY <1>4, <1>7, <1>atrest, <2>2 DEF LoseClaim, BackToLoop
    <2> QED
      BY <1>7, <2>1, <2>2 DEF LoseClaim
  <1>8. CASE Setup(w) \/ Initialise(w) \/ LockState(w) \/ UnlockState(w)
             \/ CheckCancelled(w) \/ UploadPlan(w) \/ RunFails(w) \/ CleanUp(w)
    <2>1. PICK s : Goto(w, s)
      BY <1>8 DEF Setup, Initialise, LockState, UnlockState, CheckCancelled, UploadPlan,
                  RunFails, CleanUp
    <2>2. stage[w] \in Claiming /\ UNCHANGED <<status, claimed>>
      BY <1>8 DEF Setup, Initialise, LockState, UnlockState, CheckCancelled, UploadPlan,
                  RunFails, CleanUp, Claiming, Executing, storeVars
    <2> QED
      BY <1>1, <1>2, <2>1, <2>2 DEF Goto
  <1>9. CASE Finish(w)
    <2>1. PICK s : Goto(w, s)
      BY <1>9 DEF Finish
    <2> QED
      BY <1>3, <1>9, <2>1
      DEF Finish, UpdateJobStatus, ResultStatus, Goto, Claiming, Executing
  <1>10. CASE MarkFailed(w)
    <2>1. Goto(w, "promote") /\ stage[w] \in Claiming /\ UNCHANGED claimed
      BY <1>10 DEF MarkFailed, Claiming
    <2>2. CASE UpdateJobStatus(job[w], "FAILED")
      BY <1>3, <2>1, <2>2 DEF UpdateJobStatus, Goto
    <2>3. CASE UNCHANGED storeVars
      BY <1>1, <1>2, <2>1, <2>3 DEF storeVars, Goto
    <2> QED
      BY <1>10, <2>2, <2>3 DEF MarkFailed
  <1>11. CASE LockPromotion(w)
    <2> PICK j \in Jobs : LockRow(j) /\ stage' = [stage EXCEPT ![w] = "promoting"]
                          /\ job' = [job EXCEPT ![w] = j] /\ claimed' = claimed
      BY <1>11 DEF LockPromotion
    <2> QED
      BY <1>2, <1>atrest DEF LockRow
  <1>12. CASE SkipPromotion(w)
    BY <1>2, <1>12, <1>atrest DEF SkipPromotion, BackToLoop, storeVars
  <1>13. CASE CommitPromotion(w)
    <2>1. /\ job[w] \in Rows /\ job[w] \in Jobs
          /\ status' = [status EXCEPT ![job[w]] = "PENDING_PLAN"]
          /\ status[job[w]] = "QUEUED"
          /\ BackToLoop(w) /\ claimed' = claimed
      BY <1>1, <1>13 DEF CommitPromotion, CommitRow, ExclusionInv, SelectedStatus
    <2>2. ClaimedAreRows' /\ ClaimedLeftQueue' /\ UnclaimedStatus'
      <3>1. "PENDING_PLAN" \notin {"NONE", "QUEUED"} /\ "PENDING_PLAN" \in UnclaimedStatuses
        BY DEF UnclaimedStatuses
      <3>2. /\ job[w] \in Rows
            /\ status' = [status EXCEPT ![job[w]] = "PENDING_PLAN"]
            /\ claimed' \in {claimed, claimed \union {job[w]}}
        BY <2>1
      <3> QED
        BY <3>1, <3>2, RowKeepsLife
    <2>3. ApprovedWereClaimed' /\ StaleWereClaimed' /\ RunningWereClaimed'
      BY <1>1, <2>1, MoveKeepsLife DEF BackToLoop, Claiming, Executing
    <2>4. job[w] \notin claimed
      BY <2>1 DEF LifeInv, ClaimedLeftQueue
    <2>5. phase[job[w]] = "waiting" /\ phase'[job[w]] = "ready"
      BY <2>1 DEF phase, TypeInv, TypeOK, StoreTypeOK
    <2>6. phase' = [phase EXCEPT ![job[w]] = "ready"]
      BY <2>1, <2>5, RowChangesPhase
    <2>7. Lifecycle!Promote(job[w])
      BY <2>5, <2>6 DEF Lifecycle!Promote
    <2> QED
      BY <2>1, <2>2, <2>3, <2>7 DEF LifeInv, Lifecycle!LifecycleNext
  <1>14. CASE LosePromotion(w)
    BY <1>2, <1>14, <1>atrest DEF LosePromotion, Rollback, BackToLoop
  <1>15. CASE AbandonRun(w)
    BY <1>2, <1>15, <1>atrest DEF AbandonRun, BackToLoop, storeVars
  <1> QED
    BY <1>5, <1>6, <1>7, <1>8, <1>9, <1>10, <1>11, <1>12, <1>13, <1>14, <1>15
    DEF WorkerStep, AbandonStep, ClaimFails, PromotionFails

-----------------------------------------------------------------------------
(* The requests *)

LEMMA RequestLives ==
    ASSUME TypeInv, PlanInv, LifeInv, NEW c \in Clients,
           StartRequest(c) \/ EndRequest(c)
    PROVE  LifeInv' /\ [Lifecycle!LifecycleNext]_phase
  <1> USE DEF NoRequest, Inserts, Updates
  <1>1. /\ UNCHANGED <<stage, job, claimed, stale>>
        /\ req \in [Clients -> {NoRequest} \union Inserts \union Updates]
    BY DEF StartRequest, EndRequest, workerVars, daemonVars, TypeInv, TypeOK, ApiTypeOK
  (* what is left of the invariant when a request has decided nothing new *)
  <1>2. ASSUME req' = [req EXCEPT ![c] = NoRequest]
        PROVE  ApprovedWereClaimed' /\ StaleWereClaimed' /\ RunningWereClaimed'
    BY <1>1, <1>2 DEF LifeInv, ApprovedWereClaimed, StaleWereClaimed, RunningWereClaimed
  <1>3. CASE StartRequest(c)
    <2>1. UNCHANGED <<status, claimed>>
      BY <1>1, <1>3 DEF StartRequest, StartCreate, StartApprove, StartDiscard, StartUnlock,
                        Decide, storeVars
    <2>2. \A d \in Clients \ {c} : req'[d] = req[d]
      BY <1>1, <1>3 DEF StartRequest, StartCreate, StartApprove, StartDiscard, StartUnlock,
                        Decide
    <2>3. req'[c].status = "APPROVED" /\ req'[c] \in Updates => req'[c].job \in claimed
      <3>1. CASE \E p \in Projects, op \in Operations : StartCreate(c, p, op)
        BY <1>1, <3>1 DEF StartCreate, Decide
      <3>2. ASSUME NEW j \in Jobs, StartApprove(c, j)
            PROVE  req'[c].status = "APPROVED" /\ req'[c] \in Updates => req'[c].job \in claimed
        <4>1. j \in claimed
          BY <3>2 DEF StartApprove, LifeInv, UnclaimedStatus, UnclaimedStatuses
        <4> QED
          BY <1>1, <3>2, <4>1 DEF StartApprove, Decide
      <3>3. CASE \E j \in Jobs : StartDiscard(c, j)
        BY <1>1, <3>3 DEF StartDiscard, Decide
      <3>4. CASE \E p \in Projects : StartUnlock(c, p)
        BY <1>1, <3>4 DEF StartUnlock, Decide
      <3> QED
        BY <1>3, <3>1, <3>2, <3>3, <3>4 DEF StartRequest
    <2>4. ApprovedWereClaimed'
      BY <1>1, <2>2, <2>3 DEF LifeInv, ApprovedWereClaimed
    <2>5. StaleWereClaimed' /\ RunningWereClaimed'
      BY <1>1 DEF LifeInv, StaleWereClaimed, RunningWereClaimed
    <2> QED
      BY <2>1, <2>4, <2>5, SameColumnsKeepLife, SameColumnsSamePhase DEF LifeInv
  <1>4. CASE DropRequest(c)
    BY <1>1, <1>2, <1>4, SameColumnsKeepLife, SameColumnsSamePhase
    DEF DropRequest, storeVars, LifeInv
  <1>5. CASE FinishCreate(c)
    <2>1. req[c] \in Inserts /\ req' = [req EXCEPT ![c] = NoRequest]
      BY <1>1, <1>5 DEF FinishCreate
    <2>2. CASE UNCHANGED storeVars
      BY <1>1, <1>2, <2>1, <2>2, SameColumnsKeepLife, SameColumnsSamePhase
      DEF storeVars, LifeInv
    <2>3. CASE CreateJob(req[c].project, req[c].operation, req[c].status)
      <3> PICK j \in Jobs \ Rows : status' = [status EXCEPT ![j] = req[c].status]
        BY <2>3 DEF CreateJob
      <3>1. j \notin claimed /\ status[j] = "NONE" /\ req[c].status \in {"PENDING_PLAN", "QUEUED"}
        BY <2>1 DEF LifeInv, ClaimedAreRows, Rows
      <3>2. Rows \subseteq Rows' /\ ClaimedAreRows' /\ ClaimedLeftQueue' /\ UnclaimedStatus'
        BY <1>1, <3>1 DEF LifeInv, ClaimedAreRows, ClaimedLeftQueue, UnclaimedStatus,
                          UnclaimedStatuses, Rows, TypeInv, TypeOK, StoreTypeOK
      <3>3. phase' = [phase EXCEPT ![j] = phase'[j]]
        BY <1>1, RowChangesPhase
      <3>4. phase[j] = "absent" /\ phase'[j] \in {"waiting", "ready"}
        BY <1>1, <3>1 DEF phase, TypeInv, TypeOK, StoreTypeOK
      <3>5. Lifecycle!Submit(j)
        BY <3>3, <3>4 DEF Lifecycle!Submit
      <3> QED
        BY <1>2, <2>1, <3>2, <3>5 DEF LifeInv, Lifecycle!LifecycleNext
    <2> QED
      BY <1>5, <2>2, <2>3 DEF FinishCreate
  <1>6. CASE FinishUpdate(c)
    <2>1. /\ req[c] \in Updates
          /\ req' = [req EXCEPT ![c] = NoRequest]
          /\ status' = [status EXCEPT ![req[c].job] = req[c].status]
      BY <1>1, <1>6 DEF FinishUpdate, UpdateJobStatus
    <2> DEFINE j == req[c].job
    <2>2. j \in Rows /\ j \in Jobs /\ status[j] # "NONE"
      BY <2>1 DEF PlanInv, PendingHold, UpdatesHaveRow, Rows
    <2>3. req[c].status \in {"APPROVED", "CANCELLED"}
      BY <2>1
    <2>4. j \in claimed \/ req[c].status = "CANCELLED"
      BY <2>1, <2>3 DEF LifeInv, ApprovedWereClaimed
    <2> HIDE DEF j
    <2>5. status' = [status EXCEPT ![j] = req[c].status] /\ claimed' = claimed
      BY <1>1, <2>1 DEF j
    <2>6. ClaimedAreRows' /\ ClaimedLeftQueue' /\ UnclaimedStatus'
      BY <2>2, <2>3, <2>4, <2>5, RowKeepsLife DEF UnclaimedStatuses
    <2>7. CASE j \in claimed
      <3>1. status[j] # "QUEUED"
        BY <2>7 DEF LifeInv, ClaimedLeftQueue
      <3>2. [Lifecycle!LifecycleNext]_phase
        BY <2>2, <2>3, <2>5, <2>7, <3>1, StartingWrite
      <3> QED
        BY <1>2, <2>1, <2>6, <3>2 DEF LifeInv
    <2>8. CASE j \notin claimed
      <3>1. status[j] \in {"QUEUED", "PENDING_PLAN", "FAILED", "CANCELLED"}
        BY <2>2, <2>8 DEF LifeInv, UnclaimedStatus, UnclaimedStatuses
      <3>2. phase[j] \in {"waiting", "ready", "closed"} /\ phase'[j] = "closed"
        BY <2>2, <2>4, <2>5, <2>8, <3>1 DEF phase, TypeInv, TypeOK, StoreTypeOK
      <3>3. phase' = [phase EXCEPT ![j] = "closed"]
        BY <2>2, <2>5, <3>2, RowChangesPhase
      <3>4. CASE phase[j] = "closed"
        <4>1. phase' = phase
          BY <3>3, <3>4 DEF phase
        <4> QED
          BY <1>2, <2>1, <2>6, <4>1 DEF LifeInv
      <3>5. CASE phase[j] \in {"waiting", "ready"}
        <4>1. Lifecycle!Close(j)
          BY <3>3, <3>5 DEF Lifecycle!Close
        <4> QED
          BY <1>2, <2>1, <2>2, <2>6, <4>1 DEF LifeInv, Lifecycle!LifecycleNext
      <3> QED
        BY <3>2, <3>4, <3>5
    <2> QED
      BY <2>7, <2>8
  <1> QED
    BY <1>3, <1>4, <1>5, <1>6 DEF EndRequest

-----------------------------------------------------------------------------
(* The daemon, and every step *)

LEMMA StepLives ==
    ASSUME TypeInv, PlanInv, LockInv, ExclusionInv, LifeInv, [Next]_vars
    PROVE  LifeInv' /\ [Lifecycle!LifecycleNext]_phase
  (* a step that writes nothing and hands out no job *)
  <1>1. ASSUME UNCHANGED <<status, claimed>>, stale' \subseteq claimed,
               \A c \in Clients : req'[c] \in {req[c], NoRequest},
               \A w \in Workers : \/ stage'[w] = stage[w] /\ job'[w] = job[w]
                                  \/ stage'[w] = "idle"
        PROVE  LifeInv' /\ [Lifecycle!LifecycleNext]_phase
    <2>1. ApprovedWereClaimed'
      BY <1>1 DEF LifeInv, ApprovedWereClaimed, NoRequest, Updates
    <2>2. StaleWereClaimed' /\ RunningWereClaimed'
      BY <1>1 DEF LifeInv, StaleWereClaimed, RunningWereClaimed, Claiming, Executing
    <2> QED
      BY <1>1, <2>1, <2>2, SameColumnsKeepLife, SameColumnsSamePhase DEF LifeInv
  <1>2. stale \subseteq claimed
    BY DEF LifeInv, StaleWereClaimed
  <1>3. ASSUME NEW w \in Workers, Work(w) \/ Abandon(w)
        PROVE  LifeInv' /\ [Lifecycle!LifecycleNext]_phase
    BY <1>3, WorkerLives DEF Work, Abandon
  <1>4. ASSUME NEW c \in Clients, StartRequest(c) \/ EndRequest(c)
        PROVE  LifeInv' /\ [Lifecycle!LifecycleNext]_phase
    BY <1>4, RequestLives
  <1>5. CASE Start \/ RecoveryDone \/ TimePasses \/ Shutdown \/ Exit \/ Crash
             \/ UNCHANGED vars
    <2>1. UNCHANGED <<status, claimed>> /\ stale' \subseteq claimed
      BY <1>2, <1>5 DEF Start, RecoveryDone, TimePasses, Age, Shutdown, Exit, Crash, vars,
                        workerVars, daemonVars, storeVars
    <2>2. \A c \in Clients : req'[c] \in {req[c], NoRequest}
      BY <1>5 DEF Start, RecoveryDone, TimePasses, Shutdown, Exit, Crash, vars, apiVars
    <2>3. \A w \in Workers : \/ stage'[w] = stage[w] /\ job'[w] = job[w]
                             \/ stage'[w] = "idle"
      BY <1>5 DEF Start, RecoveryDone, TimePasses, Shutdown, Exit, Crash, vars, workerVars
    <2> QED
      BY <1>1, <2>1, <2>2, <2>3
  <1>6. CASE FetchStale
    <2>1. UNCHANGED <<status, claimed, req, stage, job>>
      BY <1>6 DEF FetchStale, storeVars, apiVars, workerVars
    <2>2. {j \in Rows : status[j] \in StaleStatuses} \subseteq claimed
      BY DEF LifeInv, UnclaimedStatus, UnclaimedStatuses, StaleStatuses, Rows
    <2>3. stale' \subseteq claimed
      BY <1>2, <1>6, <2>2 DEF FetchStale
    <2> QED
      BY <1>1, <2>1, <2>3
  <1>7. CASE RecoverJob
    <2> PICK j \in stale : /\ \/ UpdateJobStatus(j, "FAILED")
                              \/ UNCHANGED storeVars
                           /\ stale' = stale \ {j}
      BY <1>7 DEF RecoverJob
    <2>1. UNCHANGED <<claimed, req, stage, job>> /\ stale' \subseteq claimed
      BY <1>2, <1>7 DEF RecoverJob, apiVars, workerVars
    <2>2. CASE UNCHANGED storeVars
      BY <1>1, <2>1, <2>2 DEF storeVars
    <2>3. CASE UpdateJobStatus(j, "FAILED")
      <3>1. /\ j \in Rows /\ j \in Jobs /\ j \in claimed /\ status[j] # "NONE"
            /\ status[j] # "QUEUED"
            /\ status' = [status EXCEPT ![j] = "FAILED"]
        BY <1>2, <2>3 DEF UpdateJobStatus, PlanInv, PendingHold, Rows, LifeInv,
                          ClaimedLeftQueue
      <3>2. [Lifecycle!LifecycleNext]_phase
        BY <2>1, <3>1, StartingWrite
      <3>3. ClaimedAreRows' /\ ClaimedLeftQueue' /\ UnclaimedStatus'
        BY <2>1, <3>1, RowKeepsLife
      <3>4. ApprovedWereClaimed' /\ StaleWereClaimed' /\ RunningWereClaimed'
        BY <2>1 DEF LifeInv, ApprovedWereClaimed, StaleWereClaimed, RunningWereClaimed
      <3> QED
        BY <3>2, <3>3, <3>4 DEF LifeInv
    <2> QED
      BY <2>2, <2>3
  (* the clean-up closes the late jobs together, and no worker claimed one *)
  <1>8. CASE CleanupTick
    <2> DEFINE late == {j \in 1 .. expired : status[j] = "QUEUED"}
    <2>1. late \subseteq Jobs
      <3>1. expired \in 0 .. MaxJobs /\ MaxJobs \in Nat
        BY MaxJobsAssumption DEF TypeInv, TypeOK, StoreTypeOK
      <3> QED
        BY <3>1 DEF Jobs
    <2>2. /\ status' = [j \in Jobs |-> IF j \in late THEN "FAILED" ELSE status[j]]
          /\ UNCHANGED <<claimed, req, stage, job, stale>>
      BY <1>8 DEF CleanupTick, FailTimedOutJobs, apiVars, workerVars, daemonVars
    <2>3. \A j \in late : status[j] = "QUEUED" /\ j \notin claimed
      BY DEF LifeInv, ClaimedLeftQueue
    <2> HIDE DEF late
    <2>4. \A j \in late : phase[j] = "waiting"
      BY <2>1, <2>3 DEF phase
    <2>5. \A j \in Jobs : phase'[j] = IF j \in late THEN "closed" ELSE phase[j]
      BY <2>2, <2>3 DEF phase
    <2>6. phase' = [j \in Jobs |-> IF j \in late THEN "closed" ELSE phase[j]]
      BY <2>5 DEF phase
    <2>7. Lifecycle!LifecycleNext
      BY <2>1, <2>4, <2>6 DEF Lifecycle!LifecycleNext, Lifecycle!TimeOut
    <2>8. ClaimedAreRows' /\ ClaimedLeftQueue' /\ UnclaimedStatus'
      BY <2>1, <2>2, <2>3
      DEF LifeInv, ClaimedAreRows, ClaimedLeftQueue, UnclaimedStatus, UnclaimedStatuses, Rows
    <2>9. ApprovedWereClaimed' /\ StaleWereClaimed' /\ RunningWereClaimed'
      BY <2>2 DEF LifeInv, ApprovedWereClaimed, StaleWereClaimed, RunningWereClaimed
    <2> QED
      BY <2>7, <2>8, <2>9 DEF LifeInv
  <1> QED
    BY <1>3, <1>4, <1>5, <1>6, <1>7, <1>8 DEF Next, DaemonStep

(* The orchestrator implements the life of a job: the row of a claimed job    *)
(* never says QUEUED or PENDING_PLAN again once it said something else, and a *)
(* job closed before a worker claimed it never runs, for any number of jobs,  *)
(* workers, requests, faults and restarts.                                    *)
THEOREM OrchestratorImplementsLifecycle == Spec => LifecycleHolds
  <1> DEFINE I == TypeInv /\ PlanInv /\ LockInv /\ ExclusionInv /\ LifeInv
  <1>1. Init => I
    BY InitHasTypes, InitHasPlans, InitHasLocks, InitHasExclusion, InitHasLife
  <1>2. I /\ [Next]_vars => I'
    BY StepKeepsTypes, StepKeepsPlans, StepKeepsLocks, StepKeepsExclusion, StepLives
  <1>3. I /\ [Next]_vars => [Lifecycle!LifecycleNext]_phase
    BY StepLives
  <1>4. Init => Lifecycle!LifecycleInit
    BY DEF Init, StoreInit, phase, Lifecycle!LifecycleInit
  <1> HIDE DEF I
  <1> QED
    BY <1>1, <1>2, <1>3, <1>4, PTL
    DEF Spec, LifecycleHolds, Lifecycle!LifecycleSpec

=============================================================================
