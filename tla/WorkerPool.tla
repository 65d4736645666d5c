----------------------------- MODULE WorkerPool -----------------------------
(* The worker goroutines of internal/daemon: claim a job, run Terraform in    *)
(* the job's directory, record the outcome, promote the project's next queued *)
(* job.  A stage is a point where a worker has finished one call on a shared  *)
(* resource (the jobs table, the object store, the directory, the API's state *)
(* lock) and has not made the next; other actors run in between.              *)
EXTENDS JobStore

CONSTANT Workers    \* the pool's goroutines

VARIABLES
    stage,      \* stage[w]: how far worker w is
    job,        \* job[w]: the job it works on, 0 when it has none
    plans,      \* object store: jobs with a jobs/<id>/tfplan object
    workDirs,   \* jobs whose /tmp/openenvx-jobs/<id> directory exists
    claimed     \* history: jobs some worker has claimed

workerVars == <<stage, job, plans, workDirs, claimed>>

(* executeJob, from its call to the last status write of the handler *)
Executing == {"setup", "init", "lock", "run", "check", "upload", "finish"}

(* the part of it after MkdirAll has run and RemoveAll is deferred *)
InWorkDir == (Executing \ {"setup"}) \union {"done", "abort"}

Stages == Executing \union
    {"idle", "claiming", "done", "abort", "fail", "promote", "promoting"}

WorkerTypeOK ==
    /\ stage \in [Workers -> Stages]
    /\ job \in [Workers -> Jobs \union {0}]
    /\ plans \subseteq Jobs
    /\ workDirs \subseteq Jobs
    /\ claimed \subseteq Jobs

WorkerInit ==
    /\ stage = [w \in Workers |-> "idle"]
    /\ job = [w \in Workers |-> 0]
    /\ plans = {}
    /\ workDirs = {}
    /\ claimed = {}

-----------------------------------------------------------------------------
(* Control flow *)

Goto(w, s) ==
    /\ stage' = [stage EXCEPT ![w] = s]
    /\ UNCHANGED job

(* the end of processJob: back to the select on the ticker *)
BackToLoop(w) ==
    /\ stage' = [stage EXCEPT ![w] = "idle"]
    /\ job' = [job EXCEPT ![w] = 0]

-----------------------------------------------------------------------------
(* Claiming: the transaction of ClaimNextJob *)

LockClaim(w) ==
    /\ stage[w] = "idle"
    /\ \E j \in Jobs :
        /\ FirstUnlocked(ClaimableJobs, j)
        /\ LockRow(j)
        /\ stage' = [stage EXCEPT ![w] = "claiming"]
        /\ job' = [job EXCEPT ![w] = j]
    /\ UNCHANGED <<plans, workDirs, claimed>>

CommitClaim(w) ==
    /\ stage[w] = "claiming"
    /\ CommitRow(job[w], ClaimedStatus(job[w]))
    /\ claimed' = claimed \union {job[w]}
    /\ Goto(w, "setup")
    /\ UNCHANGED <<plans, workDirs>>

(* ClaimNextJob returns an error: the transaction is rolled back, or it has   *)
(* been committed and the worker did not hear of it                           *)
LoseClaim(w) ==
    /\ stage[w] = "claiming"
    /\ \/ Rollback(job[w]) /\ UNCHANGED claimed
       \/ /\ CommitRow(job[w], ClaimedStatus(job[w]))
          /\ claimed' = claimed \union {job[w]}
    /\ BackToLoop(w)
    /\ UNCHANGED <<plans, workDirs>>

ClaimFails(w) == "db" \in Faults /\ LoseClaim(w)

-----------------------------------------------------------------------------
(* Executing: executeJob and the handler of the job's operation *)

KnownOperation(j) == operation[j] \in {"plan", "apply", "destroy"}

Setup(w) ==
    /\ stage[w] = "setup"
    /\ workDirs' = workDirs \union {job[w]}
    /\ Goto(w, "init")
    /\ UNCHANGED <<storeVars, plans, claimed>>

(* files are written to and read from a directory another run has removed *)
DirectoryGone(w) == stage[w] \in {"init", "lock", "upload"} /\ job[w] \notin workDirs

(* the switch over the operation ends in its default *)
HandlerMissing(w) == stage[w] = "init" /\ ~KnownOperation(job[w])

(* handleApply downloads jobs/<its own id>/tfplan *)
PlanMissing(w) ==
    stage[w] = "init" /\ operation[job[w]] = "apply" /\ job[w] \notin plans

(* GetActiveJobForProject finds a job when Terraform locks or unlocks *)
StateRefused(w) ==
    stage[w] \in {"lock", "run"} /\ ActiveJobs(project[job[w]]) # {}

(* what the code itself, not its environment, makes fail at each stage *)
Blocked(w) ==
    DirectoryGone(w) \/ HandlerMissing(w) \/ PlanMissing(w) \/ StateRefused(w)

(* generated files, terraform init, the plan's download, the pre hooks *)
Initialise(w) ==
    /\ stage[w] = "init"
    /\ ~Blocked(w)
    /\ Goto(w, "lock")
    /\ UNCHANGED <<storeVars, plans, workDirs, claimed>>

(* Terraform locks the state through handleLockProjectState, which answers    *)
(* 423 while the project has an active job and records nothing otherwise      *)
LockState(w) ==
    /\ stage[w] = "lock"
    /\ ~Blocked(w)
    /\ Goto(w, "run")
    /\ UNCHANGED <<storeVars, plans, workDirs, claimed>>

(* Terraform finishes and unlocks with its own lock id, which is no job's id: *)
(* UnlockProjectState refuses it while the project has an active job          *)
UnlockState(w) ==
    /\ stage[w] = "run"
    /\ ~Blocked(w)
    /\ Goto(w, "check")
    /\ UNCHANGED <<storeVars, plans, workDirs, claimed>>

(* bug: the handler records its result before it uploads the plan *)
AfterCheckNoUpload(j) == "finish"

(* withCancellationCheck reads the status; both of its branches return nil    *)
AfterCheck(j) == IF operation[j] = "apply" THEN "finish" ELSE "upload"

CheckCancelled(w) ==
    /\ stage[w] = "check"
    /\ Goto(w, AfterCheck(job[w]))
    /\ UNCHANGED <<storeVars, plans, workDirs, claimed>>

(* terraform show, read the plan file, put it in the object store *)
UploadPlan(w) ==
    /\ stage[w] = "upload"
    /\ ~Blocked(w)
    /\ plans' = plans \union {job[w]}
    /\ Goto(w, "finish")
    /\ UNCHANGED <<storeVars, workDirs, claimed>>

(* bug: a status no other part of the system knows *)
ResultStatusUnknown(j) == "COMPLETED"

(* the status a handler that gets to its end writes *)
ResultStatus(j) == IF operation[j] = "apply" THEN "APPLIED" ELSE "PLANNED"

Finish(w) ==
    /\ stage[w] = "finish"
    /\ UpdateJobStatus(job[w], ResultStatus(job[w]))
    /\ \/ Goto(w, "done")
       \/ Faults # {} /\ Goto(w, "abort")  \* written, and then the run fails
    /\ UNCHANGED <<plans, workDirs, claimed>>

(* a call of the run returns an error *)
RunFails(w) ==
    /\ stage[w] \in Executing
    /\ \/ Blocked(w)
       \/ "exec" \in Faults  \* a command, a service, the log pipe: any stage
       \/ "db" \in Faults /\ stage[w] \in {"lock", "run", "check", "finish"}
    /\ Goto(w, IF stage[w] = "setup" THEN "fail" ELSE "abort")
    /\ UNCHANGED <<storeVars, plans, workDirs, claimed>>

-----------------------------------------------------------------------------
(* Settling: the deferred RemoveAll, the FAILED write, the promotion *)

(* bug: processJob forgets the error of executeJob *)
CleanUpForgetsError(w) ==
    /\ stage[w] \in {"done", "abort"}
    /\ workDirs' = workDirs \ {job[w]}
    /\ Goto(w, "promote")
    /\ UNCHANGED <<storeVars, plans, claimed>>

CleanUp(w) ==
    /\ stage[w] \in {"done", "abort"}
    /\ workDirs' = workDirs \ {job[w]}
    /\ Goto(w, IF stage[w] = "done" THEN "promote" ELSE "fail")
    /\ UNCHANGED <<storeVars, plans, claimed>>

MarkFailed(w) ==
    /\ stage[w] = "fail"
    /\ \/ UpdateJobStatus(job[w], "FAILED")
       \/ "db" \in Faults /\ UNCHANGED storeVars
    /\ Goto(w, "promote")
    /\ UNCHANGED <<plans, workDirs, claimed>>

(* bug: no ORDER BY in PromoteNextJob *)
LockAnyPromotion(w) ==
    /\ stage[w] = "promote"
    /\ \E j \in QueuedJobs(project[job[w]]) \ locked :
        /\ LockRow(j)
        /\ stage' = [stage EXCEPT ![w] = "promoting"]
        /\ job' = [job EXCEPT ![w] = j]
    /\ UNCHANGED <<plans, workDirs, claimed>>

(* the transaction of PromoteNextJob; job[w] becomes the row it locks *)
LockPromotion(w) ==
    /\ stage[w] = "promote"
    /\ Accepts("QUEUED")
    /\ \E j \in Jobs :
        /\ FirstUnlocked(QueuedJobs(project[job[w]]), j)
        /\ LockRow(j)
        /\ stage' = [stage EXCEPT ![w] = "promoting"]
        /\ job' = [job EXCEPT ![w] = j]
    /\ UNCHANGED <<plans, workDirs, claimed>>

(* nothing queued that is not locked (ErrNoRows), or the statement fails *)
SkipPromotion(w) ==
    /\ stage[w] = "promote"
    /\ \/ QueuedJobs(project[job[w]]) \subseteq locked
       \/ ~Accepts("QUEUED")
       \/ "db" \in Faults
    /\ BackToLoop(w)
    /\ UNCHANGED <<storeVars, plans, workDirs, claimed>>

CommitPromotion(w) ==
    /\ stage[w] = "promoting"
    /\ CommitRow(job[w], "PENDING_PLAN")
    /\ BackToLoop(w)
    /\ UNCHANGED <<plans, workDirs, claimed>>

LosePromotion(w) ==
    /\ stage[w] = "promoting"
    /\ Rollback(job[w])
    /\ BackToLoop(w)
    /\ UNCHANGED <<plans, workDirs, claimed>>

PromotionFails(w) == "db" \in Faults /\ LosePromotion(w)

-----------------------------------------------------------------------------
(* One turn of a worker, and what its cancelled context makes of it *)

WorkerStep(w) ==
    \/ LockClaim(w) \/ CommitClaim(w) \/ ClaimFails(w)
    \/ Setup(w) \/ Initialise(w) \/ LockState(w) \/ UnlockState(w)
    \/ CheckCancelled(w) \/ UploadPlan(w) \/ Finish(w) \/ RunFails(w)
    \/ CleanUp(w) \/ MarkFailed(w)
    \/ LockPromotion(w) \/ SkipPromotion(w)
    \/ CommitPromotion(w) \/ PromotionFails(w)

(* the context is cancelled: Terraform is killed, the FAILED write and the    *)
(* promotion fail on the same context, the deferred RemoveAll still runs      *)
AbandonRun(w) ==
    /\ stage[w] \notin {"idle", "claiming", "promoting"}
    /\ workDirs' = IF stage[w] \in InWorkDir THEN workDirs \ {job[w]} ELSE workDirs
    /\ BackToLoop(w)
    /\ UNCHANGED <<storeVars, plans, claimed>>

AbandonStep(w) == LoseClaim(w) \/ LosePromotion(w) \/ AbandonRun(w)

=============================================================================
