---------------------------- MODULE Orchestrator ----------------------------
(* The orchestrator process: the daemon's start-up, recovery, clean-up ticker *)
(* and shutdown around the worker pool and the API server, which share the    *)
(* jobs table.  systemd restarts the process whenever it ends.                *)
EXTENDS ApiServer, WorkerPool

CONSTANT MaxStops    \* bound: number of shutdowns and crashes

ASSUME MaxStopsAssumption == MaxStops \in Nat

VARIABLES
    daemon,    \* where Daemon.Start is, "down" while there is no process
    stale,     \* jobs recoverJobs has fetched and not yet marked FAILED
    stops      \* number of shutdowns and crashes so far

daemonVars == <<daemon, stale, stops>>

vars == <<storeVars, apiVars, workerVars, daemonVars>>

DaemonStates == {"down", "fetch", "recover", "ticking", "stopping"}

TypeOK ==
    /\ StoreTypeOK
    /\ ApiTypeOK
    /\ WorkerTypeOK
    /\ daemon \in DaemonStates
    /\ stale \subseteq Jobs
    /\ stops \in 0 .. MaxStops

Init ==
    /\ StoreInit
    /\ ApiInit
    /\ WorkerInit
    /\ daemon = "down"
    /\ stale = {}
    /\ stops = 0

(* the context is live: workers take jobs, the listener accepts requests *)
Running == daemon \in {"fetch", "recover", "ticking"}

-----------------------------------------------------------------------------
(* The daemon *)

(* bug: the jobs directory of an earlier process is left alone *)
StartKeepsDirs ==
    /\ daemon = "down"
    /\ daemon' = "fetch"
    /\ UNCHANGED <<storeVars, apiVars, workerVars, stale, stops>>

(* the pool is started before recovery runs, and empties the jobs directory *)
Start ==
    /\ daemon = "down"
    /\ daemon' = "fetch"
    /\ workDirs' = {}
    /\ UNCHANGED <<storeVars, apiVars, stage, job, plans, claimed, stale, stops>>

(* recoverJobs reads the stale jobs; on an error Start just goes on *)
FetchStale ==
    /\ daemon = "fetch"
    /\ \/ /\ daemon' = "recover"
          /\ stale' = {j \in Rows : status[j] \in StaleStatuses}
       \/ /\ "db" \in Faults
          /\ daemon' = "ticking"
          /\ UNCHANGED stale
    /\ UNCHANGED <<storeVars, apiVars, workerVars, stops>>

(* bug: recovery puts an interrupted job back for the workers to take *)
RecoverJobAgain ==
    /\ daemon = "recover"
    /\ \E j \in stale :
        /\ \/ UpdateJobStatus(j, "PENDING_PLAN")
           \/ "db" \in Faults /\ UNCHANGED storeVars
        /\ stale' = stale \ {j}
    /\ UNCHANGED <<apiVars, workerVars, daemon, stops>>

(* one turn of the loop over the fetched jobs; a failed write is only logged *)
RecoverJob ==
    /\ daemon = "recover"
    /\ \E j \in stale :
        /\ \/ UpdateJobStatus(j, "FAILED")
           \/ "db" \in Faults /\ UNCHANGED storeVars
        /\ stale' = stale \ {j}
    /\ UNCHANGED <<apiVars, workerVars, daemon, stops>>

RecoveryDone ==
    /\ daemon = "recover"
    /\ stale = {}
    /\ daemon' = "ticking"
    /\ UNCHANGED <<storeVars, apiVars, workerVars, stale, stops>>

(* the ticker's FailTimedOutJobs, an error on a column without QUEUED *)
CleanupTick ==
    /\ daemon = "ticking"
    /\ Accepts("QUEUED")
    /\ FailTimedOutJobs
    /\ UNCHANGED <<apiVars, workerVars, daemonVars>>

TimePasses ==
    /\ Age
    /\ UNCHANGED <<apiVars, workerVars, daemonVars>>

(* SIGTERM: the context is cancelled, the daemon waits for its workers *)
Shutdown ==
    /\ Running
    /\ stops < MaxStops
    /\ stops' = stops + 1
    /\ daemon' = "stopping"
    /\ stale' = {}
    /\ UNCHANGED <<storeVars, apiVars, workerVars>>

Exit ==
    /\ daemon = "stopping"
    /\ \A w \in Workers : stage[w] = "idle"
    /\ daemon' = "down"
    /\ req' = [c \in Clients |-> NoRequest]
    /\ UNCHANGED <<storeVars, overtaken, workerVars, stale, stops>>

(* the process is killed: the database rolls its open transactions back, and  *)
(* what the table, the object store and the disk hold stays                   *)
Crash ==
    /\ daemon # "down"
    /\ stops < MaxStops
    /\ stops' = stops + 1
    /\ daemon' = "down"
    /\ stale' = {}
    /\ req' = [c \in Clients |-> NoRequest]
    /\ stage' = [w \in Workers |-> "idle"]
    /\ job' = [w \in Workers |-> 0]
    /\ locked' = {}
    /\ UNCHANGED <<status, project, operation, expired, overtaken,
                   plans, workDirs, claimed>>

-----------------------------------------------------------------------------
(* The composition *)

(* a worker of the running process *)
Work(w) ==
    /\ Running
    /\ WorkerStep(w)
    /\ UNCHANGED <<apiVars, daemonVars>>

Abandon(w) ==
    /\ daemon = "stopping"
    /\ AbandonStep(w)
    /\ UNCHANGED <<apiVars, daemonVars>>

StartRequest(c) ==
    /\ Running
    /\ \/ \E p \in Projects, op \in Operations : StartCreate(c, p, op)
       \/ \E j \in Jobs : StartApprove(c, j) \/ StartDiscard(c, j)
       \/ \E p \in Projects : StartUnlock(c, p)
    /\ UNCHANGED <<workerVars, daemonVars>>

(* a shutdown leaves the requests in flight the time to end *)
EndRequest(c) ==
    /\ daemon # "down"
    /\ FinishCreate(c) \/ FinishUpdate(c) \/ DropRequest(c)
    /\ UNCHANGED <<workerVars, daemonVars>>

DaemonStep ==
    Start \/ FetchStale \/ RecoverJob \/ RecoveryDone \/ CleanupTick \/ Exit

Next ==
    \/ \E w \in Workers : Work(w) \/ Abandon(w)
    \/ \E c \in Clients : StartRequest(c) \/ EndRequest(c)
    \/ DaemonStep
    \/ TimePasses
    \/ Shutdown
    \/ Crash

Spec == Init /\ [][Next]_vars

(* The Go scheduler runs every goroutine, Terraform and the database answer   *)
(* or fail, the tickers tick, systemd restarts the process, and the clock     *)
(* advances.  No fairness for requests, shutdowns and crashes.                *)
Fairness ==
    /\ \A w \in Workers : WF_vars(Work(w)) /\ WF_vars(Abandon(w))
    /\ WF_vars(DaemonStep)
    /\ WF_vars(TimePasses)

FairSpec == Spec /\ Fairness

-----------------------------------------------------------------------------
(* Properties *)

(* What waits for an approval or has one has the plan it is about: a PLANNED  *)
(* or APPROVED job has a tfplan object, also when its plan was interrupted,   *)
(* run twice or overtaken by a late approval (handlePlan uploads before it    *)
(* writes PLANNED, handleApproveJob reads PLANNED before it writes).          *)
PlannedHasPlan ==
    \A j \in Rows : status[j] \in {"PLANNED", "APPROVED"} => j \in plans

(* Two workers run one job at a time in two cases only.  Either an approval   *)
(* was decided on while the job was PLANNED and written after it had moved on *)
(* (handleApproveJob reads and writes in two statements).  Or no handler      *)
(* knows the job's operation: its claim leaves it PENDING_PLAN (the ELSE of   *)
(* ClaimNextJob), so the claim itself hands it out again and again until one  *)
(* run has failed; but then none of the runs gets past terraform init.        *)
(* Claims of other jobs, promotions, recovery and restarts never hand out a   *)
(* job that is running.                                                       *)
ExclusiveRun ==
    \A v, w \in Workers :
        /\ v # w
        /\ stage[v] \in Executing
        /\ stage[w] \in Executing
        /\ job[v] = job[w]
        => \/ job[v] \in overtaken
           \/ ~KnownOperation(job[v]) /\ {stage[v], stage[w]} \subseteq {"setup", "init"}

(* Once recovery is over, a job the table shows in progress has a worker that *)
(* is still going to write its outcome: after any shutdown or crash no row is *)
(* left PLANNING, APPLYING or DESTROYING for good (recoverJobs, the final     *)
(* status writes).  Needs statements that do not fail.                        *)
InProgressHasWorker ==
    "db" \notin Faults /\ daemon = "ticking" =>
        \A j \in Rows : status[j] \in StaleStatuses =>
            \E w \in Workers :
                job[w] = j /\ stage[w] \in Executing \union {"abort", "fail"}

(* A job directory on the disk of a running process belongs to a worker that  *)
(* will remove it: failures, cancellations and restarts leak none             *)
(* (executeJob's deferred RemoveAll, WorkerPool.Start's RemoveAll).           *)
NoLeakedWorkDir ==
    daemon # "down" =>
        \A j \in workDirs : \E w \in Workers :
            job[w] = j /\ stage[w] \in InWorkDir

(* Row locks of the claim and promotion transactions: one worker each, so     *)
(* SKIP LOCKED never lets two workers take the same row.                      *)
LockedByOne ==
    \A j \in Jobs :
        LET holders == {w \in Workers :
                           job[w] = j /\ stage[w] \in {"claiming", "promoting"}}
        IN  IF j \in locked THEN Cardinality(holders) = 1 ELSE holders = {}

(* The queue of a project is first in, first out: a job is promoted only if   *)
(* no older queued job of its project is left behind, but for one another     *)
(* worker is promoting at that moment (ORDER BY created_at FOR UPDATE SKIP    *)
(* LOCKED).  A rolled back promotion or a shutdown may break it.              *)
PromotionIsFIFO ==
    [][ "db" \notin Faults /\ daemon # "stopping" =>
        \A i, j \in Jobs :
            /\ i < j
            /\ status[j] = "QUEUED" /\ status'[j] = "PENDING_PLAN"
            /\ status[i] = "QUEUED" /\ project[i] = project[j]
            => i \in locked ]_vars

(* The phase of a job in JobLifecycle: what its row says, and for the other   *)
(* statuses whether a worker has ever claimed it.                             *)
phase ==
    [j \in Jobs |->
        CASE status[j] = "NONE"         -> "absent"
          [] status[j] = "QUEUED"       -> "waiting"
          [] status[j] = "PENDING_PLAN" -> "ready"
          [] OTHER -> IF j \in claimed THEN "started" ELSE "closed"]

Lifecycle == INSTANCE JobLifecycle

(* The row of a job that was claimed never says QUEUED or PENDING_PLAN again, *)
(* and a job discarded, unlocked or timed out before a worker claimed it      *)
(* never runs, whatever late writes of approvals, discards, promotions,       *)
(* recovery and workers land on it.  The claim of a job of unknown operation  *)
(* leaves it ready; it starts, in these terms, with the first write to it.    *)
LifecycleHolds == Lifecycle!LifecycleSpec

(* Every job is eventually planned, failed or cancelled: a queued one is      *)
(* promoted or timed out, a claimed one runs to its end, one that a shutdown  *)
(* or a crash interrupts is failed by the next recovery.  Needs statements    *)
(* that do not fail, and no approvals: a job that is approved again and again *)
(* is always older than the next, and can keep the workers from it.           *)
EveryJobSettles ==
    \A j \in Jobs :
        status[j] # "NONE" ~> status[j] \in {"PLANNED", "FAILED", "CANCELLED"}

(* A worker always gets back to its loop: no wait for a row lock, for         *)
(* Terraform's state lock or for a shutdown is for ever.                      *)
WorkersReturn ==
    \A w \in Workers : stage[w] # "idle" ~> stage[w] = "idle"

=============================================================================
