------------------------------ MODULE JobStore ------------------------------
(* The jobs table of the orchestrator's PostgreSQL database, and the SQL      *)
(* statements internal/db runs against it.  Every change the orchestrator     *)
(* makes to a job goes through one of the operators below.                    *)
(*                                                                            *)
(* A job is named by its rank in creation order, which stands for the         *)
(* created_at column the queries sort by; id 1 is the oldest row.  The column *)
(* is the NOW() of the insert and the rank the order of the commits: inserts  *)
(* that commit in another order than they began are not modelled.             *)
EXTENDS Naturals, FiniteSets

CONSTANTS
    MaxJobs,         \* bound: number of rows ever inserted
    Projects,        \* the projects jobs belong to
    Operations,      \* values of the free-text operation column
    ColumnStatuses,  \* values the status column accepts
    Faults           \* environment faults: subset of {"exec", "db"}

(* models.JobStatus *)
JobStatus == {"PENDING_PLAN", "PLANNING", "PLANNED", "APPROVED", "QUEUED",
              "APPLYING", "APPLIED", "DESTROYING", "DESTROYED",
              "FAILED", "CANCELLED"}

ASSUME MaxJobsAssumption  == MaxJobs \in Nat \ {0}
ASSUME ColumnAssumption   == ColumnStatuses \subseteq JobStatus
ASSUME FaultsAssumption   == Faults \subseteq {"exec", "db"}

Jobs == 1 .. MaxJobs

VARIABLES
    status,     \* status[j]: the status column, "NONE" while there is no row j
    project,    \* project[j]: the project_id column
    operation,  \* operation[j]: the operation column
    expired,    \* rows 1..expired were created longer ago than the queue timeout
    locked      \* rows an open transaction holds with SELECT ... FOR UPDATE

storeVars == <<status, project, operation, expired, locked>>

StoreTypeOK ==
    /\ status \in [Jobs -> JobStatus \union {"NONE"}]
    /\ project \in [Jobs -> Projects \union {"none"}]
    /\ operation \in [Jobs -> Operations \union {"none"}]
    /\ expired \in 0 .. MaxJobs
    /\ locked \subseteq Jobs

StoreInit ==
    /\ status = [j \in Jobs |-> "NONE"]
    /\ project = [j \in Jobs |-> "none"]
    /\ operation = [j \in Jobs |-> "none"]
    /\ expired = 0
    /\ locked = {}

-----------------------------------------------------------------------------
(* Queries *)

(* the status list of GetActiveJobForProject: QUEUED and DESTROYING are out *)
ActiveStatuses == {"PENDING_PLAN", "PLANNING", "PLANNED", "APPROVED", "APPLYING"}

(* the status list IsProjectActive excludes *)
FinishedStatuses == {"APPLIED", "DESTROYED", "FAILED", "CANCELLED"}

(* what recoverJobs looks for at start-up *)
StaleStatuses == {"PLANNING", "APPLYING", "DESTROYING"}

(* bug: the worker loop takes queued jobs too *)
ClaimableWithQueued == {"PENDING_PLAN", "APPROVED", "QUEUED"}

(* what the worker loop asks ClaimNextJob for *)
ClaimableStatuses == {"PENDING_PLAN", "APPROVED"}

Rows == {j \in Jobs : status[j] # "NONE"}

(* LIMIT 1 without ORDER BY: the caller gets any member *)
ActiveJobs(p) == {j \in Rows : project[j] = p /\ status[j] \in ActiveStatuses}

IsProjectActive(p) ==
    \E j \in Rows : project[j] = p /\ status[j] \notin FinishedStatuses

(* bug: no SKIP LOCKED and no wait for the row's lock *)
FirstEvenIfLocked(S, j) == j \in S /\ \A i \in S : j <= i

(* ORDER BY created_at ASC ... FOR UPDATE SKIP LOCKED LIMIT 1 over the rows S *)
FirstUnlocked(S, j) == j \in S \ locked /\ \A i \in S \ locked : j <= i

ClaimableJobs == {j \in Rows : status[j] \in ClaimableStatuses}

QueuedJobs(p) == {j \in Rows : project[j] = p /\ status[j] = "QUEUED"}

(* a statement naming a status the column does not accept is an error *)
Accepts(s) == s \in ColumnStatuses

-----------------------------------------------------------------------------
(* Statements and transactions *)

(* one INSERT: nothing in it looks at the other rows of the project *)
CreateJob(p, op, s) ==
    \E j \in Jobs \ Rows :
        /\ \A i \in Jobs \ Rows : j <= i
        /\ status' = [status EXCEPT ![j] = s]
        /\ project' = [project EXCEPT ![j] = p]
        /\ operation' = [operation EXCEPT ![j] = op]
        /\ UNCHANGED <<expired, locked>>

(* an unconditional UPDATE ... WHERE id = j; it waits for the row's lock *)
UpdateJobStatus(j, s) ==
    /\ j \notin locked
    /\ status' = [status EXCEPT ![j] = s]
    /\ UNCHANGED <<project, operation, expired, locked>>

(* the select of ClaimNextJob and of PromoteNextJob takes the row's lock *)
LockRow(j) ==
    /\ locked' = locked \union {j}
    /\ UNCHANGED <<status, project, operation, expired>>

(* ClaimNextJob's CASE looks at the operation only, whatever the row was *)
ClaimedStatus(j) ==
    CASE operation[j] = "plan"    -> "PLANNING"
      [] operation[j] = "apply"   -> "APPLYING"
      [] operation[j] = "destroy" -> "DESTROYING"
      [] OTHER                    -> status[j]

(* bug: the transaction is left open *)
CommitRowKeepsLock(j, s) ==
    /\ status' = [status EXCEPT ![j] = s]
    /\ UNCHANGED <<project, operation, expired, locked>>

(* commit of a transaction that gives its locked row j the status s *)
CommitRow(j, s) ==
    /\ status' = [status EXCEPT ![j] = s]
    /\ locked' = locked \ {j}
    /\ UNCHANGED <<project, operation, expired>>

Rollback(j) ==
    /\ locked' = locked \ {j}
    /\ UNCHANGED <<status, project, operation, expired>>

(* bug: the clean-up looks for the wrong status *)
FailTimedOutPending ==
    /\ status' = [j \in Jobs |-> IF j \in 1 .. expired /\ status[j] = "PENDING_PLAN"
                                   THEN "FAILED" ELSE status[j]]
    /\ UNCHANGED <<project, operation, expired, locked>>

(* one UPDATE over every expired row still QUEUED; it waits for locked rows *)
FailTimedOutJobs ==
    LET late == {j \in 1 .. expired : status[j] = "QUEUED"} IN
        /\ late \intersect locked = {}
        /\ status' = [j \in Jobs |-> IF j \in late THEN "FAILED" ELSE status[j]]
        /\ UNCHANGED <<project, operation, expired, locked>>

(* time: the oldest row not yet past the queue timeout gets past it *)
Age ==
    /\ expired + 1 \in Rows
    /\ expired' = expired + 1
    /\ UNCHANGED <<status, project, operation, locked>>

=============================================================================
