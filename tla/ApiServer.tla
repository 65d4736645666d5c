------------------------------ MODULE ApiServer ------------------------------
(* The HTTP handlers that change a job.  Each handler first reads the table   *)
(* and decides, then writes in a second statement; other handlers, workers    *)
(* and the daemon run between the two, and the write repeats no condition.    *)
EXTENDS JobStore

CONSTANTS
    Clients,       \* concurrent requests the server is handling
    RequestKinds   \* subset of {"create", "approve", "discard", "unlock"}

VARIABLES
    req,        \* req[c]: the write request c has decided on and not yet made
    overtaken   \* history: jobs an approval was written to after they left PLANNED

apiVars == <<req, overtaken>>

NoRequest == [kind |-> "none"]

Inserts == [kind : {"insert"}, project : Projects, operation : Operations,
            status : {"PENDING_PLAN", "QUEUED"}]

Updates == [kind : {"update"}, job : Jobs, status : {"APPROVED", "CANCELLED"}]

ApiTypeOK ==
    /\ req \in [Clients -> {NoRequest} \union Inserts \union Updates]
    /\ overtaken \subseteq Jobs

ApiInit ==
    /\ req = [c \in Clients |-> NoRequest]
    /\ overtaken = {}

-----------------------------------------------------------------------------
(* the first half of a handler: it reads, decides and holds the write w *)
Decide(c, kind, w) ==
    /\ kind \in RequestKinds
    /\ req[c] = NoRequest
    /\ req' = [req EXCEPT ![c] = w]
    /\ UNCHANGED <<storeVars, overtaken>>

(* handleCreateJob up to the INSERT: a busy project queues the new job *)
StartCreate(c, p, op) ==
    Decide(c, "create",
           [kind |-> "insert", project |-> p, operation |-> op,
            status |-> IF IsProjectActive(p) THEN "QUEUED" ELSE "PENDING_PLAN"])

(* handleApproveJob: 400 unless the job is PLANNED when it is read *)
StartApprove(c, j) ==
    /\ status[j] = "PLANNED"
    /\ Decide(c, "approve", [kind |-> "update", job |-> j, status |-> "APPROVED"])

(* handleDiscardJob: 400 for four statuses, every other job may be discarded *)
StartDiscard(c, j) ==
    /\ j \in Rows
    /\ status[j] \notin {"APPLYING", "APPLIED", "FAILED", "CANCELLED"}
    /\ Decide(c, "discard", [kind |-> "update", job |-> j, status |-> "CANCELLED"])

(* handleUnlockProjectState called by hand with the id of the active job *)
StartUnlock(c, p) ==
    \E j \in ActiveJobs(p) :
        Decide(c, "unlock", [kind |-> "update", job |-> j, status |-> "CANCELLED"])

(* the INSERT; a status the column does not accept is answered with a 500 *)
FinishCreate(c) ==
    /\ req[c].kind = "insert"
    /\ req' = [req EXCEPT ![c] = NoRequest]
    /\ IF Accepts(req[c].status)
         THEN CreateJob(req[c].project, req[c].operation, req[c].status)
         ELSE UNCHANGED storeVars
    /\ UNCHANGED overtaken

(* the UPDATE of an approval, a discard or an unlock *)
FinishUpdate(c) ==
    /\ req[c].kind = "update"
    /\ req' = [req EXCEPT ![c] = NoRequest]
    /\ UpdateJobStatus(req[c].job, req[c].status)
    /\ overtaken' = IF req[c].status = "APPROVED" /\ status[req[c].job] # "PLANNED"
                      THEN overtaken \union {req[c].job}
                      ELSE overtaken

(* the client hangs up, or the statement fails: nothing is written *)
DropRequest(c) ==
    /\ req[c] # NoRequest
    /\ req' = [req EXCEPT ![c] = NoRequest]
    /\ UNCHANGED <<storeVars, overtaken>>

=============================================================================
