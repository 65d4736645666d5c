------------------------------- MODULE Claims -------------------------------
(* What the repository's documents, comments and tests say of the             *)
(* orchestrator, and the code does not do.  Each definition is refuted by a   *)
(* run of its own.                                                            *)
EXTENDS Orchestrator

(* TESTING.md:73, on approving a PLANNED job: "A new "Apply" execution will   *)
(* be dispatched by the Orchestrator."  A worker that takes an APPROVED job   *)
(* is about to apply it.                                                      *)
ApprovalDispatchesApply ==
    [][\A j \in Jobs :
        status[j] = "APPROVED" /\ status'[j] \in StaleStatuses =>
            status'[j] = "APPLYING"]_vars

(* worker_test.go:117: "Verify that the job status was not updated to         *)
(* PLANNED" after a cancellation that arrives while the plan runs.            *)
CancelledStaysCancelled ==
    [][\A j \in Jobs : status[j] = "CANCELLED" => status'[j] # "PLANNED"]_vars

(* TESTING.md:66: "Once the job status is `PLANNED`".  The run of a plan job  *)
(* that is alone in its project, with nothing failing around it, returns no   *)
(* error.                                                                     *)
LonePlanSucceeds ==
    \A w \in Workers : stage[w] = "abort" => operation[job[w]] # "plan"

(* worker_test.go:208, of handleApply for an apply job created a moment       *)
(* before: "assert.NoError(t, err)".  The run of an apply job with nothing    *)
(* failing around it returns no error.                                        *)
FreshApplySucceeds ==
    \A w \in Workers : stage[w] = "abort" => operation[job[w]] # "apply"

(* queries_test.go:120, on concurrent calls for one project: "Exactly one     *)
(* CreateJob should succeed".  A project has at most one active job.          *)
OneActiveJob ==
    \A p \in Projects : Cardinality(ActiveJobs(p)) <= 1

(* queries_projects.go:37: "the project is "locked" if there is an active     *)
(* job".  The lock Terraform takes on a project's state keeps other runs of   *)
(* that project out until it is released.                                     *)
StateLockExclusive ==
    \A v, w \in Workers :
        v # w /\ stage[v] = "run" /\ stage[w] = "run" =>
            project[job[v]] # project[job[w]]

=============================================================================
