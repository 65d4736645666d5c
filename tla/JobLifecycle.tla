---------------------------- MODULE JobLifecycle ----------------------------
(* What the orchestrator promises about one job, whatever the workers, the    *)
(* requests and the restarts do: it waits in its project's queue, is ready    *)
(* for a worker, and from there is either started, for good, or closed        *)
(* without ever having run.  No phase is entered again.                       *)
CONSTANT Jobs

VARIABLE phase    \* phase[j], one of Phases

Phases == {"absent", "waiting", "ready", "started", "closed"}

LifecycleInit == phase = [j \in Jobs |-> "absent"]

(* a new job is ready if its project is idle and waits otherwise *)
Submit(j) ==
    /\ phase[j] = "absent"
    /\ \E s \in {"waiting", "ready"} : phase' = [phase EXCEPT ![j] = s]

Promote(j) ==
    /\ phase[j] = "waiting"
    /\ phase' = [phase EXCEPT ![j] = "ready"]

(* the row of a claimed job leaves the statuses of a new one, and every later *)
(* write to it stays in this phase                                            *)
Begin(j) ==
    /\ phase[j] = "ready"
    /\ phase' = [phase EXCEPT ![j] = "started"]

(* discarded or unlocked before it ran *)
Close(j) ==
    /\ phase[j] \in {"waiting", "ready"}
    /\ phase' = [phase EXCEPT ![j] = "closed"]

(* the clean-up closes any number of waiting jobs together *)
TimeOut(S) ==
    /\ \A j \in S : phase[j] = "waiting"
    /\ phase' = [j \in Jobs |-> IF j \in S THEN "closed" ELSE phase[j]]

LifecycleNext ==
    \/ \E j \in Jobs : Submit(j) \/ Promote(j) \/ Begin(j) \/ Close(j)
    \/ \E S \in SUBSET Jobs : TimeOut(S)

LifecycleSpec == LifecycleInit /\ [][LifecycleNext]_phase

=============================================================================
