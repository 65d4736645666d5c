# TLA+ model of the OpenEnvX orchestrator

The orchestrator (`cmd/orchestrator`, `internal/`) accepts jobs over HTTP, runs
Terraform for them in a pool of workers, keeps every job as a row of a
PostgreSQL table, and stores plans, logs and Terraform state in an S3 bucket.
This directory holds a TLA+ model of it, the TLC configurations that check the
model on small instances, and TLAPS proofs of what holds on all of them. Paths
in this file are relative to the repository's root.

## 1. Inventory

| Component | Source | State | Operations |
|---|---|---|---|
| Job store | `internal/db/queries_jobs.go`, `queries_projects.go` | the `jobs` table, row locks of open transactions | create, update status, claim, promote, fail timed-out jobs, queries |
| HTTP API | `internal/api/handlers_jobs.go`, `handlers_projects.go`, `server.go` | requests in flight, each between its read and its write | create, approve, discard, get, stream logs; Terraform's GET, POST, LOCK, UNLOCK of a project's state |
| Worker pool | `internal/daemon/worker.go`, `worker_execute.go`, `worker_handlers.go` | per worker: the job and how far it is; the job directories; the plan objects | claim, execute (plan, apply, destroy), hooks, settle, promote |
| Daemon, process | `internal/daemon/daemon.go`, `cmd/orchestrator/main.go`, the systemd unit | the jobs recovery has fetched | start, recover, clean-up ticker, shutdown, restart |
| Log broker | `internal/pubsub/broker.go`, `handleStreamJobLogs` | subscribers and their buffers of 100 lines | subscribe, unsubscribe, publish |
| Hook runner, log pipeline | `runHooks`, the errgroup of `executeJob` | a process, a pipe, two readers | run, read, wait, cancel |
| Terraform runner | `internal/terraform` | output buffers | write the backend, init with three attempts, plan, apply, show |
| Object storage | `internal/storage` | objects | ensure bucket, upload, download, stat |
| Auth, secrets | `internal/auth`, `queries_organizations.go`, `internal/infisical` | none | check a request; read a project's secrets |
| Schema, dashboard, Terraform modules | `packages/db`, `apps`, `modules` | the column types | none of the orchestrator's behaviour |

How they interact. The jobs table is the only channel between the API, the
workers and the daemon: a worker finds work by polling the table every second,
a discard reaches a running job only if the worker looks at its row, and a
queue moves only when a worker that ends a run promotes the next row. Terraform,
run by a worker, calls back into the same process's API to lock, read and
unlock the state of its project.

What is hard about it.

* Handlers read and write in two statements with no transaction, and their
  writes are unconditional. Anything may happen to the row in between.
* Claim and promotion are transactions that skip rows others have locked.
* Three definitions of a busy project exist and differ: `GetActiveJobForProject`
  (no `QUEUED`, no `DESTROYING`), `IsProjectActive` (everything unfinished) and
  the claimable statuses of the worker loop.
* A shutdown cancels the context that the final status writes and promotions
  use, so they fail, and the next start's recovery has to settle what is left.
  Workers of the new process are already claiming when it reads the table.
* The state lock depends on the status of the job that asks for it.
* Output travels from a process through a pipe, a reader, a second pipe, a
  scanner and the broker to its followers. Each hop can end first, and the
  others wait for it or must be let go.
* `cmd.Wait` closes a hook's pipe while its reader may still be reading, and
  two copiers share a `bytes.Buffer` that has no lock.
* Streams come and go while several goroutines publish under a read lock.

What makes each component correct.

* Store: a row is given to one worker at a time; queues are first in, first out.
* API: a job closed before it ran never runs; what can be approved has a plan.
* Workers: a job shown in progress has a worker that will write its outcome; a
  job directory is always removed; a job is not run twice at once, with the two
  exceptions of section 3.
* Daemon: after any restart every job is eventually settled.
* Broker: nothing is sent to a closed channel; a stream gets its lines in order
  and loses one only when it is full; publishing never waits for a client.
* Hooks and log pipeline: a run that succeeds has lost no output; a run that is
  over leaves nothing behind; every run comes to an end.

## 2. Modules

| Module | Models | Extends |
|---|---|---|
| `JobStore` | the table, its queries, statements and transactions, as operators | |
| `ApiServer` | the handlers that change a job: a read and decision (`Start...`), then a write (`Finish...`) or none (`DropRequest`) | `JobStore` |
| `WorkerPool` | a worker's turn: claim, set up, init, lock, run, check, upload, finish, clean up, fail, promote | `JobStore` |
| `Orchestrator` | the process: start, recovery, clean-up, shutdown, exit, crash; composes the two above; states the properties | `ApiServer`, `WorkerPool` |
| `JobLifecycle` | abstract specification of one job's life | |
| `Claims` | sentences of documents, comments and tests that the code refutes | `Orchestrator` |
| `MCOrchestrator` | symmetry for TLC | `Claims` |
| `LogFeed` | abstract specification of the broker: who gets which line | |
| `LogBroker` | `Broker` and the stream handler: the read-write lock, subscribe, unsubscribe, publish, one channel send at a time; implements `LogFeed` | |
| `LogPipe` | where a command's output goes: readers, pipe, log scanner, log buffer | |
| `JobRun` | one `executeJob` from the inside: executor, commands, hooks, retries, cancellation | `LogPipe` |
| `OrchestratorProofs` | proofs of types, plans, and that only plan and destroy jobs run | `Orchestrator` |
| `ExclusionProofs` | proofs about row locks and exclusive runs | `OrchestratorProofs` |
| `RecoveryProofs` | proofs about job directories and jobs in progress | `OrchestratorProofs` |
| `LifecycleProofs` | proof that the orchestrator implements `JobLifecycle` | `ExclusionProofs` |
| `QueueProofs` | proof that a project's queue is first in, first out | `ExclusionProofs` |
| `LogBrokerProofs` | proofs about types and closed channels, and that the broker implements the feed | `LogBroker` |
| `JobRunProofs` | proofs about what a run leaves behind, records and logs | `JobRun` |
| `RunOutputProofs` | proofs about the lines of a run: bounds, completeness, and that nobody is stuck | `JobRunProofs` |

The three parts meet at named points and are checked apart. `JobRun` is the
inside of the stages `init`, `lock`, `run`, `check` and `upload` of
`WorkerPool`, which sees of it only that it succeeds or fails at some stage;
the lines `JobRun` counts as streamed or told are the calls of `Publish` that
`LogBroker` starts from.

The lower modules define actions over their own variables; `Orchestrator` adds
what stays unchanged and when each may run. An operator marked `bug:` in a
comment is no part of the model: it is a plausible mistake that replaces the
definition after it to show that a property would notice.

### State and code

* `status`, `project`, `operation`: the columns. A job is its rank in creation
  order, which stands for `created_at`; `"NONE"` means there is no row. The rank
  is the order in which inserts commit, `created_at` the `NOW()` at which they
  began: an older row that becomes visible after a younger one, and rows of equal
  `created_at`, are not modelled.
* `locked`: the rows open transactions hold. Selecting and committing are two
  steps, so others can meet the lock: claims and promotions skip it, updates
  wait for it.
* `expired`: the clock. Jobs 1 to `expired` are past the one-hour queue timeout.
* `req[c]`: the write a request has decided on. `overtaken` is a history
  variable: jobs that got an approval after they were no longer PLANNED.
* `stage[w]`, `job[w]`: the worker's program counter and its `job` variable. A
  stage boundary is a call on something shared (table, bucket, directory, state
  lock). While promoting, `job[w]` is the row being promoted.
* `plans`: the `jobs/<id>/tfplan` objects. `workDirs`: the directories under
  `/tmp/openenvx-jobs`. `claimed`: history, the jobs a worker has ever claimed.
* `daemon`, `stale`: where `Daemon.Start` is, and the rows `recoverJobs` has
  fetched and not yet written.

`Blocked` collects what the code itself makes fail: a directory another run has
removed (`DirectoryGone`), an unknown operation (`HandlerMissing`), an apply
without its own plan (`PlanMissing`), and the state lock or unlock while the
project has an active job (`StateRefused`). The unlock fails because
`UnlockProjectState` compares Terraform's lock id with a job id; Terraform
reports the failed unlock as a failed command. The other failures are faults,
enabled by the constant `Faults`: `"exec"` (secrets, bucket, Terraform, hooks,
the log pipe or the upload fail, at any stage and even after the result was
written) and `"db"` (a statement fails, before or after taking effect).

`ColumnStatuses` are the values the status column accepts. The shipped schema
(`packages/db/src/schema/jobs.ts`) lacks `QUEUED`; the tests create the column
as text. The `handlers` and the other runs cover both.

### Broker and code

* `sync.RWMutex` is `writer` and the number of publishers that are `inside`:
  a goroutine that wants to write is announced first (`AskToWrite`) and keeps
  new readers out until it has been in.
* `subscribers` has sets where the code has slices. A publisher goes through
  them one by one in any order (`todo`): the order of subscribers of one job is
  nothing a stream can see.
* `buffer[s]` is the channel, `conn[s]` where the request is. A stream leaves
  when its client does or a write fails; nothing else ends it.
* A line is its publisher and a number, modulo `Numbers`. `Capacity` is 100 in
  the code.

### A run and code

* `pc` is the executor goroutine: Terraform init, pre hooks, the command, post
  hooks, recording. A list of hooks is empty or has one hook: a second is the
  same process again. `attempt` counts calls of `terraform init`; the pause
  after a failed one may be cut short by the context.
* `proc` is the current command, `wants` the stream it blocks on while the pipe
  is full, `unread` the pipe. What a program prints and how it exits is open.
* `at[src]` is the goroutine that reads `src`: for Terraform the two copiers of
  `terraform-exec`, for a hook the scanner of `runHooks`. `tfexec` and
  `os/exec` are external: a command is killed and tfexec's read ends are closed
  when the context is done, `Wait` closes a hook's read end after its exit, and
  a copier's write error fails the command only through the context.
* A write to the pipe of `executeJob` and the scanner's read of it are one step
  (`WritePipe`), since `io.Pipe` has no buffer. The `MultiWriter` writes to the
  pipe first and stops at its error; only then comes the log buffer. A hook's
  reader goes on and publishes the line itself, which is why every hook line is
  streamed twice.
* `scan` is the log scanner. Both scanners stop at a line over 64 KB (`"long"`).
* `damaged`: the two copiers may be in `bytes.Buffer.Write` together, a data
  race. It may lose a line or crash the process (an index out of range in the
  buffer); both are outcomes of `WriteLog`.
* `done` is the errgroup's context: cancelled by the first error of either
  goroutine or by the shutdown.
* `recorded`, `result`: the write of the result and the return of `executeJob`.

### Left out of these modules

Data columns and the object contents; writes that change only data
(`UpdateJobSummary`, run logs, `GetState`, `PostState`); request validation and
authentication; the delay between polls; the five-second limit of the promotion
(a failed statement stands for it). A write in flight when the context is
cancelled is either done before the shutdown or not at all, except the commits
of claims, which may still land. Requests that arrive after the shutdown are
refused; those already accepted may finish until the process exits.

Children that a killed hook leaves behind and that keep its pipe open are not
modelled: the pipe has one writer. `terraform show` and `terraform destroy` are
not either: the first is part of recording, and nothing calls the second, since
`handleDestroy` only makes a plan with the destroy flag.

## 3. Runs

| Run | Checks | Instance |
|---|---|---|
| `handlers` | `TypeOK`, `PlannedHasPlan`, `ExclusiveRun`, `LifecycleHolds` | 1 job of any operation (one unknown), 2 requests, 2 workers, both faults, 1 stop, shipped column |
| `recovery` | `InProgressHasWorker`, `NoLeakedWorkDir`, `LifecycleHolds` | 2 plan jobs, 1 request, 2 workers, failing runs, 1 stop |
| `queue` | `LockedByOne`, `PromotionIsFIFO` | 4 plan jobs of 1 project, 2 workers |
| `settling` | `EveryJobSettles`, `WorkersReturn` | 2 plan jobs, discards, 2 workers, failing runs, 1 stop, fairness |
| `stream` | `BrokerTypeOK`, `NoSendToClosed`, `FeedHolds`, `PublishReturns`, `StreamsLeave` | 2 jobs, 2 publishers, 2 streams, channels of 1 line, fairness |
| `jobrun` | `RunTypeOK`, `CompleteOnSuccess`, `QuietAfterReturn`, `RecordedMeansClean`, `LogWasStreamed`, `NobodyIsStuck`, `RunReturns`, `CancelledRunReturns` | 1 run, at most 3 lines of either length, pipes of 1 line, 3 attempts, fairness |
| `claim_approve` | `ApprovalDispatchesApply` is violated | 1 plan job |
| `claim_cancel` | `CancelledStaysCancelled` is violated | 1 plan job |
| `claim_plan` | `LonePlanSucceeds` is violated | 1 plan job, no faults |
| `claim_apply` | `FreshApplySucceeds` is violated | 1 apply job, no faults |
| `claim_create` | `OneActiveJob` is violated | 2 requests |
| `claim_lock` | `StateLockExclusive` is violated | 2 destroy jobs, 2 workers |

Bounds and why they are enough. `MaxJobs` bounds rows, `MaxStops` shutdowns and
crashes; nothing else is bounded. A stale write needs a second request
(`handlers` has two, which also allows a double approval); a race for a row
needs two workers; two workers that promote rows of one project at the same
time need two finished and two queued jobs, the four of `queue`; a stop at any
point and what recovery makes of it needs one
stop. The properties of `handlers` are about one job at a time, and the job's
own row is what makes its project active; of the four operations one is unknown,
so its claims leave the row claimable. The state lock across two jobs is met
in `recovery`, and in `claim_lock`. The safety runs of
`MCOrchestrator` use symmetry of workers, requests and projects, `settling` uses
none.

In `stream` two publishers may be inside `Publish` for one job with two
subscribers each, so lines cross; a channel of one line is empty or full, which
is all that `Publish` and the stream handler tell apart; two jobs show that
nothing goes to the wrong one. Numbers modulo 2 tell a line from the one before
it. That lines keep their order inside a longer channel is not met in this run:
the theorem `BrokerImplementsFeed` shows it for every capacity. The state space
is finite without further bounds. In `jobrun`, `MaxLines` bounds what the commands of a run print
together: one line can be in a reader, one in the pipe and one can block the
command, which is when every hop waits for the next. `PipeSize` counts lines
where a pipe has 64 KB, and the hook that prints on after an overlong line
needs two more lines. Every hook, retry and failure is within these bounds.

Fairness. Each worker's turn, its abandoning a run when the context is
cancelled, the daemon's next step and the clock are weakly fair: the goroutines
are scheduled, the tickers tick, the unit has `Restart=always`, and Terraform
and the database answer or fail. The last is an assumption: no run has a
timeout in the code, and `JobRun` shows one kind of hook, `HookStuck`, that
blocks its run until the next shutdown. `EveryJobSettles` and `WorkersReturn`
hold for runs without such a hook: a stuck one keeps its worker, and its job in
progress, until the process is stopped. Nothing is assumed of clients, shutdowns and crashes. The
liveness properties exclude approvals and failing statements on purpose. A job
that is approved again and again is always the oldest claimable row, so it can
keep a worker from the next one; and after a failed final write a row stays in
progress until a restart.

In the broker, the steps inside `Publish`, `Subscribe` and `Unsubscribe` are
strongly fair: `sync.RWMutex` lets in a goroutine that waits although others
come and go, so a step that is enabled again and again is taken. Reading from
a channel, hanging up, opening streams and calling `Publish` are not fair: a
client may stay and never read. In `JobRun`, each reader, the scanner, the
executor and the command are weakly fair. For the command this is the assumption
above that a program does not hang by itself; printing is bounded by `MaxLines`,
so it exits unless it is blocked on a pipe. The shutdown is not fair: that a run
returns must not depend on it.

What the passing runs show. The locks of claims and promotions give each row to
one worker at a time. Two workers run one job at once in two cases, and no
other:

* an approval was decided on while the job was PLANNED and written later, when
  the job had moved on, so that it is claimed once more;
* no handler knows the job's operation. The API accepts any, and the claim of
  such a job leaves it PENDING_PLAN (`ELSE j.status`, `queries_jobs.go:366`), so
  every worker that polls while the first one is in `terraform init` claims it
  too, and they share its directory. None of these runs gets past init, and
  it ends when one of them has written FAILED.

`ExclusiveRun` states both exceptions. Recovery covers every way to stop,
including jobs the new workers claim while it runs. A job closed before a worker
claimed it never runs. The row of a claimed job never says QUEUED or PENDING_PLAN
again once a write took it out of these statuses, which for a known operation is
the claim itself. A job of unknown operation stays `ready` in the terms of
`JobLifecycle`, and claimable, until the first write to it. Every job settles, if
only by the queue's timeout: a discard, a recovery or a lost promotion leaves the
queue without anyone to move it until the clean-up.

The broker never sends to a closed channel and is never held up by a client;
what a stream gets is what `LogFeed` promises, which leaves open that lines of
two publishers reach two streams in different orders.

A run that succeeds has streamed and logged all its output, a run that returned
has left nothing running, and a result is recorded only if every command ended
with an exit code its caller takes for success: 0, and for a plan also 2. Three things a reader may not expect are part of these statements.

* A hook that exits with 0 can fail its job: `Wait` closes the pipe under the
  reader, whose error `runHooks` returns. Output is lost, but never silently.
* A hook that prints a line over 64 KB and goes on printing blocks for ever.
  `RunReturns` and `NobodyIsStuck` make this exception, `HookStuck`, and no other;
  `CancelledRunReturns` says that a shutdown ends it. The same line from
  Terraform fails the run at once.
* The log scanner can fail after the result was recorded; the job is then
  written `FAILED`. `CompleteOnSuccess` makes an exception of the log, not of
  the stream, when the unlocked buffer was damaged.

What the violations show.

* `claim_approve`: an approved plan job is claimed as PLANNING and planned again.
* `claim_cancel`: a cancellation that arrives during a run is overwritten.
* `claim_plan`: with nothing failing around it, the run of a lone plan job fails,
  because Terraform's LOCK is refused for the very job that runs it. A plan job
  gets to PLANNED only if it is discarded while it runs.
* `claim_apply`: with nothing failing around it, the run of an apply job fails at
  the download of `jobs/<its own id>/tfplan`, which nobody stores. The lemma
  `NoApplyRuns` shows that this is so for every apply job: none gets past the
  download, and no job is ever recorded APPLIED or DESTROYED.
* `claim_create`: concurrent requests create two runnable jobs of one project.
* `claim_lock`: two destroy jobs hold the lock of one project together.

Disagreements and doubtful behaviour that no run is about.

* `internal/api/server_test.go:139-151` expects a second create request for a
  busy project to be refused with 409 and `Project is locked`. The handler has no
  such answer: it inserts a `QUEUED` job and answers 201, or 500 on the shipped
  column. The model does what the code does (`Inserts`, `Submit` to `waiting`).
* A worker's PLANNED may replace the FAILED that recovery wrote for the same job
  (`daemon.go:76`), and `executeJob` may fail after PLANNED was written, which
  replaces it by FAILED (`worker_execute.go:97`). Both are in the model. The
  repository does not say which status is right, so no property forbids them.
* The lost answer of a committed claim (`queries_jobs.go:411`) leaves a job in
  progress without a worker until a restart. `handlers` explores it;
  `InProgressHasWorker` and `EveryJobSettles` assume that statements do not fail.

## 4. Proofs

For every value of the constants:

| Theorem | Statement | Module |
|---|---|---|
| `TypeCorrect`, `TypeOKHolds` | `Spec => []TypeInv`, `Spec => []TypeOK` | `OrchestratorProofs` |
| `PlannedHasPlanHolds` | `Spec => []PlannedHasPlan` | `OrchestratorProofs` |
| `LockedByOneHolds` | `Spec => []LockedByOne` | `ExclusionProofs` |
| `ExclusiveRunHolds` | `Spec => []ExclusiveRun` | `ExclusionProofs` |
| `NoLeakedWorkDirHolds` | `Spec => []NoLeakedWorkDir` | `RecoveryProofs` |
| `InProgressHasWorkerHolds` | `Spec => []InProgressHasWorker` | `RecoveryProofs` |
| `OrchestratorImplementsLifecycle` | `Spec => LifecycleHolds`, the refinement | `LifecycleProofs` |
| `PromotionIsFIFOHolds` | `Spec => PromotionIsFIFO`, an action property | `QueueProofs` |
| `BrokerTypeOKHolds` | `BrokerSpec => []BrokerTypeOK` | `LogBrokerProofs` |
| `NoSendToClosedHolds` | `BrokerSpec => []NoSendToClosed` | `LogBrokerProofs` |
| `BrokerImplementsFeed` | `BrokerSpec => FeedHolds`, the refinement | `LogBrokerProofs` |
| `QuietAfterReturnHolds` | `RunSpec => []QuietAfterReturn` | `JobRunProofs` |
| `RecordedMeansCleanHolds` | `RunSpec => []RecordedMeansClean` | `JobRunProofs` |
| `LogWasStreamedHolds` | `RunSpec => []LogWasStreamed` | `JobRunProofs` |
| `OutputInvHolds` | `RunSpec => [](RunInv /\ OutputInv)` | `RunOutputProofs` |
| `RunTypeOKHolds` | `RunSpec => []RunTypeOK` | `RunOutputProofs` |
| `CompleteOnSuccessHolds` | `RunSpec => []CompleteOnSuccess` | `RunOutputProofs` |
| `NobodyIsStuckHolds` | `RunSpec => []NobodyIsStuck` | `RunOutputProofs` |

`TypeInv` adds to `TypeOK` that a worker outside its loop has a job; without it a
commit could write to no row. `PlanInv` strengthens the other two, which are not
inductive by themselves: a pending approval must name a job with a plan
(`ApprovalsHavePlan`), a worker about to write its result must have uploaded it
(`ResultsHavePlan`), plans belong to rows that are not apply jobs
(`PlansOfRows`), a worker past the download runs a plan or a destroy job
(`OnlyPlansRun`), and requests, workers and recovery only hold rows that exist, since a row
created later under a plan's id would break all of it. That nothing
is applied (`NoApplyRuns`) follows: an apply job needs its own plan to get past
`init`, and only jobs past `init` write plans.

`LockInv` says that workers in a transaction hold their row, that no two hold
the same, and that no lock is left without a holder. `ExclusiveRun` needs it,
and two facts about the status of rows: a row in a transaction keeps the status
it was selected for, because every other write waits for its lock
(`SelectedStatus`), and a job that runs and was not overtaken has a status that
nothing claims, promotes or approves (`RunningStatus`). So the
claim of a job of known operation that another worker runs can only follow an
approval that overtook it (`KnownExclusive`). For the others `OnlyPlansRun` is
enough: their runs end at the switch over the operation.

`NoLeakedWorkDir` is inductive. `InProgressHasWorker` is not, because recovery
runs in several steps: `ProgressInv` adds that while recovery runs, a job in
progress has a worker or is still on the list recovery fetched.

The refinement of `JobLifecycle` maps a row to its job's phase: QUEUED is
`waiting` and PENDING_PLAN is `ready` whoever claimed the job, and any other
status is `started` if a worker has ever claimed it and `closed` if none has. Two
things have to be shown of the rows. One that was claimed must not get back into
the queue: `ClaimedLeftQueue` says that none is QUEUED, so promotions and the
clean-up, which find queued rows only, never touch it, and the other writes
(`StartingWrite`) give it the status of a run, of an approval or of an end. One
that nobody has claimed must not get such a status: it has one that an insert, a
promotion, a discard or the clean-up gives (`UnclaimedStatus`), and whoever holds
a write that would make it another, an approval in flight, the recovery or a
worker that runs, holds it for a job that was claimed (`ApprovedWereClaimed`,
`StaleWereClaimed`, `RunningWereClaimed`). `SelectedStatus` gives the step from
ready to started and from waiting to ready. The claim of a job of unknown
operation stutters, as `Finish`, `MarkFailed`, recovery and approvals mostly do;
the first of them after such a claim is its `Begin`. The clean-up is `TimeOut` of
all expired queued rows at once.

`PromotionIsFIFO` speaks of one step, but whether a row was skipped rightly is
decided when the promotion selects its own. `SkippedAreLocked` carries it to the
commit: the older queued rows of the project are locked for as long as the
promotion is open. Only the claim and the promotion that hold a row unlock it,
and then it is no longer queued; a rollback or a shutdown would unlock a queued
row, which is why the property excludes them. A row created meanwhile is younger
than the selected one, because rows are created in order (`RowsInOrder`). The
proof reduces all actions to what they do to rows (`RowStep`) and to locks
(`LockStep`).

`BrokerInv` says, besides the types and `NoSendToClosed`, that a stream is
registered for a job exactly while its request is open or leaving and was asked
for that job (`RegistryExact`), that a request has a job until it is off
(`Connected`), and that a publisher has something to do only inside `Publish`
(`InPublish`). Since a stream is registered or removed only by the writer, and
the writer is in only when no publisher is inside, what a publisher has copied
stays true until it leaves. The refinement follows step by step: `Subscribe` is
`Follow`, `Unsubscribe` is `Leave`, `BeginPublish` is `Announce` to exactly the
registered streams, `Offer` is `Deliver` or, on a full channel, `Miss`,
`WriteLine` is `Read`, and all other steps stutter.

`RunInv` has four parts, each inductive with those before it. `Types` leaves out
the bounds of the counters. `Control` ties the executor, the command and the
readers together: outside a command's stage no process exists, without a
process all readers are off and the pipes empty, and the readers that are on
are those of the current command. `Clean` follows a failed command to the end of
the run: until the executor has seen it, it is the current command. `Logging` is
`LogWasStreamed` with the line a reader is about to log, which the bare
statement lacks.

`OutputInv` follows each line. `Streaming` says that the lines of a source which
the log scanner has got (`Sent`), and those in its pipe or with its reader
(`Waiting`), are together no more than were printed, and exactly as many unless
the source is excused: the run is `Disturbed` and will fail, or the reader has
given up, which `GivenUp` turns into a failure when the command returns.
`Telling` says the same of the hook's own publishing, `Undamaged` that the log
has exactly the lines the scanner got while the buffer is sound, `Room` that a
command prints only within its bounds. Every action moves at most one line of
each source one place on, or drops lines with an excuse (`LinesMove`), and no
excuse is ever withdrawn (`ExcusesStay`); the arithmetic is done once, on these
moves. A run that succeeded has no excuse and empty pipes, so what was printed
was sent. The invariant also bounds the counters, which `RunTypeOK` adds to
`Types`.

`NobodyIsStuck` is the part of `RunReturns` that needs no fairness: the command,
its readers, the scanner and the executor hand lines on through bounded pipes
and wait for each other's ends, and never all wait at once. Its `...CanGo`
operators repeat the guards of the actions, because the prover has no `ENABLED`;
on the instance of `jobrun` TLC finds each equivalent to `ENABLED` of its
actions. The invariant `Released` says how those who give up let the others go:
a reader or a scanner that ends before the command does has the context
cancelled, or will with the scanner's next step, or the hook has exited. Then a
command that waits for room in a pipe has a reader that can go on, or is killed;
or it is the stuck hook.

Assumptions: `MaxJobs` is a positive natural number, `MaxStops` a natural number,
the column's values are statuses and the faults are known ones. The proofs hold
for either column type and with both faults. `"none"` is no job and no stream,
and capacity, line numbers, pipe size and attempts are positive.

So every invariant, action property and refinement of the passing runs has a
proof. Model-checked only: the liveness properties `EveryJobSettles`,
`WorkersReturn`, `PublishReturns`, `StreamsLeave`, `RunReturns` and
`CancelledRunReturns`, since liveness under fairness is out of the prover's
reach; and the violated claims, for which one counterexample is all there is to
show. The inductive invariants were checked by TLC on the instances of section 3
before they were proved.

## 5. Plan

Order of work, the most important behaviour first.

1. Done: the job's life from request to settled row (`JobStore`, `ApiServer`,
   `WorkerPool`, `Orchestrator`), its abstract specification, first theorems.
2. Done: the log broker (`LogFeed`, `LogBroker`), its refinement and proofs.
3. Done: the inside of a run with its hooks, log pipeline, and Terraform init's
   attempts against cancellation (`LogPipe`, `JobRun`), first theorems.
4. Done: the theorems of section 4, up to the refinement of `JobLifecycle`, the
   order of the queue, and the completeness and the waiting of a run.
5. Left: who waits for whom on the broker's lock and on row locks, as invariants
   like `NobodyIsStuck`; and an abstract specification of one run that `JobRun`
   and the stages of `WorkerPool` both implement.

### Not modelled

* Authentication and the secrets client: stateless checks and reads. A failing
  read of secrets is a failing setup stage of `WorkerPool`.
* `GetState` and `PostState` copy a state file between Terraform and the bucket
  without looking at it. What two runs that hold the lock together do to it is
  the question `claim_lock` answers one step earlier.
* `internal/storage` is calls of the S3 client; of the bucket only the plan
  objects matter to another component.
* The text of plan summaries: `processJob` writes the end of the log over the
  plan that `handlePlan` has stored, and cuts it at any byte. No property of the
  modelled state depends on it.
* The dashboard and the Terraform modules have no part in the behaviour.

## 6. Running the checks

    tlc -workers 2 -config handlers.cfg MCOrchestrator
    tlc -workers 2 -config claim_cancel.cfg Claims
    tlapm OrchestratorProofs.tla
    tlapm ExclusionProofs.tla
    tlapm RecoveryProofs.tla
    tlapm LifecycleProofs.tla
    tlapm QueueProofs.tla
    tlc -workers 2 -config stream.cfg LogBroker
    tlc -workers 2 -config jobrun.cfg JobRun
    tlapm LogBrokerProofs.tla
    tlapm JobRunProofs.tla
    tlapm RunOutputProofs.tla
