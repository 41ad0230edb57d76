# TLA+ models of the software factory

This directory specifies the factory in `src/factory`: a Go control plane over one
SQLite database, off-host workers that run coding agents in git worktrees, a command
line client, and a web cockpit. The modules are translated from the code under `src/`,
checked with TLC on small instances, and, where TLAPS can prove it, for all instances.

## The system

A *Run* admits a list of *Work* (rows of `sessions`). A Work is given to a worker by
queueing its *Execution* row; a worker that polls for work *claims* it, which opens an
*Attempt* with a lease. The worker renews the lease by heartbeats, starts the agent,
reports stages and agent updates and finally completes the attempt. A sweeper in the
server ends attempts whose lease ran out. An operator approves, answers, cancels,
retries, replaces and rebuilds Work and can pause the factory.

Everything the control plane knows is in SQLite, opened with `_txlock=immediate`: each
handler is one serialised transaction. The concurrency is therefore between
*transactions* of clients that do not know of each other, and between a transaction and
what a client does before and after it: a worker's runtime, GitHub, the file system.

| Component | Source | State | Interacts through |
|---|---|---|---|
| Work lifecycle | `controlplane/state.go`, `task_claim.go`, `resume.go`, `approval.go`, `replace.go`, `build.go`, `tasks.go` | `sessions`, `executions`, `attempts`, `runs` | transactions |
| Pipelines | `stage_runs.go`, `pipelines.go` | `session_stages` | attempts, verdicts |
| Outcome ledger | `work.go` | `work_updates`, `work_answers` | agent, worker, operator |
| Delivery | `ready_verification.go`, `automerge.go`, `github.go` | GitHub, `work_updates` | GitHub API outside transactions |
| Worker registry | `store.go` | `workers`, `worker_repositories`, capacity acknowledgements | registration calls |
| Admission, pause | `admission.go`, `settings.go`, `procedures.go`, `pipelines.go`, `critique.go` | `tasks`, `pipelines`, `runs`, `factory_settings` | request keys |
| Scheduler | `task_scheduler.go`, `schedule_cron.go` | `task_occurrences` | clock |
| Planning | `planning.go`, `roadmap*.go` | checkpoints, stones, pebbles | cockpit, Work that cites a checkpoint |
| Fake cloud | `fake_cloud.go`, `execution_profiles.go` | profile versions, synthetic attempts | the tables of Work |
| Repository cache and locks | `worker/repository_cache.go`, `repository_coordination.go` | cache entries, reservations, locks | attempts, cleanup |
| Event forwarding | `worker/events.go`, `controlplane/state.go` | queue, `attempt_events` | HTTP retries |
| Recovery | `recovery.go` | files, markers | rename and fsync |
| Enrolment | `worker_auth.go`, `worker/identity.go` | codes, credentials | HTTP retries |
| Worker | `worker/*.go` | manifest, worktrees, locks | HTTP, processes |
| CLI | `factorycli/*.go` | admission journal | HTTP retries |

`PROJECT.json` lists every component, also those left out, and every hazard with the
line where it bites.

### Hard behaviours, and what makes each component correct

* **Work lifecycle.** Three tables are updated by separate statements, each with a state
  guard of its own, and a guard that matches no row is no error. Correct: the rows agree,
  one attempt holds a Work, a lost worker is fenced, a question stays answerable, limits
  hold over every way into the queue, and a work item has one chain of Work.
* **Pipelines and delivery.** GitHub is called outside transactions, and the branch, its
  checks, its people and the factory's own retry move in between. Correct: what is merged
  is what was verified and approved, and the ledger claims a merge only when there was one.
* **Worktree custody.** A worktree, a manifest, a journal and a capacity reservation are
  four records in two programs. Correct: nothing on the disk is unaccounted for, nothing
  unsaved is removed without a human, the limit bounds the disk, capacity comes back.
* **Worker registry.** Routes give away a worker's cache places before anything is cloned, and
  a registration, taken earlier, gives them back. Correct: no place is given away twice or
  taken from Work that waits for it, and the pages tell what a route would find.
* **Claims and registrations.** One worker process runs claim goroutines, probes,
  registrations and completions that wait for each other, over calls that are retried.
  Correct: one attempt for one request, and no claim by a worker that is no longer trusted.
* **Supervision.** The goroutine of an attempt, its heartbeats, its timers, the update socket
  and the supervisor process stop each other over calls that get lost. Correct: an agent does
  not outlive its lease, no attempt is completed beside a running agent, and each one ends.
* **Schedules, enrolment, admission journal, backups.** Each is a sequence of durable
  steps that a crash may cut. Correct: what was started is finished once, or can be.
* **Admission.** `AdmitWork` is several transactions, and its request may be repeated at any
  time; Work of a Procedure is retried, replaced and rebuilt by handlers that look at
  different Work. Correct: one Run per request key, of what was submitted, refused only for a
  cause, and what was followed once is neither followed nor opened again.
* **Planning.** What cites a checkpoint does so by its number, which an insertion changes,
  and the page is read in several queries. Correct: a closed plan stands, a citation keeps
  its meaning, and what the page shows of a closed checkpoint belongs to that one.
* **Locks, cache, event queue, fake cloud.** Goroutines share a bounded resource that one of
  them may leave broken. Correct: the bound holds, nobody waits for ever, nothing is lost
  without a trace.

## Modules

| Module | Models | Composed by |
|---|---|---|
| `WorkLifecycle` | the control plane's ledger of Work | `MCWorkLifecycle` |
| `WorkPromise` | what that ledger promises, abstractly | `WorkLifecycle` (refinement mapping `Promise`) |
| `WorkLifecycleProofs` | theorems about `WorkLifecycle` | |
| `RepositorySwitch` | the answer to a request to disable a repository, over that ledger | |
| `PipelineDelivery` | one Work's stages, ready report and merge, with GitHub | `MCServer`, `MCPipelineDelivery` |
| `Planning` | a project's route, its splits and passes, and the page | `MCServer` |
| `Admission` | how a submission becomes a Run, with Tasks, Pipelines and Procedures | `MCServer` |
| `WorktreeCustody` | the worker's disk and the server's capacity reservations | `MCWorker` |
| `WorkerRegistry` | which worker may have which repository: routes, reservations, registrations | `MCWorker` |
| `ClaimProtocol` | a worker's claims and registrations, with the server's claim rows | |
| `AttemptSupervision` | one attempt on its worker: stages, heartbeats, the supervisor process and its agent | |
| `RepositoryLock` | what a repository lock promises, abstractly | `RepositoryLocks` (refinement) |
| `RepositoryLocks`, `RepositoryCache`, `EventForwarding` | what the goroutines of a worker share | `MCProtocols` |
| `FakeCloud` | the dispatcher of a cloud profile | `MCProtocols` |
| `Schedules`, `Enrollment`, `AdmissionJournal`, `RecoveryPublication` | one protocol each | `MCProtocols` |
| `WorkHistoryProofs`, `WorkLimitsProofs` | more theorems about `WorkLifecycle`: histories, lineages and the promise; limits | |
| `ServerProofs`, `WorkerProofs`, `ProtocolsProofs` | theorems about `MCServer`, `MCWorker`, `MCProtocols`: one component after the other | |
| `ClaimProofs`, `SupervisionProofs` | theorems about `ClaimProtocol`, `AttemptSupervision` | |

Every mutated operator (its comment says "Mutant") stands before the definition whose
bug it is; no specification uses it.

### `WorkLifecycle`

One action per handler. `state`, `owner`, `cancelShown`, `approved`, `resume`,
`predecessor` are columns of `sessions`; `exec`, `cancel`, `assigned` of `executions`;
`attempt`, `lease`, `outcome` of the attempt rows, indexed by attempt number, and of
their ending `work_updates` row; `answered` is `work_answers`; `done` is
`runs.terminal_at`; `paused` is the settings row. `root` is what the recursive lineage
query of `validateWorkRetryGuards` computes. `eligible` stands for every reason why
`selectSessionRoute` accepts a worker (health, heartbeat, repository, retained
worktrees); its action `RegisterWorker` changes it arbitrarily, and `WorkerRegistry` says how.

| Action | Handler |
|---|---|
| `AdmitTask`, `AdmitBuild` | `admitTask` (Task, Procedure, `AdmitWork`), `AdmitBuild` |
| `ApproveWork`, `AnswerWork`, `RetrySession`, `ReplaceWork` | the handlers of those names |
| `CancelSession`, `CancelRun`, `SetFactoryPause` | the handlers of those names |
| `DisableRepository` | `SetManagedRepositoryEnabled`, when it disables |
| `Claim` | `Claim` with `materializeBlockedSessionForWorker` and `rerouteQueuedSessionForWorker` |
| `StartAttempt`, `Heartbeat`, `AppendAgentUpdate`, `CompleteAttempt` | the worker's calls |
| `Tick`, `SweepExpired` | time, and the sweeper |

A refused call writes nothing and has no action. A call with a wrong lease token is one
of these. The Pipeline has a single stage here, the one `CompleteAttempt` finishes itself.

### `WorkPromise`

What the ledger promises about one Work in seven phases. `WorkLifecycle` implements it
under the refinement mapping `Promise` at its end (`KeepsPromise`): every transaction,
with all the rows it writes, is one step of the promise or a stutter.

### `RepositorySwitch`

`WorkLifecycle` with one request to disable a repository and its answer. The request takes
back every queued Work of the repository or, when one of them has attempts, fails as a
whole, because the rows of its attempts refer to the execution that would be deleted.

### `PipelineDelivery`

One Work with a Pipeline of `last + 1` stages and an assurance, `fast` or reviewed, both
chosen at its admission. `work` stands for session, execution and attempt, which
`LedgerAgrees` shows to agree; `stage` and `verdict` are the columns of `session_stages`;
`outcome`, `evidence`, `pr`, `verified` are the delivery columns; `rows` counts `merged`
rows of `work_updates`. `pass` and `judged` are history: the attempt a retry last began
with, and the one a verdict was given in. GitHub is external: a branch head that grows,
checks that go red and green, a human who may merge.

| Action | Handler |
|---|---|
| `StartStage`, `CompleteStage` | the handlers of those names |
| `VerifyReady`, `RecordReady` | `verifyReadyDelivery` before, and the transaction of, `AppendAgentUpdate` |
| `CompleteAttempt`, `SweepExpired`, `CancelSession`, `RetrySession`, `AnswerWork` | their effect on stages and delivery columns |
| `Decide`, `ReadChecks`, `CallMerge`, `RecordMerge`, `RecordMergeRefusal` | `maybeAutoMerge`, step by step |
| `AbandonMerge` | server death, or the request context cancelled, between two of these steps |

### `WorktreeCustody`

One worker and one repository. The server's part is the attempt, whether its capacity was
acknowledged (`released`) and what the last registration counted; the worker's is its
manifests, its disposal journal, the worktrees themselves, and what its process knows.

| Action | Code |
|---|---|
| `Claim`, `SweepExpired` | the control plane, with its limit of retained worktrees |
| `CreateManifest`, `GitAdd`, `AddFailed`, `RecordWorktree`, `Work` | `runAttempt`, each durable write a step |
| `BeginDispose` ... `EndHandoff` | `disposeOrRetain`, `finishWithoutWorktree`, `complete`, under `registrationMutex` |
| `Register`, `RegistrationAnswered`, `RegistrationLost`, `RemoveManifest`, `ClearDisposals` | `registerLocked`, `removeDisposedManifests` |
| `Start`, `Reconcile...`, `Ready` | `New`, `reconcile` |
| `Cleanup`, `Edit` | the `cleanup` command in place of the worker, a human in the worktree |
| `Crash` | the process ends between any two of these |

Abstracted: a manifest that cannot be written ends like a crash; the identity checks of
reconciliation accept what the factory made itself; repository locks; what the agent does.

### `WorkerRegistry`

`row` is `worker_repositories`, one row per worker and repository: a configured checkout
("static") or a reservation ("dynamic"), advertised or not. `managed`, `cached`, `accepts` and
`available` are the columns of `repositories` and `workers` a route reads, `stage` and `at`
those of a Work. The worker's part is what it has configured, cloned, retained and is at
(`doing`); `flight` is a registration on its way, the snapshot `registrationLocked` took.

| Action | Code |
|---|---|
| `Submit` | `admitTask` with `selectRunRoute`, which queues the Work and reserves, or blocks it |
| `Claim` | `Claim` with `materializeBlockedSessionForWorker`, `rerouteQueuedSessionForWorker` |
| `Acquire`, `End`, `Clean` | `acquireManagedRepository`, the capacity handoff, the `cleanup` command |
| `Register`, `RegisterWorker`, `RegistrationFails` | the snapshot, the transaction that applies it, a refusal or loss |
| `Expire`, `Fade`, `Probe`, `Restart` | `SweepExpired`, the online window, GitHub access, a new process |
| `Cancel`, `CreateManagedRepository`, `SetEnabled` | the handlers of those names |

`Routed`, `CanTake` and `Reserve` are the parts of `selectRunRoute`; `WorkerPage` and
`RepositoryPage` are the two pages that tell an operator who is ready. A page calls one
worker ready where `CanTake` finds it (`PagesAreRight`).

Abstracted: the load that ranks eligible workers (any may be chosen), runtimes and capacity
(`WorkLifecycle`), the limit on retained worktrees (`WorktreeCustody`). A worker has at most
one configured checkout, under one key, and a worker whose registration was refused stays
unhealthy. `overtaken` is history: a lease expired between the snapshot of a registration, a
clone and the arrival of that snapshot, the one case in which the server gives away a place
that is taken; see "Also seen".

### `ClaimProtocol`

The goroutines of one worker and the claim rows of the server. `ReserveAndClaim` to
`EndClaim` are `claimOnce`; `BeginHandoff`, `Complete`, `EndHandoff` the capacity handoff
of an attempt; `BeginHealthCheck`, `SetHealth`, `MarkUnhealthy` the probe and its result;
`Register`, `RegisterWorker`, `RegistrationAnswered`, `HeartbeatAnswered`, `CallLost`,
`RegistrationRefused` the registration call and its ends. `generation` numbers what the
worker knows of its health and capabilities, `advertised` is what the call under way
tells, `stored` what the server was told. A claim that times out leaves a copy in `late`,
which `ClaimLate` may still apply; `SweepExpired` ends attempts and forgets empty rows.

Assumed: a registration the worker gave up on is not applied later (its handler runs under
the context of the request), and an empty row outlives every copy of its claim
(`EmptyClaimTTL` is far above the client's timeout).

### `AttemptSupervision`

One attempt of `Last` stages, each an agent or a command, on a worker that is not short of
anything. `step` says where `runAttempt` stands, one value between any two of its calls;
`beat` is the heartbeat goroutine; `phase`, `pipe`, `fuse`, `grace`, `why` are the
supervisor process, the commands under way to it, its lease timer, what its process group
is left, and the reason of its exit message; `runtime` is the agent; `server`, `lease`,
`cancel`, `outcome`, `stage` are the columns of the control plane.

| Action | Code |
|---|---|
| `NextStage` ... `CompleteStage`, `CommandEnds` | `runAttempt`, `runCodeStage`, `runCodeStageInAttempt` |
| `Finish`, `Complete` | `finishWithWorktree`, `complete` with the server's `CompleteAttempt` |
| `HeartbeatAttempt`, `HeartbeatAnswered`, `HeartbeatFailed` | `heartbeatAttempt` |
| `SessionTimer`, `Shutdown` | `sessionTimer`, `stopAll` |
| `ReadCommand`, `Wake`, `KillGroup` | `RunSupervisor` and `superviseRuntime`: commands, timers and ends, the stop |
| `AgentReports`, `RecordOutcome`, `NotifySupervisor` | `handleAgentUpdate`, `respondAcceptedAgentUpdate` |
| `RuntimeExits`, `SupervisorDies`, `WorkerDies`, `UpdateLost`, `Tick` | processes, a connection and time |

`waitForSupervisorMessage` reads two channels, and a dead supervisor writes one error to the
second. If a message is still buffered in the first one when the error is read, the message
is returned and the error is gone (`Unheard`): the next wait ends only with the worker.
`AttemptEnds` therefore says that an attempt ends *or* waits for a supervisor that died
unheard (`Deaf`); see "Also seen".

Every call to the control plane is refused, applied and answered, applied with its answer
lost, or lost. The worker's clock and the server's are taken to run in step: a lease is one
number that both count down, where the code compares `lease_expires_at`, stamped by the
server, with the worker's own clock. Time is counted in ticks, two to the termination grace of five seconds, and
only passes while somebody waits: local steps and timers are prompt, which is what the lease
guarantees need of the machine. A supervisor may die at any moment, and a
stop may fail to be verified. `began` is history: what was left of the lease when the agent
was started. `RuntimeWithinLease` makes two exceptions. A report leaves the agent ten
seconds, five more than the supervisor keeps back before the lease ends, so an agent that
reported may outlive a lease that nobody renews by that much. And an agent started with
less than the grace left outlives the lease by what was missing.

Abstracted: delivery stages (`PipelineDelivery`), the worktree (`WorktreeCustody`), output
and cost, manifests that cannot be written, descendants that leave the process group.

### `Planning`

One project. `route` maps a number to the row of its checkpoint; `stones` and `pebbles` are
the split of a frozen one, `passes` the sessions that carry a planning triple. The number
is the only reference any of them holds, so each row carries a ghost: which checkpoint it
is, the text a pebble was cut from, the checkpoint a pass named when it was admitted.

| Action | Code |
|---|---|
| `UpsertCheckpoint`, `InsertCheckpoint`, `TransitionCheckpoint` | the handlers of those names |
| `ReplacePebbles`, `MarkPebbleBuilt` | `ReplacePlanningPebbles`, `MarkPlanningPebbleBuilt` |
| `AdmitPass` | `admitTask` with a planning triple |
| `ListNumbers` | `planningCheckpointNumbers` |
| `ReadRow`, `ReadStones`, `ReadPebbles` | `PlanningCheckpoint`, one query each |
| `ReadPasses`, `SendPage` | `readRoadmapPasses` with `roadmapApplyPasses`, `readRoadmap` |

The page is read by number throughout, so what it puts on one card may come from different
checkpoints. The model follows one card, any one: the cards are read alike and none depends
on another. `PageTellsTruth` says that freezing is what protects a reader: a checkpoint
that was closed when the numbers were listed is shown as itself, and a card whose row was
read closed has pebbles cut from the text it shows and passes that criticised the checkpoint
it shows. Nothing is promised of an open checkpoint; see "Also seen".

Left out: several projects, dates, the saved answers, the limits on the length of a page, and
what the page computes from its reads alone (`roadmap_work.go`, and the live pass of
`roadmap_passes.go`): the state of a pebble by the recent Work of its id or title, the
colour of a stone, the pass that is still running.

### `Admission`

Requests to `AdmitWork`, one per client, and the operators beside them. `Submit`, `Replay`,
`ReadPause`, `CreateTask`, `Adopt` and `AdmitTask` are the transactions and reads of one
request, in the order of the code; `Fail` ends it between two of them. Every other action
is one transaction: `RunTask`, `ProcedureRun`, edits of Tasks and Pipelines, the pause.
`Restart` is the repair of the built-in Pipeline when the server starts. A Run freezes the
prompt and Pipeline of its Task, and one Work stands for all of its Work.

That Work ends (`Finish`) and is opened again (`Retry`, which is `RetrySession`), and
`Replace`, `ProcedureRun` and their `after` are `ReplaceWork`, `AdmitProcedureRun` and
`predecessor_work_id`. The guards differ: a rebuild (`selectProcedurePredecessors`) asks that
no Work of the Procedure is open, and a retry or replacement (`validateWorkRetryGuards`) only
that nothing followed the Work and none of its own line (`Root`) is open. So older Work may be open
beside a rebuild, and `OneLine` says exactly when: it was retried since. The ghost `since`
counts the Runs there were when a Work was last opened.

### `RepositoryLocks` and `RepositoryLock`

`RepositoryLocks` has every step of `acquire`: the entry, its reference count, the select on
its one-token channel with the order of its receivers, a context that ends while it waits,
the poison mark and the release. `RepositoryLock` is what that promises, one goroutine inside
and none after a poison, and `LocksARepository` is the refinement. Entries are a fixed set
of objects; an entry nobody refers to can be allocated again.

### `RepositoryCache`

`acquireManagedRepository` of several repositories at a time: the entry on disk, the
reservation, the clone into a temporary directory, the rename, the validation. A crash
keeps the disk and loses the reservations; the scan at start rebuilds what is known. The
removal of a temporary directory succeeds. An operator may delete an entry by hand.

### `EventForwarding`

The agent's lines, the bounded queue, the goroutine that sends one event at a time and
repeats it until it is answered, and the log the server stores under the attempt's lease.
A full queue ends the intake for good, a refused event the goroutine.

### `FakeCloud`

The Work of one Run on one profile. A pass of `dispatchOneFakeCloud` is one transaction and
one action, whose earlier alternatives (a cancelled attempt, an overdue one, a release, a
start) go first. Beside it, operators edit the profile, whose versions a Run freezes, cancel
Work and pause the factory. The repository stays enabled; retries are `WorkLifecycle`'s.

### `Schedules`

One Task. `ClaimDue`, `Admit` and `Finish` are the three transactions of the scheduler
goroutine; `Crash` loses what it holds between them; `UpdateTask`, `SetTaskArchived`,
`DiscardTaskOccurrence`, `SetRepositoryEnabled` and `SetFactoryPause` run in between.
The clock counts instants, and a cron expression is any rule that names a later one.
`now` never passes `MaxTime` and edits stop at `MaxGeneration`.

### `Enrollment`

A worker that exchanges a one-time token for the credential it invents: `enroll` with each
durable change of a file as a step, adoption of an earlier release's files, and the
server's `ExchangeWorkerEnrollment`, which a late copy of a call may still reach. A file
is written to a temporary name, linked and synced, so a write is one step. A pending file
of an earlier release may be given up for a new one when its token is refused, so
`CredentialSafe` promises the disk only to credentials this release invented.

### `AdmissionJournal`

Several CLI processes that run `build` or `run` without a request key: the scope lock, the
journal lock, reading and replacing the journal, one post, printing, forgetting the key;
any of them may be interrupted between two steps. An explicit `--request-key` uses no
journal. Assumed: a post that was abandoned is over once a new one with the same key is
answered, since its handler runs under the context of the request.

### `RecoveryPublication`

`publishSnapshot` and the recovery of an interrupted one: two links of two staged files,
removed in reverse order after an error. `Foreign` is a file of somebody else. A power
loss that reorders directory entries which were not synced, and a removal that fails, are
not modelled.

### `MCProtocols`, `MCServer` and `MCWorker`

Components that share no state are checked in one run side by side: `part` chooses one of
them, and the others rest in one of their initial states. Each property of the run is a
property of one part, restated under its name. `MCServer` has delivery, planning and admission, `MCWorker` custody and the worker registry,
`MCProtocols` the locks, the cache, event forwarding, the fake cloud, schedules, enrolment,
the admission journal and backups.

## Runs

| Run | Question | Instance |
|---|---|---|
| `solo` | do the rows of one Work agree through losses, questions, retries and cancellations; is the gate kept; what may no step do to a lost attempt, a cancellation, a checkpoint | 1 gated Work, 3 attempts, 2 workers |
| `limits` | run and worker limits; a question gives up its slot and its answer competes for it; the run's terminal mark; a silent worker's attempts end | 2 Work in a run limited to 1, 1 Work of another run, 1 worker of capacity 1, fairness |
| `items` | build, rebuild, retry, answer and replacement of one work item; refinement of `WorkPromise` | 3 runs of one Work |
| `server` | stage rows; what is merged, on whose approval, when the branch moves, answers are lost, the server dies; what a renumbering and a torn read do to a plan and its page; one Run per request key; which Work of a Procedure may be open at once | 1 to 3 stages, 2 attempts, 2 commits; 2 checkpoints, 2 splits, 1 pass; 2 clients, 2 submissions, 2 edits, a Run by hand; 4 Runs of a Procedure |
| `refusal` | expected violation: "refused" does not mean unmerged | 2 stages, 1 attempt, 1 commit |
| `custody` | worktrees, manifests and capacity over crashes and lost registrations; places in repository caches over routes, claims and late snapshots | 2 attempts, limit 2, 2 crashes, fairness; 2 workers, 2 repositories, 2 Work, a cache of 1, 3 changes |
| `journalled` | expected violation: a journalled disposal whose manifest still says "preparing" | 1 attempt, 1 crash |
| `claims` | claims against probes, registrations, heartbeats and handoffs | 2 requests, 2 slots, 2 generations, fairness |
| `supervision` | no agent outlives its lease, nothing is completed beside a running agent, every attempt ends | 2 stages of either kind, a lease of 3 ticks, a grace of 2, a timeout of 3, fairness |
| `exit` | expected violation: an agent's exit after its report decides the attempt | 1 stage |
| `protocols` | locks, repository cache, event forwarding, the fake cloud, schedules, enrolment, the admission journal, backups | see below, fairness |
| `disable` | expected violation: a repository that cannot be disabled while a retried Work waits | the instance of `solo` |

Bounds. `MaxAttempts` caps the attempts of one Work: three are needed where a lost
attempt, a question and its answer follow each other; the other runs relate Work to each
other and use one. `LeaseTicks = 1` makes every call possible in time and late; a longer
lease only adds ticks between. Two Work compete for a limit of one, a third for the worker
they share, and a lineage of three has a middle. Two commits are one more than was
verified, two attempts one more than was approved. Two crashes are one during normal work
and one during the recovery from the first. In the registry, two Work want the one place
of a cache, two workers let Work move, and three changes (`MaxChanges`: registrations,
lapses, probes, restarts, switches) register a worker twice and switch or restart
something in between; one worker begins without a configured checkout, both with GitHub
access, which a probe may take away, and the repositories are managed but for one that is
only a checkout. Two claims meet in the two slots of a worker, and a second generation is
one that a call under way does not tell. In `supervision`, two stages hand over from one
supervisor or command to the next; a lease of three ticks and a grace of two leave one
between a renewal and the supervisor's timer, in which a heartbeat may come or not, and let an
agent be started with less than the grace left; the timeout may come before, with and after
the end of the lease, and a report's grace is longer than the group's. In `protocols`,
three instants and three generations let an occurrence be overtaken and edited twice; two
tokens and two credentials allow a replacement of each; two processes, three scopes and a
journal of two entries let it fill up and two commands meet; four backups one after the
other allow an interrupted one, an interrupted recovery of it, a recovery and a
repetition. Three goroutines are a holder and two that wait, over two repositories; three
repositories compete for a cache of two, with a crash and a crash after the restart; a
queue of two, a budget of three and five lines fill both, and two lost answers lose a
request and its repetition; three cloud Work meet a Run limit of two and a profile limit
that an edit moves between one and two. In `server`, two checkpoints and one spare number
let an insertion shift a row that is cited and one that is not; two requests and two
submissions of one Task name meet as duplicates and as namesakes, and two edits rename a
Task and put another in its place. The two splits are a pebble of a stone and one without a
stone, so that either replaces the other. Admission is checked twice, since requests and lines of
Work need different bounds: in the part `admission`, requests and edits meet one Run by hand
and all Work stays open; in `lines`, one submission's Run is followed by three of
`RunTask`, `AdmitProcedureRun` or `ReplaceWork` in any order, with retries and ends between
them and no edits, which is a rebuild, a retry of what is older, and a rebuild of either. The
clients and the request keys of Procedures are symmetric.

`CHECK_DEADLOCK FALSE` stands where a component may stop: an attempt that ended and was
released, a worker whose generations, tokens or crashes are used up, a finished backup.

Fairness. `limits`: `Tick`, since time passes, and `SweepExpired`, since the server's
ticker loop calls it for ever; nothing is assumed of workers or operators, and `LeasesEnd`
supposes that from some moment on nobody renews a lease, which is the crash it is about.
`custody`: the sweeper ticks, some goroutine of the worker runs, its process is restarted
and registers periodically; strong fairness for what waits for a mutex, which Go grants in
the end, and for a registration and a `git worktree remove` tried for ever, of which one
succeeds. `claims`: a claim's goroutine goes on and gets the mutexes it waits for, a probe
that ended is taken by the Run loop, a call under way ends, and not every answer is lost.
`supervision`: the calls of an attempt end or time out, the supervisor reads its pipe and
its timers fire, and time passes; nothing is assumed of heartbeats, the agent, the
operator or the sweeper. `protocols`: a worker that runs goes on, and not every exchange
is lost; a goroutine that may take a lock, or has taken it, goes on, and a channel serves its
receivers in order, as Go's do; the event goroutine and the fake cloud's loop run. A
behaviour stays in its part, so the weak fairness conditions of three parts are stated as
one, of their disjunction. Nothing is assumed of operators.

## Findings

* `refusal`: `CompleteAttempt` notes a refusal for every error of `maybeAutoMerge`, also
  after GitHub merged; its comments say that the merge did not happen.
* `journalled`: `finishWithoutWorktree` journals an attempt before its manifest leaves
  `preparing`. A crash in between leaves a journal entry whose manifest is never
  reconciled and which every registration then refuses: the worker stays unhealthy.
* `exit`: the agent is answered before its supervisor is told of its report. If it exits
  with an error in between, its stage fails, `finishWithWorktree` still asks for success, and
  `CompleteAttempt` refuses it as `pipeline_incomplete`: the attempt is never completed and
  ends as lost, though a comment says that the exit code must not decide the attempt.
* `disable`: `local.md` says how an operator stops new work in a repository. The request
  fails whenever a queued Work of it was tried before: the executions it deletes are referred
  to by attempts (`migrations/001_controlplane.sql:60`), the transaction fails as unavailable
  and the repository stays enabled.

Also seen, and not called a finding: after a supervisor died, a wait may take a buffered
`started` or `output` message together with the error that tells of the death
(`attempt_lifecycle.go:759-773`). Nothing is stopped then, the next wait is for ever, and
heartbeats renew the lease until an operator cancels the Work, which ends them and with them
the lease, or the worker ends; the wait itself is woken neither by a cancellation nor by
the session's timer, which only write to the pipe of a process that is gone. `docs/tasks/design.md:334` calls `next_due_at` the
next unclaimed instant, but `claimDueTask` leaves it until the occurrence ends. An attempt
whose claim answer never reached a worker keeps its unit of the worktree limit for ever once
it ended. The context of a code stage kills only its shell, so a command that left children
is awaited until they close its output, and none of them is stopped when the worker dies.
A supervisor that is greeted with less than the termination grace left may still read `start`
before its timer fires (`leaseStopDelay` never answers less than a millisecond, and the
`select` chooses either): its agent outlives the lease by less than the grace. A supervisor
that has stopped its group and left, before the worker sends it `start`, makes
the worker take the group for unverified: the attempt is retained and the worker unhealthy.
Of two backups to one destination, one removes the database of the other that is between its
two links (`recovery.go:318`); the other then reports success and its database is gone
(`ReportedIsComplete` of `RecoveryPublication`, violated with `AtOnce = 2`).

From the worker registry: a registration takes its snapshot before a clone and arrives after the
lease of that clone's Work expired: it gives the place of the clone back, and the server
routes one repository more to that worker than it can keep. The next registration corrects
the books; the Work that was routed meanwhile fails at the worker's own limit
(`CacheNotOvercommitted` without `overtaken`). And a checkout dropped from the configuration
of the only worker leaves Work that was queued there unclaimable: `Claim` wants an advertised
row, and only a route asked for by another worker's claim makes one, though both pages call
the worker ready.

From admission: `admission.go:15-18` says that its prefixed keys never collide, but `RunTask`
accepts `work:x` as a key, and `AdmitWork` of `x` is then answered with that Run. The
built-in Pipelines are repaired at every start, which fails, and with it the start, once an
operator's Pipeline has the title of one (`critique.go:85`; `CritiqueRepaired`). `CreateTask`
counts its 500 Tasks before it meets the name that is taken, and nothing deletes Tasks: at
the limit, the retry of an admission that created its Task is refused. Adoption compares the
prompt and the runtime, not the Pipeline, and `AdmitWork` does not look up the checkpoint
its planning triple names. A rebuild refuses to begin beside open Work of its Procedure, but
the retry of older failed Work of another line is then granted beside the open rebuild
(`work.go:563-580` looks at the line only), so two Work of one Procedure run in one repository.

From planning: "Every pebble reaches the page exactly once" (`roadmap.go:294`) does not hold
of a split that is replaced between two queries of the page (`EveryPebbleShown`). An
insertion when the highest number is 999 makes row 1000, which no request can address and
which the page refuses to read. The page fails as a whole, too, when an insertion below a gap moves
a number away that was listed and not yet read. And the card of a checkpoint that was
still open when its row was read may show the pebbles and passes of another one.

## Proofs

Every safety invariant and every action property of the passing runs, and both refinements,
are theorems: TLAPS proves them for all values of the constants that the modules' named
assumptions admit, where a run shows them on one instance. Each proof has the same three
parts: an inductive invariant, one lemma per group of actions that it is kept, and a last
step that puts them together. Where a component is one of several in `MCServer`, `MCWorker`
or `MCProtocols`, a first lemma says that a step of the whole is a step of the component or
leaves its variables alone, and the rest is about the component.

### The ledger of Work

* `TypeCorrect`, `LedgerConsistent` (`WorkLifecycleProofs`). `TypeOK /\ LedgerAgrees` is
  inductive: only the newest attempt of a Work is open, and its state is the state of the
  session and of the execution. Neither half is inductive alone, since the guarded updates
  of `EndSession` and `SweepExpired` move a session only from the state its execution is in.
  Frame lemmas say that rows nobody writes keep agreeing.
* `ConsentNeverBypassed`, `DeliveryBacked`, `CheckpointNewest`, `ResultsKept`
  (`WorkHistoryProofs`). Every transaction does one of a few things to a Work (`WorkStep`),
  and `HistoryInv` adds what the histories need: an answered question belongs to an ended
  attempt, and the checkpoint a Work resumes from is its newest question but for one whose
  attempt is still open.
* `ItemsPursuedOnce`. `LineageInv`: two live Work differ in root and in item, and an item has at
  most one Work that nobody replaced; a retry, a rebuild or a replacement moves that place on.
* `LedgerKeepsPromise`: the mapping of `WorkPromise` takes each `WorkStep` to a step of the
  promise or to a stutter. The invariants above are what makes the mapped guards true.
* `LimitsAlwaysExact` (`WorkLimitsProofs`). The counters of a run change by one where one
  Work changes sides, so each handler is a claim about the cardinality of a set that gains
  or loses a member; it needs that the Work of a run is a finite set.

### Delivery, admission and planning (`ServerProofs`)

* `ProgressAlwaysTold`, `MergesAlwaysApproved`, `DeliveryAlwaysStands`. The stages before the
  current one are done and those behind it untouched; a verdict the merge goes by was given
  since the last retry; who is past the decision to merge has seen a delivery that may be
  merged; what GitHub merged is what the merge call named.
* `AlwaysAdmittedOnce`, `AlwaysRefusedForCause`. An admission is several transactions, and what
  one of them found may be outdated when the next begins. The invariant says which part of it
  stays true: Tasks and Runs only come into being, names and pipelines change by an edit, and
  an edit is remembered as the cause. Of the lines of Work (`FollowedRests`, `OneFollows`,
  `OlderRest`), a new Run follows one that rests and that nothing followed; a retry opens one
  that nothing followed, and stamps it with the Runs there are, so that it is never older
  than a rebuild it is open beside; a rebuild begins while all Work of its Task rests.
* `RouteAlwaysStands`, `PageAlwaysTellsTruth`. Rows of frozen checkpoints keep number and text,
  and an insertion shifts a row and what cites it together. `PageInv` follows a read through its
  queries: from the moment its checkpoint is known to be closed, the number it reads by still
  means that checkpoint, because no write moves a closed row (`PageStays`), and each query
  then finds what belongs to it, because citations follow (`ReadKept`).
* `ServerTypesHold` joins the three. `DeliverySafe`, `AdmissionSafe` and `PlanningSafe` name the
  inductive invariants.

### The worker

* `AgentAlwaysWithinLease` (`SupervisionProofs`). A renewal that is still in the pipe tells no
  more than the lease, an armed timer fires a grace before what it was told ends, a supervisor
  nobody greeted starts nothing, and whatever the worker completes follows the supervisor's
  exit. From these: a stopping group's grace ends with the lease, but for the two exceptions.
* `WorktreesAlwaysAccountedFor`, `UnsavedWorkAlwaysSurvives` (`WorkerProofs`). An attempt whose
  goroutine still answers for it is not released; any other worktree on the disk is retained
  or its worker has failed; and what is on the disk or about to be (`Prospective`) is within
  the limit, which is stronger than the limit on the disk and inductive where that is not.
* `PlacesAlwaysKept`. What fills a cache or may still fill it (`Filled`) is among what the
  server takes for taken (`Taken`) as long as it accepts the worker, and all that happened
  since the snapshot of a registration under way are clones for Work that is still open: that
  is what `overtaken` tells apart. A transaction
  writes its rows in several updates, so that the lemmas are stated of any books and not of
  the variables. That a claim's walk through the queue ends at a Work some worker can take is
  an induction over sets of numbers, proved with the finite-set lemmas `HighestExists` and
  `StepsReach` since the induction theorems cannot be instantiated.
* `ClaimsAlwaysSafe` (`ClaimProofs`). The rows of the server fit the requests of the worker,
  and a copy of a request that timed out finds the row of its first copy; a registration under
  way tells a generation no older than what was advertised and no newer than the worker's; a
  claim that is pending is one of a healthy worker.

### The small protocols (`ProtocolsProofs`)

* `CacheAlwaysBounded`: known entries and reservations are disjoint and together within the
  limit, and every clone under way is one of them.
* `LogAlwaysSound`: the log, the event under way and the queue are consecutive; an answer that
  was lost leaves an event that is in the log already.
* `AdmissionsAlwaysKept`: whoever is past the read holds the lock of its scope, and its entry is
  in the file until it has reported it.
* `CredentialAlwaysSafe`: at most one credential is invented, it stays in one of two files, and
  the final file names the one the server stores.
* `OccurrencesAlwaysOnce`, `PendingAlwaysKept`: what the scheduler holds between its
  transactions is the pending occurrence, or one that somebody discarded.
* `PublicationAlwaysSafe`: for one backup at a time (`AtOnce = 1`), with the names of half a
  publication tied to the staging directory it came from. With two the property is false, as
  told under "Also seen".
* `LocksAlwaysARepository`: an entry stays in the map while somebody refers to it, its references
  are counted exactly, and one goroutine has its token; every step is then one of
  `RepositoryLock` or a stutter.
* `CloudAlwaysSound`: all Work of a Run froze the same version, so its limits are the same.
* `ProtocolTypesHold`: the conjunction of these invariants implies every part's types; it adds
  that whoever is in a lock's queue waits for that lock and is there once.

### Assumptions, and what is left to TLC

The theorems use the assumptions that the modules state about their constants (finite sets,
positive bounds, markers like `None` that are no element of the sets), which TLC evaluates
in every run, and `PublicationAlwaysSafe` uses `AtOnce = 1`. Bounds such as `MaxAttempts` or
`MaxChanges` stay parameters: the theorems hold for each value of them.

Model-checked only: liveness under fairness, which is out of the prover's reach
(`LeasesEnd`, `ClaimsEnd`, `AttemptEnds`, `RecordedIsReleased`, `UsedTokenEnrolls`,
`WaitersAnswered`, `OutputArrives`, `CancelledEnds`), and the expected violations, which are
counterexamples and nothing to prove.

## Not modelled

The read-only projections, the web cockpit, protocol validation, the HTTP encoding,
sandboxing, migrations of an old database, release tooling and skills keep no state of their
own that a model could add to. Of the modelled parts: the parsing of a cron expression, the
order of preference among the workers a route may choose, the texts and limits of a Pipeline's
stages, several planning projects, what a Git command fetches, the Docker backend, output
and cost, and the probes of a worker's health.

Two backups to one destination are modelled (`AtOnce = 2`), but no run checks them: what
happens is described under Findings.

## Plan

Done: all components of the table above that keep state, and a proof of every safety
invariant and every action property of the passing runs. Next, in this order:

1. The assumption `AtOnce = 1` of `PublicationAlwaysSafe`: what still holds of two backups
   to one destination, as an invariant of its own.
2. Step theorems that liveness rests on and that need no fairness: that a lease ended by a
   sweep is never renewed, that a used token and its credential stay, that a queue position
   of a lock only shrinks.
3. `RepositorySwitch`: that the invariants of `WorkLifecycle` hold under its specification.
