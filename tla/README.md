# Verification of ottoflow

TLA+ models of ottoflow, a Kubernetes controller that runs declarative
workflows: a `Workflow` is a graph of steps (agents, tools, queries, mutations,
human gates), a `WorkflowRun` one execution of it, carried out by a runner Job.
Every definition is translated from the Go code; `PROJECT.json` maps each one to
its lines.

## 1. Inventory

| Part | State | Operations | What is hard |
|---|---|---|---|
| WorkflowRun reconciler (`controller/workflowrun_controller.go`, `stuck_runner_pod.go`) | none of its own; reads the run and its Job from informer caches | create the Job, record it, react to failed or stuck pods, retry, time out or resume a run that waits for a callback, retention | decides on stale copies; several steps that may be cut short between two API calls |
| Runner pod (`cmd/workflow-runner/main.go`) | its own copy of the run's status | load, persist Running, execute, pause, persist the result | overwrites the whole status; may be killed anywhere |
| Step loop (`executor/executor.go`) | step statuses, run phase, iteration counter | take ready steps, skip, run, fail, wait | termination and completeness of the loop for every graph |
| Dependency graph (`executor/dag.go`) | nodes and dependents | build, cycle search, ready steps | order-independent, complete cycle search |
| Checkpoints (`executor/checkpoint.go`) | a checkpoint and an audit ConfigMap per name of a run | asynchronous save, load, flush, delete, audit snapshot | writes out of order, crash between step and save, leftovers of an earlier run of the name |
| waitForCallback (`executor/wait_for_callback.go`) and callback server (`controller/callback_server.go`) | `status.pendingCallback` | issue a token, pause; admit a delivery, patch it in; consume, time out | delivery, deadline, cache lag and runner race |
| Cron scheduler (`controller/scheduler.go`) | registered schedules | fire: Allow, Forbid, Replace; create a run | check-then-create over a cache; cancels runs that are executing |
| Trigger manager, Workflow reconciler (`controller/trigger_manager.go`, `workflow_controller.go`) | registered triggers, dedup map, watch goroutines | register, dispatch, deduplicate, remove | a goroutine that outlives its trigger; limits checked on a cache |
| Webhook server (`controller/webhook_server.go`) | rate limiters, dedup entries | verify, limit, deduplicate, create | look-up and record in separate critical sections; two windows that must fit |
| forEach executor (`executor/foreach_executor.go`) | worker pool, results | feed, process, stop early, aggregate | shared results, stop channel, failure policies |
| Agent steps and the agent-executor service (`executor/agent_executor.go`, `external_agent_executor.go`, `exec_client.go`, `exec_handler.go`, `a2a_client.go`) | a request, a remote task | POST with retries, run, poll | not idempotent; the answer may be lost |
| MCP client pool (`internal/agent/mcp_client.go`) | cached, retired and closed clients | get, refresh, evict, close | a candidate built outside the lock; clients closed under a user |
| A2A and MCP servers (`internal/a2a/server.go`, `controller/mcp_server.go`, `mcp_tools.go`) | an admission lock | authenticate, count, create a run, wait, answer | cap under overlapping calls; runs that outlast the call |
| Exposure (`controller/exposure_controller.go`) | an Agent, an account, a binding, a finalizer | publish, withdraw, prune | names taken by others; stale Workflow and binding |
| Runner access (`controller/workflowrun_controller.go`) | account, bindings, CA ConfigMap | ensure before each Job, heal | outsiders, recreated accounts, stale cache |
| Runner secrets (`controller/secret_refs.go`, `secret_needs_creds.go`, `internal/secretmount`) | none | three walks over everything a Workflow refers to | two codes that must resolve the same references |
| Legacy collector (`controller/legacy_runner_binding_gc.go`) | none | list, judge, delete | runs go on while the bindings are judged |
| Run policy and run metrics (`applyRunPolicy`, `controller/run_metrics.go`) | counters | delete old runs, count finished ones | missing completion times, a cache that shows deleted runs |
| Admission webhooks (`internal/webhook`) | none | validate a Workflow | what is admitted must be executable |
| Certificates (`internal/certmanager`) | two Secrets, a CA bundle, files | renew, repair, patch | several replicas over the same Secrets |
| mutate and openReport steps (`executor/mutate_executor.go`, `openreport_executor.go`) | one cached answer per executor: are there Reports | get, patch; create or update a Report | children of a forEach and others write the same object |
| CEL, context, query steps, CLI, tracing | in-memory JSON | evaluate, call services, format | data transformations |

The parts interact through the Kubernetes API, the agent steps also over HTTP.
The reconciler, the callback
server and the scheduler live in one process and share an informer cache that
lags behind the API server; their `Status().Update` calls are rejected when the
cached resourceVersion is old, but raw merge patches are not, and the runner
reads the API server directly and replaces the whole status with its own copy.

What makes the core correct: one runner at a time; a terminal phase that stays;
completed steps that do not run again; callbacks that are neither lost nor
accepted twice; retries within their budget; every run ending; a step loop that
respects dependencies and never stops with work left. Around the core: a trigger
that is read once and can always be removed; no second run from one webhook
message; agents that are not run twice; answers that are true; objects of others
left alone; everything a runner needs in place before it starts; and every loop,
call and reconcile getting where it must. `PROJECT.json` lists the hazards behind
these, each at its line.

## 2. Modules

| Module | Models | Builds on |
|---|---|---|
| `RunLifecycle` | one run: reconciler, runner, callback server, cancellation, checkpoints, Kubernetes | - |
| `MCRunLifecycle` | symmetry for TLC | `RunLifecycle` |
| `Dag` | the graph: dependents, acceptance by `BuildDAG`, ready steps | - |
| `CycleCheck` | `HasCycle` and `hasCycleDFS` step by step | `Dag` |
| `WorkflowPromise` | abstract: what executing a workflow promises | `Dag` |
| `StepExecutor` | `ExecuteWorkflow` for an arbitrary graph | `Dag`, refines `WorkflowPromise` |
| `Dispatch` | how the triggers of a Workflow create runs: cron fires, watched events, webhook requests | - |
| `MCDispatch` | symmetry for TLC | `Dispatch` |
| `ForEach` | `executeForEach`: feeding loop, workers, failure policies | - |
| `AgentCall` | agent steps, the agent-executor service, a remote A2A agent | - |
| `McpPool` | `MCPClientManager` and its users | - |
| `RunServers` | a call to `serve-a2a` or to the MCP tool server | - |
| `Exposure` | the exposure reconciler | - |
| `TriggerRegistry` | registration of triggers, watch goroutines, schedules | - |
| `WebhookServer` | the handler of a webhook trigger | - |
| `FinishedRuns` | run policy and metrics | - |
| `RunnerAccess` | what is ensured before the runner's Job | - |
| `SecretWalk`, `SecretWorlds` | what goes into the Job, against what the runner resolves; the clusters it is checked on | - |
| `LegacyGC` | the collector of older releases' bindings | - |
| `Admission`, `AdmissionCases` | validation of a Workflow and its execution; the submissions it is checked on | - |
| `CertManager` | the webhook's certificates under several replicas | - |
| `RunRecords` | checkpoint and audit ConfigMaps over runs of one name | - |
| `TargetWrites` | mutate and openReport steps next to other writers | - |
| `MCProgress` | instance of the parts with liveness properties | `StepExecutor` and eight of the above |
| `MCSafety` | instance of the parts whose safety needs larger bounds | `CycleCheck` and ten of the above |
| `RunInvariants` | the inductive invariants of `RunLifecycle` | `RunLifecycle` |
| `RunLifecycleProofs`, `CycleCheckProofs`, `StepExecutorProofs`, `DispatchProofs` | theorems | the module they are named after |
| `CallProofs` | theorems about agent calls and forEach | `MCProgress` |
| `ControllerProofs` | theorems about the servers, the trigger registry and the certificates, and the types of all parts of `MCProgress` | `CallProofs`, `StepExecutorProofs` |
| `StoreProofs` | theorems about run records, target writes, the MCP pool, finished runs and the legacy collector | `MCSafety` |
| `AccessProofs` | theorems about exposure, runner access, webhooks, admission and the secret walk, and the types of all parts of `MCSafety` | `StoreProofs`, `CycleCheckProofs` |

A definition whose name carries an underscore (`StatusUpdate_Unchecked`) is a
seeded fault: the definition it is named after with a plausible bug. No
specification uses one; they show that the properties notice the bug.

### RunLifecycle

State and code:

- `run`, `runCache`, `fresh` - `WorkflowRun.status` at the API server, the
  controller process's cached copy, and whether that copy has the current
  resourceVersion. `StatusUpdate` is `r.Status().Update`; when `fresh` is false
  it is a conflict and changes nothing. `StatusOverwrite` is
  `persistWorkflowRunStatus` (get the latest, replace, retry on conflict) and the
  raw merge patches. A status keeps the phase, whether `Status.Execution` names
  the Job, `Attempts`, `PendingCallback` and the step statuses.
- `job`, `jobCache`, `orphan` - the runner Job (its name is a function of the
  run's name, so there is one), its cached copy, pods whose Job was deleted.
- `pc`, `mem`, `saving`, `reason` - where each runner pod is, its copy of the
  status, its checkpoint writes in flight, why it ended.
- `ckpt` - the step statuses in the checkpoint ConfigMap.
- `post`, `minted`, `expired` - callback deliveries and tokens.
- `creating` - whether the trigger that created the run has yet to set its
  status (`SetTriggerStatus`: it gets the run from the cache and replaces the
  whole status by a Pending one). With the constant `Triggered` false the status
  is already set when the behaviour starts.
- `faults`, `retries`, `everDone`, `lost` - a bound and three history variables;
  `lost` has the steps recorded in a checkpoint write that failed.

`SaveAsync` only logs a write that fails (`checkpoint.go:167-171`, `230-232`) and
the runner goes on, to the next step or to a pause: the action `SaveFails`, with
the constant `SavesMayFail`. A Workflow sets `ttlSecondsAfterFinished`, from 0 up:
with `EarlyTTL` a finished Job may vanish while the caches still show it, without
it only after they have caught up, as with the default of an hour.

The status has five writers: the reconciler, the runner, the callback server, a
cancelling cron fire and the trigger that created the run.

Each branch of `reconcileJobExecution`, `reconcilePendingCallback` and
`resumeRunnerJob` is one action: the reconciler handles one request for a run at
a time, and what it reads comes from the caches, so a whole branch is atomic
with respect to what it decides on; the staleness is in the caches
(`SyncRunCache`, `SyncJobCache`). The API writes of one branch happen in one
step. `handleCallback` is two actions because it reads the cache twice, with the
request body in between. The runner is a sequence of actions, one per API call
or step; `Crash` may end it between any two. The Job controller, the kubelet and
the garbage collector are external and modelled as the code relies on them: one
pod per active Job, foreground deletion waits for pods, background deletion
leaves them to be collected.

The workflow of a run is a chain `1..NSteps` in which `Gates` are
`waitForCallback` steps: the interplay of the writers does not depend on the
shape of the graph, which `StepExecutor` covers.

### StepExecutor, WorkflowPromise, Dag, CycleCheck

`StepExecutor` follows the control flow of `ExecuteWorkflow`: an iteration
takes the ready steps, cuts them to `maxConcurrentSteps` in whatever order the
node map yields, handles them one after the other (skip, condition error,
start, success, failure under Continue or Fail, awaiting a callback), and ends
the loop when nothing was executed or after `2 * len(steps)` iterations. A run
starts fresh or from a checkpoint; a checkpoint only exists for a graph that was
accepted, and holds steps done in an order the graph allows.

`WorkflowPromise` says what a user is promised without a loop, a batch or a
budget. `KeepsPromise` is the refinement, with running and waiting steps seen as
not yet settled.

`CycleCheck` unrolls the recursion of `hasCycleDFS` into a stack of calls, each
with the dependents its loop has yet to see, so that every visiting order is a
behaviour. Names in `dependsOn` that are not steps are refused by `BuildDAG`
before the search and are not enumerated as inputs.

### Dispatch

One Workflow with an event trigger, a cron trigger and a webhook trigger.
`disp[d]` says what dispatcher `d` (a watch goroutine, a cron fire, a webhook
request) is doing: deciding (`ReceiveEvent`, `ReceiveRequest`, `Fire`,
`FireReplace`), counting the active runs (`Count`), creating (`Create`,
`CreateFails`), writing the dedup entry (`Record`), setting the status
(`SetStatus`, `NotFound`). `run` and `cache` are the runs at the API server and
in the informer cache, reduced to none, active and ended; `by` is the trigger
label; `dedup` is `dedupState`, with `recent` for "within the window"; `made`
is a history of what runs were created for. Each check and the Create after it
are separate steps, since no lock is held from one to the other. Filters, input
mappings and the admission of a request only decide whether an event is taken
up. Ended runs are removed (`applyRunPolicy`), which frees their names.

What keeps the limits from being useless is not a lock: a watch goroutine
handles its events one after the other, and after a Create it polls the cache
for the new run in order to set its status, so it reaches its next event only
when its own run can be counted. The webhook handler leaves that loop at the
first NotFound, so its runs are counted late.

### ForEach

`Feed` is the loop over the items, `WorkerStep(i)` the goroutine of item `i`:
waiting for the semaphore or the stop channel, holding it, processing, recording
its result under the mutex. Go's `select` takes any ready case, so a worker may
take the semaphore although the stop channel is closed; it looks at the channel
once more before it starts. `Cancel` ends the context at any time. `Return` is
the verdict after the wait group.

### AgentCall

One step of kind `local`, `exec` or `external`. For `exec` the runner's side
(`Dial`, `Backoff`, `GiveUp`, `Answered`) and the service's side (`Refuse`, run,
answer, die) are separate, so that the answer can be lost after the agent ran;
what the retry rule must tell apart is whether the request can have arrived. For
`external` the remote task changes state by itself and the step polls it.

### McpPool

Callers get a client, use it, refresh a dropped session and go on. `GetClient`
is split where the code gives up the lock: the server is read and a candidate
built outside, fingerprints and versions are compared inside. A retired client
is closed after the grace period, an idle one is evicted. A conversation keeps
its client for several rounds and looks again when the server dropped it.

### RunServers and Exposure

`RunServers` follows a call from authentication to its answer: `stream` and
`send` go to `serve-a2a`, which holds `admitMu` from counting to creation and
reads the API server; `tool` goes to the controller's MCP server, which takes no
lock and reads the cache. Meanwhile the Workflow opts in and out and runs end or
are deleted. A poll may fail, and the deadline may pass between two reads
(`Deadline`) or inside one (`GetTimesOut`), which the code tells apart only in
the first case.

`Exposure` is one reconcile as a sequence of API calls over a copy of the
Workflow that may be old, with owners' edits, foreign Agents, a missing CRD and
failing calls in between. A write with an old version is a conflict. A controller
without a serve-a2a image (`serveImage`) withdraws what is published; `Redeploy`
starts one with the other setting.

### TriggerRegistry and WebhookServer

`Register` is a whole reconcile of an existing Workflow: stale entries are
pruned, then the triggers are registered in the order of the spec. The order
matters: one that fails ends the reconcile, and the triggers after it keep what
an earlier edition registered. A trigger whose schedule, apiVersion or selector
does not parse fails every time (`badKinds`), a refused watch only for once
(`RegisterRefused`). A watch goroutine selects, creates runs,
reopens a closed watch and ends when told to or when the manager's context ends;
`Slots` bounds how many exist at once.

`WebhookServer` has `Handlers` in parallel. A handler looks the Workflow up,
checks the timestamp on arrival, then the Workflow and the signature, takes a
token, looks the key up, creates, and records the key, in this order and with
the lock released between the last three. Time is a counter; a request takes at
most `Delay`. A sender signs with its own clock, which may be behind or ahead
(`Sign`), and `verifyTimestamp` accepts both by up to `Window`. Limiters and keys
are in the memory of the controller: `Restart` empties them and ends the
requests in progress.

### FinishedRuns, RunnerAccess and LegacyGC

`FinishedRuns`: runs end, with or without a completion time, the informer
delivers or merges updates, the metrics count them, and the reconciler applies
the policy to what the cache lists, one deletion at a time. A run that a
cancellation or the reconciler ended under its runner may be given another
terminal status (`EndAgain`) or be written back to Running and end once more
(`Revive`), as `RL_cancel` shows; `Rewrites` says for which
runs an instance has which of the two.

`RunnerAccess`: a reconcile walks `ServiceAccount`, two cluster bindings, the
RoleBinding owned by the account, the CA ConfigMap and the Job. An object under
one of the fixed names may be missing, ours, ours and wrong, somebody else's, or
ours with its label taken off in place, under the same uid; outsiders delete,
recreate and edit; the cache is late.

`LegacyGC`: the collector lists a binding, judges it by the Jobs and their runs,
and deletes it with a precondition on the uid and version it listed, while Jobs of the
older release retry pods and finish, new ones are created (`JobIsCreated`) and
runs are written back from their end (`RunIsRevived`) at any time, between the
listing of Jobs and the deletion too.

### SecretWalk and Admission

Both are pure code over structured input, unrolled into steps because the input
refers to other objects; both are checked on a list of inputs chosen for the
cases that differ (`SecretWorlds`: cycles of references, depth, namespaces,
templates, conditions, Secrets that are missing and credentials that are denied;
`AdmissionCases`: expressions that name other steps, in dotted and in bracketed
form, forEach variables, several actions, missing objects, failed look-ups, runs in
another namespace than their Workflow, one name referred to in two namespaces or
for two kinds). A run for which `checkSecretMounts` misses a Secret, or whose
agents need LLM credentials that the run's account may not read, fails
terminally: both are refusals of `SecretWalk`. `extractStepRefs` and
`extractVariableRefs` find what the regular expressions find: dotted names, of
variables only their leading letters and digits. The properties compare them with code on the other side: `runnerReads` is the
runner's resolution of the same references, and an admitted Workflow is executed
with `executeStep`'s dispatch.

### CertManager

Every replica repeats `reconcileCerts`: each read, creation, deletion and patch
is a step of its own, so two replicas can delete what the other has just made.
The renewer (kyverno's `tls` package) is external and modelled as it is used: it
keeps a valid pair, makes one where there is none, and refuses a Secret it
cannot read. A Secret may be absent, a placeholder, of the wrong type, hold a key
that is no PEM, which is deleted, or one that decodes and does not parse
(`foreign`), which is kept. The webhook configuration may be missing when a
replica starts (`ChartApplied` brings it) or hold the bundle of an earlier
install, and a patch that fails is only logged.

### RunRecords and TargetWrites

`RunRecords` has the runs of one name one after the other, told apart by their
uid. A save is a goroutine of its own (`SaveGet`, then `SaveCreate` or
`SaveUpdate` with the version it read, again after a conflict); `Flush` waits
for all of them, deletes the checkpoint of a run whose steps have ended and goes on
to the audit snapshot (`Marshal`, `AuditGet`, `AuditPut`) and only then to the
final status; a crash, or an update that is refused, may come between the two, and
`concluded` remembers for which runs the checkpoint was deleted. Deletions and the final
status go by the name, so they may hit the next run; the garbage collector goes
by the owner references. What RunLifecycle has of checkpoints is one run's view;
here the contents are only a number of steps done.

`TargetWrites` has steps of several executors (the run's own, one for every
`workflowRef` child, one for every resumed runner), of which children of a forEach
share one. `MutateGet`
and `Patch` are separate, and a patch is what differs from the copy that was
got, applied to the object as it is by then; a JSON patch is checked and applied
as a whole. `Probe` is an executor's `sync.Once` behind `isOpenReportsCRDAvailable`,
`CreateReport`, `GetReport` and `UpdateReport` the calls of
`createOpenReportCRD`. An object has two paths; what an expression returns is an
operation for each.

### MCProgress and MCSafety

The parts run in different processes and share only objects that each module
has as its own state, so checking them one after the other in one run is the
same as checking each alone: `part` chooses one in the initial state, `only`
leaves the variables of the others unchanged, and `PartsFairness` is the
fairness of each part restricted to its own steps. A property of a part is
claimed of the behaviours in which that part is chosen. Three parts occur in
both modules, with a bound small enough for liveness in one and a larger one in
the other.

## 3. Runs

| Run | Checks | Result |
|---|---|---|
| `RL_one_runner` | `TypeOK`, `OneRunner` | pass |
| `RL_stale_writers` | `OnlyOwnCopiesRewriteTerminal` | pass |
| `RL_pause` | `PauseInv` (the inductive invariant of section 4), `TerminalIsFinal`, `CallbackNotLost`, `NoStepRepeated` | pass |
| `RL_liveness` | `EventuallyTerminal` | pass |
| `dispatch` | `TypeOK`, `LimitNearlyKept`, `PolicyKept`, `RecordedMeansMade` | pass |
| `parts_progress` | see below | pass |
| `parts_safety` | see below | pass |
| `RL_retry_budget` | `RetriesBounded` | violated: the runner resets `Attempts` when it starts |
| `RL_crash_repeat` | `CheckpointHonoured` | violated: a replacement runner does not consult the checkpoint |
| `RL_cancel` | `TerminalIsFinal` | violated: the runner of a cancelled run writes its phase back |
| `RL_token_reuse` | `AcceptedOnce` | violated: two deliveries pass the cached check |
| `exposure` | `ForeignAgentKept` | violated: a Workflow that was refused the name of an Agent deletes the Agent when it goes |

| Part | `parts_progress` | `parts_safety` |
|---|---|---|
| all | `PartsTypeOK` | `PartsTypeOK` |
| step loop | `NilMeansSucceeded`, `KeepsPromise` (refinement), `StepsEnd` | |
| cycle search | | `CycleIsReal`, `AcyclicIsReal` |
| forEach | `ForEachSound`: nil is earned, the published lists agree, nothing starts after a failure; `StepsEnd` | |
| agent calls | `CallSound`: an agent runs at most once per step, success means an answer; `StepsEnd` | |
| servers | `ServersSound`: answers are true (but for a read cut off by the deadline), cap and opt-in hold; `CallsAnswered` | |
| triggers | `OneReader`, `TriggersConverge` | |
| certificates | `ServedIsTrusted`, `CertsSettle` | |
| run policy | `CapReached` | `FinishedSound`: counted once per end, deleted for cause |
| runner access | `WriterHeals` | `AccessSound`: in place before the Job, CA as read, others' objects untouched |
| exposure | `ExposureFollows` | `ExposureSound`: no orphan, no takeover, good bindings kept |
| MCP pool | | `PoolSound`: no older configuration, not closed under a user, none leaked |
| walks | | `WalkSound`: what is mounted suffices, what is refused is refused for cause |
| legacy collector | | `NeededIsKept`: no binding deleted that a Job the collector could have seen needs |
| webhook server | | `WebhookSound`: no second run from a message refused in time, burst kept |
| admission | | `AdmittedCanRun` |
| run records | | `RecordsSound`: only own steps are skipped, saves are kept until the checkpoint is deleted for the run's end, a named snapshot is kept |
| target writes | | `TargetsSound`: only what is asked is changed, others' metadata kept, Reports whole, and all or none for one executor |

The parts of a conjunction are stated and explained in the module of the part.

The violations are disagreements between the code and what a comment or a
document of the repository says of it; `findings` quotes the lines.

Where the passing properties stop:

- `TerminalIsFinal` holds without cancellation, rejection and crashes
  (`RL_pause`); with them, see `RL_cancel`.
- `RL_pause` has a gate of policy Fail first and one of policy Continue after it.
  With a second gate of policy Fail all three of its action properties are lost: the run
  cache may still show the answer to the first gate when the Job that paused at
  the second has completed; `resumeRunnerJob` then starts a runner that nobody has
  called for, and a timeout, or an answer, that falls between its load and its
  first write is overwritten.
- A checkpoint write that fails is only logged. `NoStepRepeated` then lets the
  steps it recorded run again, no others; `TerminalIsFinal` and `CallbackNotLost`
  speak of runs whose writes have landed (`NoSaveLost`): with one lost, a resumed
  runner may ask once more at a gate that is behind it.
- The properties of `RL_pause` assume that a finished Job outlives the caches that
  show it, as it does with the default TTL. With a `ttlSecondsAfterFinished` so short
  that the Job is gone before the run cache shows the pause, the reconciler creates
  one in its place, and TLC refutes all three action properties.
- The trigger's first status write is part of `RL_one_runner` and
  `RL_stale_writers` only. The model lets it come arbitrarily late, the code
  makes five attempts within about a second; a write that late would undo a
  terminal phase, repeat steps and erase a pending callback, so the other runs
  assume it has happened.
- `LimitNearlyKept` and `PolicyKept` assume that the cache shows a new run
  within the five attempts of its trigger (`SlowCache` false), that no run ends
  before its trigger has set its status (`EndsEarly` false) and that fires of
  the schedule do not overlap (one element in `Fires`). The limit is exceeded by
  up to the number of other dispatchers, and without bound by webhook requests
  that arrive before the cache catches up; `docs/user/tasks/triggers.md` calls
  it a hard ceiling.
- `CallbackNotLost` holds for one delivery under timeout policy Fail. Under
  Continue, a runner that was started for the timeout has loaded the run before
  a delivery admitted just in time is patched in, and writes the loaded status
  back. A second delivery of the same token replaces the first (`RL_token_reuse`).
- `OneRunner` needs `backoffLimit` 0, the default, and containers that start:
  the reconciler ends a Job at its first failed pod, when a Job with a higher
  limit may already have the next pod; and a stuck pod whose container starts
  after all can revive the run its Job was deleted for.

- `ForEachSound` promises a result for every item only when the step was not
  cancelled: a cancelled loop with one success returns nil.
- `CallSound` counts what one step starts. A service that dies after it has run
  the agent makes the step fail, and a retry of the run starts the agent again.
- `ServersSound` bounds the runs made by one `serve-a2a` pod. The lock is a
  mutex of that process and the MCP server takes none, so further pods, tools and
  triggers add to the count. Of the answers it exempts one case by name: when the
  deadline passes inside the Get of `pollToTerminal` (`internal/a2a/server.go:514`)
  the error is the context's and not `errRunStillExecuting`, and a run that goes on
  is called failed, against the comments at 73-76 and 251.
- `WebhookSound` allows a second run for copies that are handled at the same
  time, since the key is recorded after the creation, after the Workflow was edited
  or deleted, which forgets its keys, and after a restart of the controller, which
  `docs/user/tasks/triggers.md` mentions. It speaks of messages whose timestamp is
  refused before their key is forgotten (`refusedInTime`). With the default
  `dedupWindow` of two timestamp windows these are all but the ones signed ahead
  by nearly a whole window: such a message is accepted for as long as its key
  lives, and a copy that takes longer than the first passes both checks.
- `TriggersConverge` exempts triggers that come after one whose schedule,
  apiVersion or selector does not parse: the reconcile ends there, at every retry,
  and they stay as they were.
- `ServedIsTrusted` holds until a second CA is made. A replica loads its files
  once; when the CA Secret is lost and made anew, replicas that started earlier
  go on serving a certificate the patched bundle does not verify. Nor does it hold
  while the configuration has the bundle of an earlier install and no replica's
  patch has been accepted: `cmd/controller/main.go:261-264` only logs a patch that
  fails.
- `CertsSettle` leaves out a CA, or a leaf signed by the stored CA, whose key
  PEM-decodes and does not parse. `setup.go:199-201` keeps such a Secret on
  purpose; the renewer then fails at every pass and the process does not come up.
- `NeededIsKept` exempts Jobs that are created, and runs that are written back from
  their end, after the collector listed Jobs: it deletes on what it has seen.
- `WalkSound` takes a Secret that is missing and needed credentials that are denied
  for reasons to refuse a run.
- `AdmittedCanRun` speaks of reads by dotted names (variables of letters and digits
  only), of runs in their Workflow's namespace, and of names referred to in one
  namespace: the regular expressions do not see other reads, the executor defaults
  to the run's namespace where the webhook looks in the Workflow's, and the memo of
  names looked up ignores the namespace.
- `AccessSound` lets an object whose label was taken off in place be deleted once:
  it keeps the uid, the Delete's only precondition, while the cache shows the label.
- `ExposureSound` speaks of Agents taken over; the deletion of an Agent of
  somebody else is the run `exposure`.
- `FinishedSound` judges a deletion by completion times. A run that failed in a
  step has none and counts as the oldest. A run written back to Running by its
  runner ends, and is counted, again.
- `RecordsSound` keeps saves until the checkpoint is deleted because the run has
  come to its end. `ExecuteWorkflow` does so before the end is persisted, and
  `markRunTerminallyFailed` before an update that may conflict: a crash or a refused
  update in between leaves an unfinished run without a checkpoint, and it starts
  over. And it promises this for the first run of a name only: a later one can lose its checkpoint to its predecessor's runner, to a reconcile
  of the cached predecessor, and to the garbage collector: `SaveAsync` keeps the
  owner references of a ConfigMap it finds, which `SaveAuditSnapshot` takes care
  to replace. The run then starts over after a crash; it never skips a step that
  is not its own.
- `TargetsSound` lets a step's patch replace what somebody else wrote to a path
  the step asks for, and leaves a path alone that already had the value when it
  was read, whatever it has by then. A value computed from what was read is
  therefore last-writer-wins. Steps of different executors of one run may disagree
  on whether there are Reports.

Bounds. Two pods are enough for an old and a new runner to overlap, which is the
most the Job controller allows besides pods of deleted Jobs; two deliveries for
one token are the smallest race; one or two faults give a failure and a failure
of its retry; two gates (`RL_pause`) make a checkpoint that spans two pauses;
two tokens let a slot be reused, and four in `RL_pause` let both gates be asked
again after a failed checkpoint write. Every graph of three steps contains every cycle
shape up to length three, diamonds of two branches without a join and chains
longer than the concurrency limit of two. When a runner needs more tokens than
`MaxTokens`, it stops (`Rest`), which only cuts behaviours short.
`RL_stale_writers` has one gated step, one fault, one token and one retry: what
it asks needs many kinds of writers, not long runs. In `dispatch` one dispatcher
of each kind, a limit of one and three runs let both others pass the gate while
the third creates; the theorems lift the number of each.

In the parts: three items and a limit of one or two give a worker that runs, one
that waits and one not yet fed; three attempts are the code's own number; one
call of each kind, two at a time, give both servers the races they can have; two
triggers in both orders around a bad schedule or selector and three goroutines give an old
and a new reader of each; two callers, three configurations and two ticks let a
client be retired, used and closed while a newer one is fetched; two handlers
and one message over `Window` 2 and `DedupWindow` 4, signed from one window behind
to more than one ahead, reach both ends of both windows; three finished runs with
room for one, in both runs, leave a choice of what to delete and an application of
the policy that stops at its own run with another still in excess;
two replicas and one mishap reach every order of their deletions and creations;
two runs of a name, three steps in the first and one crash let an old save race
two newer ones and a predecessor's write hit the next run; two executors, two
children, two paths and one act of an outsider give a stale copy on either side; one or two edits and one fault per part are the smallest that leave a stale copy
in use. Names of the bounds are in the cfg files and in the modules. Pods, runs and
deliveries are symmetric in the safety runs; the liveness run uses no symmetry.

Fairness (`RL_liveness`). controller-runtime requeues failed and unfinished
requests and informers deliver, so `Reconcile` and the caches are weakly fair;
a runner that is not killed goes on and its writes land; the Job controller, the
garbage collector and foreground deletion make progress; deadlines pass. No
fairness on deliveries, crashes, expiry of a Job's TTL or, when pods may stick,
container start.

In `parts_progress` all fairness is weak. Goroutines that can run do (`Feed`,
`WorkerStep`, `StepMoves`, `Handler`, `ReaderStep`, `Step(r)`); reconcilers retry
with backoff and informers deliver (`Register`, `Reconcile`, `Worker`, `Sync`,
`Deliver`); Kubernetes collects dependents of a deleted owner (`CollectGarbage`);
the deadline that `executeExternalAgentStep` sets passes (`Expire`). There is
none on cancellation, failing calls, edits, runs of the served Workflow ending,
the service or the remote agent. `StepExecutor` assumes that a step that was started returns:
the Job has its `activeDeadlineSeconds`, which kills the pod of one that does not;
the timeout of a step is enforced for external agents only.

## 4. Proofs

All for arbitrary constants satisfying the named assumptions of the modules.

### The core

- `RunLifecycleTypeOK`. By one lemma per group of actions. The part beyond types
  is `fresh => runCache = run`: what a successful `Status().Update` overwrites is
  exactly what was read.
- `TerminalSafeFromControllers` (`OnlyOwnCopiesRewriteTerminal`). From `TypeOK`:
  a write by the reconciler or a cancelling fire that changes the phase goes
  through a cached copy that is current, hence not terminal when the run is;
  patches keep the phase. Two writers are exempt because they replace the status
  by one of their own making: a runner pod and the trigger's first status.
- `OneRunnerAtATime` (`OneRunner`), for `BackoffLimit = 0` and containers that
  start. `OneRunner` is not inductive: nothing in it says why a replacement Job
  has no live predecessor. `Supervised` adds that no pod is orphaned
  (`NoOrphans`), pods are unique (`OnePod`) and belong to an active Job
  (`PodsHaveActiveJob`), a Job with a failed pod has failed and has no pod
  (`FailedAtOnce`), and a failure seen in the Job cache is one the present Job
  has had, or the present Job can be deleted without leaving a live pod
  (`SeenFailureIsReal`).
- `PauseInvariant` (`PauseInv`) and from it `TerminalPhaseKept`
  (`TerminalIsFinal`), `NoCompletedStepRestarts` (`NoStepRepeated` while no write has
  failed) and
  `AcceptedAnswerConsumed` (`CallbackNotLost`), for `Undisturbed` runs: see
  "Pausing and resuming" below.
- `CycleCheckTypeOK`, `CycleSound`, `CycleComplete`. The invariant says that the
  recursion stack is the set of active calls (`StackIsCalls`), consecutive calls
  are dependents of each other (`CallsArePath`), a loop has seen what is not in
  `todo` (`LoopProgress`), finished nodes have only finished dependents
  (`FinishedClosed`) and no cycle passes through them (`AcyclicOn`).
- `StepExecutorTypeOK`, `NeverGivesUp`, `ImplementsPromise`. `NeverGivesUp` needs
  that an open run has no failed step that is not done (`DoneOrPending`,
  `OpenUntilReturned`), that a batch holds steps that were ready and still are
  (`BatchIsReady`), that an acyclic graph with open steps has a ready one, and
  that every completed iteration settled a step (`IterationsPaid`), which bounds
  the iterations by the number of steps. `ImplementsPromise` reuses the
  invariant for the step-by-step refinement.
- `DispatchTypeOK`, `DedupSound`, `LimitBound`, `PolicyHolds`, for any number of
  dispatchers, objects, revisions and runs and every limit. `DedupSound` adds
  that a dispatcher about to record has made its run (`RecordersMade`) and needs
  nothing of the cache. The other two assume `Timely` (the conditions above) and
  share `RunsInv`: the run a dispatcher is making is active and its own
  (`RunIsOwn`), the cache never shows an end too early (`CacheFollows`), an
  active run that the cache does not show is still being made (`SeenOrMaking`),
  and the runs left out of a Replace fire's count have ended (`SkipIsDone`).
  `LimitBound` then counts: the runs a count misses inject into the dispatchers
  that are making one, and these, those already permitted and the one that
  counts are different members of the set of watchers and fires (`Room`).
  `PolicyHolds` follows because between fires the cache shows every active cron
  run (`CronRunsCached`).

### Pausing and resuming

`PauseInv` (module `RunInvariants`) holds for any number of steps, gates, pods,
deliveries and tokens. It assumes that the run is `Undisturbed`: checkpoints are
on and `backoffLimit` has its default of 0; nobody retries, rejects or cancels
the run, or writes it again as its trigger, no pod is lost, and no finished Job
is removed while the caches show it (`EarlyTTL` false); and at most one
gate has policy Fail and comes before the others (`FailGatesFirst`). With the
constants of `RL_pause` TLC refutes `NoStepRepeated` as soon as any one of these
is lifted, and the two others too except where checkpoints are off or pods get
stuck. (`RL_cancel` and `RL_crash_repeat` are such runs; section 3 describes the
trigger's late write and the second gate.) Only `backoffLimit` is different: with
a limit of 1 and no crashes TLC finds no violation, but `Supervised`, on which
the proof rests, needs 0. Stale caches, deadlines that pass at any moment, deliveries admitted from an old copy,
steps that fail, and saves of checkpoints that land late or fail are all in. What a
failed save leaves is little: `PauseInv` is `PauseKept`, the conjunction below, as
long as `NoSaveLost`, and afterwards the types and `Supervised`. The three theorems
are about the steps taken while `NoSaveLost` holds.

The three properties are about single steps and none is inductive; they fail or
hold with the agreement of status, checkpoint, slot, Jobs and runners, which the
invariant states by parts:

- `Supervised`, as above: one runner, belonging to the active Job.
- `Snapshots`, `StepsSaved`: a checkpoint, or a save under way, names only steps
  that completed, and while the run is open one of them names all that did. A
  runner has no save under way once it persists the final status, because `Flush`
  comes before.
- `PhaseTold`, `Starting`: a runner that starts after a token has been issued
  finds the phase Running, which is what makes `loadCheckpointIfNeeded` restore.
  While the run does not say Running yet and its Job is gone or going, the cache
  shows the callback, so the next Job can only come from `resumeRunnerJob`, which
  writes Running before it creates it.
- `Looping`: in the loop the statuses in memory are exactly what was done, so a
  completed step is not pending; at the end they are `Final`.
- `Callbacks`, `QuestionsSeen`: what a delivery or the cache takes for an open
  question is the run's own or has been answered, so that no stale copy can
  answer or time out a later one.
- `Held`: while a gate of policy Fail waits, no runner is at work except one that
  is on its way out, so the reconciler may fail the run.
- `AnswerKept`: once it is answered, a runner that is past its load holds the
  answer, and will write it back until it has consumed it.
- `Failures`, `Deletions`: a pod that exits with an error has made the run
  Failed, and only a completed Job is being deleted to resume.
- `ClosedRun`: a terminal run has `Final` steps, so that a runner a stale cache
  starts finds nothing to do and persists what it loaded; or it was timed out by
  the reconciler and nothing is left that could start one (`TimedOut`).

The proof has one lemma per action and part. `TerminalIsFinal` follows from
`ClosedRun` and the types (a runner persists the phase it has, which is the
run's), `NoStepRepeated` from `Looping`, `CallbackNotLost` from `AnswerKept` and
`QuestionsSeen`.

### The parts

Each part has an inductive invariant, one lemma for its initial states, one or
more for its steps and one for what it implies; from these follow a theorem about
the part's own specification and one about the specification the run checks, in
which `part` chooses. The second is listed in `PROJECT.json`. `SafetyPartsTyped`
conjoins the invariants of `MCSafety` (`PartsInv`), and `ProgressPartsTyped` those
of `MCProgress`; `StepsPart` carries `NeverGivesUp` and `ImplementsPromise` over to
the step loop as `MCProgress` runs it. None of the promises is
inductive by itself; what the invariants add:

- `AgentCallSound`, `CallsSound`: how far each kind of call has got fixes what can
  have been started. Nothing runs before a request is on its way, and `Backoff` is
  reached only with no request received (`AgentInv`).
- `ForEachEarned`, `ForEachPart`: only a stopped loop leaves an item without a
  worker (`Feeding`); a result is of a worker that has gone, one for each, and the
  failed list is the failed results in their order and no longer than them
  (`Recorded`); what stops the loop is a failure under policy Fail, and until then
  every worker that has gone has left a result (`Stopping`); what was answered and
  written was computed from the lists as they are (`Answered`).
- `ServersAnswerTruly`, `ServersPart`: a handler between count and create holds
  `admitMu`, so the number it counted is still the number of the server's runs
  (`A2AFacts`). The calls are the three kinds, one of each.
- `RegistryReadsOnce`, `TriggersPart`: `OneReader` with types is nearly inductive;
  the work is in `Register`, which replaces several triggers at once: the
  goroutines it starts get different slots that nobody holds (`SlotIsFree`, a
  counting argument).
- `CertificatesTrusted`, `CertsPart`: no key held, seen, stored or patched is newer
  than the newest CA, and a replica that serves or is about to has a leaf of a CA
  that was made, not a leftover of an earlier install (`ReplicaFacts`); with one
  CA made these keys are the same, and once a patch was accepted so is the bundle's.
- `RecordsAreSound`, `RecordsPart`: nobody has more steps than the run has done
  (`OwnSteps`), and a save that has read the checkpoint as it is brings more steps
  than it holds (`BringsNew`), so that one accepted late undoes nothing, and only a
  run that is `concluded` has had its checkpoint deleted; a snapshot
  is owned by its own run (`SnapshotOwned`).
- `WritesSound`, `TargetsPart`: a step that reports has the answer of the probe,
  which is given once to each executor, and a Report that is about to be updated is the one that
  was got, or has a later version (`ChildFacts`).
- `PoolIsSound`, `ClientsSound`: a client that was handed out at some time and is
  still cached was used since, one that is retired was retired since, and one that
  is closed has had its grace period (`HandedOut`); what a caller is about to store
  it has read after its call began (`Reading`).
- `FinishedRunsSound`, `FinishedPart`: the cache and the list of a policy show only
  ends that were, with their times (`Follows`, `Listed`), and a run that is listed
  or deleted has its cause (`NotLate`), which later ends and deletions do not take
  away: of the newer runs that justify a deletion, those deleted since have newer
  ones of their own. The counts use the library's lemmas on cardinality.
- `CollectorSound`, `BindingsKept`: the present binding is the one that was listed
  or has a later version (`Judging`), and when it comes to the deletion whatever
  still needs the binding is pinned (`Pinned`) or came later (`unseen`): an
  unfinished Job stays one between two pods.
- `ExposureIsSound`, `ExposurePart`: a version identifies a copy (`CacheBehind`,
  `CopyBehind`); whoever is about to publish works on the Workflow that is there
  and whose finalizer is on (`Guarded`); a binding to be replaced is still wrong or
  has another version (`BindingBehind`).
- `RunnerAccessSound`, `AccessPart`: what the reconcile has passed is in place
  (`Provided`) as long as no outsider has touched it, which needs that the cache
  then errs in harmless ways only (`Calm`); under one uid an object stays ours or
  somebody else's (`SameOwner`).
- `WebhooksSound`, `WebhookPart`: a message that made a run has its key recorded, or
  a request that is about to record it (`KeyKnown`); a request in progress began
  no later than `Window` after its timestamp and is younger than `Delay` (`InTime`), so the
  key of one refused in time is still remembered when the next copy looks it up; tokens and admitted
  requests are together at most the burst (`Tokens`).
- `AdmissionSound`, `AdmissionPart`: each check passed is a fact about the
  submission (`DagFine`, `DepsFine`, `ActionsFine`, `RefsFine`) and the execution
  uses only those facts.
- `WalksAgree`, `SecretsPart`: what is visited the runner reaches (`Visited`), and
  every step of a visited Workflow is still to be looked at or has been followed
  and its Secrets collected (`NothingLost`); at the end the visited Workflows are
  closed under reference, and what is reachable is the least such set. An item is
  never deeper than there are visited Workflows (`Queued`), which is why cycles do
  not reach the depth limit.

Assumptions. They are `ASSUME`s of `MCProgress` and `MCSafety`, so TLC evaluates
them on the values of the runs. Most give a bound its type. The others, with what
in the code justifies them: step names are
not empty and the actions are those `executeStep` knows (`SubmissionsAssumption`:
the CRD's pattern, `api/v1alpha1/workflow_types.go:252`); limit and retention are
positive (`FinishedAssumption`: `applyRunPolicy` applies each only then,
`controller/workflowrun_controller.go:1488`); a cluster has finitely many
Workflows, each a list of steps, and the run's own among them
(`WorldsAssumption`); there is at least one attempt, one configuration, one pod,
one key (the code's constants).

The proofs led to small changes of the modules. `SecretWalk.local`, which says
that a run needs nothing from outside, did not ask that the Workflows it refers
to exist, and `LocalIsAccepted` could not be proved of a run that refers to one
that does not. `ForEach.ResultsAgree` states the order of the two lists item by
item, `Exposure.Reconcile` has exclusive cases, and `RunnerAccess.PublishCA` is a
disjunction: the same steps in a form that can be reasoned about. The search for
an inductive invariant of `NoStepRepeated` showed how much the properties of
`RL_pause` depend on its gates (section 3).

### Only model-checked

- The liveness properties, which are out of the prover's reach:
  `EventuallyTerminal`, `StepsEnd`, `CallsAnswered`,
  `TriggersConverge`, `CapReached`, `WriterHeals`, `ExposureFollows`,
  `CertsSettle`.

- What `NoStepRepeated` says of a run after a checkpoint write has failed: that only
  the steps of that write may run again.

Every other invariant and action property of a passing run is the subject of a
theorem, as is the refinement.

## 5. Not modelled

- API calls that fail for reasons other than a conflict, except where a branch
  depends on it (deletion of the Job of a stuck pod, terminal errors of a
  reconcile, checkpoint writes, which are only logged). Any other such failure makes
  the reconciler retry and the runner exit.
- CEL and the context, query steps, payload validation and schema filtering:
  data transformations around calls that only read.
- Nested workflow references: a step that runs a whole `ExecuteWorkflow` is one
  step of `StepExecutor`. The child runs in the same runner without a checkpoint
  of its own, so a `waitForCallback` in it is an error and it cannot pause.
- A step's `retry` and `timeout` fields, which are copied by template expansion
  and never applied by the executor, except the timeout of external agents.
- How an audit snapshot is cut down to the ConfigMap limit and redacted: only
  whether one fits is modelled.
- A Workflow that is edited between the pause and the resumption of its run.
- Two schedules of one Workflow that fire in one second and thereby collide in
  the name of their run; events between the end of a watch and its reopening,
  which carries no resourceVersion.
- The CLI, tracing, logging, the wording of advice, flag parsing and wiring.
- Leader changes: one controller process is assumed where the code requires the
  leader, except in `FinishedRuns`, where another replica may take over, and
  `CertManager`, which every replica runs.
- Everything else listed as `not_modelled` or `partly` in `PROJECT.json`, with
  the reason.

## 6. Plan

Done: the core with its proofs, the triggers, the steps with behaviour of their
own, the servers, the objects around a run, admission and certificates. Next:

1. Nested workflow references as a composition of two `StepExecutor`s.
2. Watches reopened without a resourceVersion, and schedules that fire together,
   as part of `TriggerRegistry`.
