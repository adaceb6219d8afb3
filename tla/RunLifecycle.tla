--------------------------- MODULE RunLifecycle ---------------------------
(***************************************************************************)
(* One WorkflowRun, from the moment it is created to its terminal phase.   *)
(*                                                                         *)
(* Five writers share the status of the run: the trigger that creates it,  *)
(* the WorkflowRun reconciler, the runner pod that executes the workflow,  *)
(* the HTTP callback server and the cron scheduler, which cancels a run it *)
(* replaces.  They coordinate through the Kubernetes API only:             *)
(*                                                                         *)
(*   - the triggers, the reconciler and the callback server run in the     *)
(*     controller process and read the run and its Job from informer       *)
(*     caches that lag behind the API server;                              *)
(*   - Status().Update from a cached object is rejected when the object    *)
(*     changed since it was cached; a raw merge patch never is;            *)
(*   - the runner reads the API server directly, keeps its own copy of the *)
(*     status and overwrites the whole status whenever it persists.        *)
(*                                                                         *)
(* The workflow is a chain of steps, some of them waitForCallback gates.   *)
(* StepExecutor models the step loop for an arbitrary graph.               *)
(***************************************************************************)
EXTENDS Naturals, FiniteSets

CONSTANTS
  NSteps,             \* the workflow is the chain 1, 2, ..., NSteps
  Gates,              \* the waitForCallback steps
  ContinueGates,      \* the gates whose waitForCallback.failurePolicy is Continue
  Checkpointing,      \* spec.execution.checkpointing.enabled
  MaxRestartAttempts, \* spec.execution.checkpointing.maxRestartAttempts
  BackoffLimit,       \* spec.execution.job.backoffLimit
  Pods,               \* pod slots of the runner Jobs
  Posts,              \* callback deliveries; each carries its own payload
  NoPost,             \* no callback payload
  MaxFaults,          \* bound: runner pods lost, or failing before a step
  MaxTokens,          \* bound: callback tokens issued
  StepsMayFail,       \* an ordinary step may return an error
  Triggered,          \* the run's trigger has yet to set its status
  Cancellable,        \* the run is cron-triggered under the Replace policy
  PodsMayStick,       \* the container of a runner pod may never start
  MayReject,          \* the Workflow may vanish or its Job be refused
  SavesMayFail,       \* a checkpoint write may fail
  EarlyTTL            \* ttlSecondsAfterFinished may pass before the caches catch up

Steps == 1..NSteps

ASSUME ConstantsAssumption ==
  /\ NSteps \in Nat \ {0}
  /\ Gates \subseteq Steps
  /\ ContinueGates \subseteq Gates
  /\ Checkpointing \in BOOLEAN
  /\ MaxRestartAttempts \in Nat
  /\ BackoffLimit \in Nat
  /\ NoPost \notin Posts
  /\ MaxFaults \in Nat
  /\ MaxTokens \in Nat
  /\ StepsMayFail \in BOOLEAN
  /\ Triggered \in BOOLEAN
  /\ Cancellable \in BOOLEAN
  /\ PodsMayStick \in BOOLEAN
  /\ MayReject \in BOOLEAN
  /\ SavesMayFail \in BOOLEAN
  /\ EarlyTTL \in BOOLEAN

VARIABLES
  run,       \* WorkflowRun.status at the API server
  runCache,  \* the controller process's cached copy of it
  fresh,     \* the cached copy carries the current resourceVersion
  job,       \* the runner Job at the API server
  jobCache,  \* the controller process's cached copy of it
  ckpt,      \* step statuses in the checkpoint ConfigMap
  pc,        \* where each runner pod is
  mem,       \* the status each runner pod holds in memory
  orphan,    \* pods whose Job object has been deleted
  saving,    \* checkpoint writes of each pod that are in flight
  reason,    \* why a terminated pod terminated
  creating,  \* the trigger that created the run has yet to set its status
  post,      \* where each callback delivery is, and what it has read
  minted,    \* callback tokens issued so far
  expired,   \* tokens whose deadline has passed
  faults,    \* pods lost so far, or failed early
  retries,   \* history: retries that retryTransientFailure recorded
  everDone,  \* history: steps some pod has completed
  lost       \* history: completed steps of checkpoint writes that failed

runVars  == <<run, runCache, fresh>>
jobVars  == <<job, jobCache, orphan>>
podVars  == <<pc, mem, saving, reason>>
reqVars  == <<creating, post>>
tokVars  == <<minted, expired>>
histVars == <<faults, retries, everDone, lost>>
vars == <<runVars, jobVars, ckpt, podVars, reqVars, tokVars, histVars>>

---------------------------------------------------------------------------
(***************************************************************************)
(* The API objects.                                                        *)
(***************************************************************************)
RunPhases  == {"", "Pending", "Running", "Succeeded", "Failed"}
StepPhases == {"Pending", "Running", "Succeeded", "Failed", "Waiting"}

IsTerminal(phase) == phase \in {"Succeeded", "Failed"}
IsActive(phase)   == phase \in {"", "Pending", "Running"}

StepStatuses == [Steps -> StepPhases]

\* Status.PendingCallback; tok identifies the token, tok = 0 is nil.
CallbackState ==
  [tok : Nat, step : Steps \cup {0}, outputs : Posts \cup {NoPost}]
NilCallback == [tok |-> 0, step |-> 0, outputs |-> NoPost]

\* recorded: Status.Execution names the runner Job.
Status == [phase : RunPhases, recorded : BOOLEAN, attempts : Nat,
           cb : CallbackState, steps : StepStatuses]

JobConditions == {"Absent", "Active", "Complete", "Failed"}
Reasons == {"", "Evicted", "OOMKilled", "DeadlineExceeded", "Error"}
Job == [cond : JobConditions, failed : Nat, deleting : BOOLEAN,
        reason : Reasons]
NoJob  == [cond |-> "Absent", failed |-> 0, deleting |-> FALSE, reason |-> ""]
NewJob == [NoJob EXCEPT !.cond = "Active"]

AllPending == [s \in Steps |-> "Pending"]
NewStatus  == [phase |-> "", recorded |-> FALSE, attempts |-> 0,
               cb |-> NilCallback, steps |-> AllPending]

\* No checkpoint is written before a step is terminal, so the map of a run
\* that has made no progress stands for an absent ConfigMap.
NoCheckpoint == AllPending

Executing == {"Load", "PersistRunning", "Restore", "Loop", "InStep",
              "GateDone", "Pause", "CleanupOk", "CleanupErr",
              "PersistOk", "PersistErr"}
Live   == {"Waiting"} \cup Executing
Exited == {"Exit0", "Exit1", "Killed"}

PostStates == {"idle", "admitted", "accepted", "already", "gone"}

Init ==
  /\ run = NewStatus
  /\ runCache = run
  /\ fresh = TRUE
  /\ job = NoJob
  /\ jobCache = NoJob
  /\ ckpt = NoCheckpoint
  /\ pc = [p \in Pods |-> "None"]
  /\ mem = [p \in Pods |-> NewStatus]
  /\ orphan = [p \in Pods |-> FALSE]
  /\ saving = [p \in Pods |-> {}]
  /\ reason = [p \in Pods |-> ""]
  /\ creating = Triggered
  /\ post = [q \in Posts |-> [state |-> "idle", cb |-> NilCallback]]
  /\ minted = 0
  /\ expired = {}
  /\ faults = 0
  /\ retries = 0
  /\ everDone = {}
  /\ lost = {}

---------------------------------------------------------------------------
(***************************************************************************)
(* How the API server treats the writers.                                  *)
(*                                                                         *)
(* Definitions whose name has an underscore, here and below, are seeded    *)
(* faults: variants of the definition that follows with a plausible bug,   *)
(* kept to show that the properties notice it.                             *)
(***************************************************************************)

StatusUpdate_Unchecked(st) ==
  /\ run' = st
  /\ fresh' = (fresh /\ st = run)
  /\ UNCHANGED runCache

\* Status().Update of an object that was read from the cache: it succeeds
\* only while the cached resourceVersion is current.
StatusUpdate(st) ==
  /\ run' = IF fresh THEN st ELSE run
  /\ fresh' = (fresh /\ st = run)
  /\ UNCHANGED runCache

\* An unconditional write: the runner's get-and-replace loop and the raw
\* merge patches.  Times and names that the model leaves out change with it,
\* so every cached copy is out of date.
StatusOverwrite(st) ==
  /\ run' = st
  /\ fresh' = FALSE
  /\ UNCHANGED runCache

\* Delete by name with background propagation: the Job is gone at once,
\* its pods are left to the garbage collector.
DeleteJobBackground ==
  /\ job' = NoJob
  /\ orphan' = [p \in Pods |-> orphan[p] \/ pc[p] # "None"]

SyncRunCache ==
  /\ ~fresh
  /\ runCache' = run
  /\ fresh' = TRUE
  /\ UNCHANGED <<run, jobVars, ckpt, podVars, reqVars, tokVars, histVars>>

SyncJobCache ==
  /\ jobCache # job
  /\ jobCache' = job
  /\ UNCHANGED <<runVars, job, orphan, ckpt, podVars, reqVars, tokVars,
                 histVars>>

---------------------------------------------------------------------------
(***************************************************************************)
(* The trigger that created the run.                                       *)
(***************************************************************************)
TriggerStatus == [NewStatus EXCEPT !.phase = "Pending"]

\* Create drops the status, so the trigger gets the run from the cache and
\* replaces its whole status.  It gives up after five rejected attempts.
SetTriggerStatus ==
  /\ creating /\ creating' = FALSE
  /\ \/ fresh /\ StatusOverwrite(TriggerStatus)
     \/ ~fresh /\ UNCHANGED runVars
  /\ UNCHANGED <<jobVars, ckpt, podVars, post, tokVars, histVars>>

---------------------------------------------------------------------------
(***************************************************************************)
(* The WorkflowRun reconciler.                                             *)
(***************************************************************************)
setRunFailed(st) == [st EXCEPT !.phase = "Failed", !.cb = NilCallback]

isDeterministicTermination(r) == r \in {"OOMKilled", "DeadlineExceeded"}

retryTransientFailure_CountsDown(st) ==
  /\ DeleteJobBackground
  /\ retries' = IF fresh THEN retries + 1 ELSE retries
  /\ StatusUpdate([st EXCEPT !.attempts = @ - 1, !.phase = "Pending"])
  /\ UNCHANGED ckpt

\* retryTransientFailure: delete the failed Job, then count the attempt.
retryTransientFailure(st) ==
  /\ DeleteJobBackground
  /\ retries' = IF fresh THEN retries + 1 ELSE retries
  /\ StatusUpdate([st EXCEPT !.attempts = @ + 1, !.phase = "Pending"])
  /\ UNCHANGED ckpt

\* markRunTerminallyFailed: delete the checkpoint, then persist the failure.
markRunTerminallyFailed(st) ==
  /\ ckpt' = NoCheckpoint
  /\ StatusUpdate([setRunFailed(st) EXCEPT !.recorded = TRUE])
  /\ UNCHANGED <<job, orphan, retries>>

handleFailedJob(st) ==
  IF /\ Checkpointing
     /\ ~isDeterministicTermination(jobCache.reason)
     /\ st.attempts < MaxRestartAttempts
  THEN retryTransientFailure(st)
  ELSE markRunTerminallyFailed(st)

\* The first reconcile that sees a Job records it in Status.Execution.
recordJob(st) ==
  IF st.recorded THEN st
  ELSE [st EXCEPT !.phase = IF @ = "" THEN "Pending" ELSE @,
                  !.recorded = TRUE]

\* The pod's name and the progress of the Job, which the model leaves out, are
\* written as well.
recordPod(st) ==
  /\ fresh
  /\ StatusOverwrite(st)

\* The creation block of reconcileJobExecution.  When the Job already
\* exists but is not cached yet, the re-Get fails and the request is
\* requeued.
createRunnerJob(st) ==
  IF job = NoJob
  THEN /\ job' = NewJob
       /\ StatusUpdate(recordJob(st))
  ELSE /\ UNCHANGED job
       /\ StatusUpdate(st)

pendingCallback == runCache.cb # NilCallback
outputsDelivered == runCache.cb.outputs # NoPost
callbackExpired == runCache.cb.tok \in expired
continuesOnTimeout == runCache.cb.step \in ContinueGates
resumable ==
  /\ pendingCallback
  /\ outputsDelivered \/ (callbackExpired /\ continuesOnTimeout)

running(st) == [st EXCEPT !.phase = "Running"]
\* ensureRunning returns an error when its write is rejected.
ensureRunningOK == fresh \/ runCache.phase = "Running"

reconciles == ~IsTerminal(runCache.phase)

\* No callback pending and no Job cached: create the runner Job.
ReconcileCreate ==
  /\ reconciles /\ ~pendingCallback
  /\ jobCache = NoJob
  /\ createRunnerJob(runCache)
  /\ UNCHANGED <<jobCache, orphan, ckpt, podVars, reqVars, tokVars, histVars>>

\* No callback pending, the Job is cached: supervise it.
ReconcileMonitor ==
  /\ reconciles /\ ~pendingCallback
  /\ jobCache # NoJob
  /\ IF jobCache.failed > 0 /\ (fresh \/ runCache.recorded)
     THEN handleFailedJob(recordJob(runCache))
     ELSE /\ \/ StatusUpdate(recordJob(runCache))
             \/ recordPod(recordJob(runCache))
          /\ UNCHANGED <<job, orphan, ckpt, retries>>
  /\ UNCHANGED <<jobCache, podVars, reqVars, tokVars, faults, everDone, lost>>

\* handleStuckRunnerPods: a pod whose container cannot start.  The terminal
\* status is written first; the Job is deleted only if that succeeded, and
\* the delete itself may fail.
ReconcileStuckPod ==
  /\ PodsMayStick
  /\ reconciles /\ ~pendingCallback
  /\ jobCache # NoJob
  /\ fresh
  /\ \E p \in Pods : pc[p] = "Waiting"
  /\ StatusUpdate([setRunFailed(runCache) EXCEPT !.recorded = TRUE])
  /\ \/ DeleteJobBackground
     \/ UNCHANGED <<job, orphan>>
  /\ UNCHANGED <<jobCache, ckpt, podVars, reqVars, tokVars, histVars>>

ReconcileTimeout_ExpiryFirst ==
  /\ reconciles /\ pendingCallback
  /\ callbackExpired /\ ~continuesOnTimeout
  /\ StatusUpdate(setRunFailed(
        [runCache EXCEPT !.steps[runCache.cb.step] = "Failed"]))
  /\ UNCHANGED <<jobVars, ckpt, podVars, reqVars, tokVars, histVars>>

\* The deadline passed and the policy is Fail.
ReconcileTimeout ==
  /\ reconciles /\ pendingCallback
  /\ ~outputsDelivered /\ callbackExpired /\ ~continuesOnTimeout
  /\ StatusUpdate(setRunFailed(
        [runCache EXCEPT !.steps[runCache.cb.step] = "Failed"]))
  /\ UNCHANGED <<jobVars, ckpt, podVars, reqVars, tokVars, histVars>>

ResumeCreate_NoFallThrough ==
  /\ reconciles /\ resumable
  /\ jobCache = NoJob
  /\ StatusUpdate(running(runCache))
  /\ UNCHANGED <<jobVars, ckpt, podVars, reqVars, tokVars, histVars>>

\* resumeRunnerJob, the old Job is gone: mark the run Running and create
\* the Job that resumes it.
ResumeCreate ==
  /\ reconciles /\ resumable
  /\ jobCache = NoJob
  /\ ensureRunningOK
  /\ createRunnerJob(running(runCache))
  /\ UNCHANGED <<jobCache, orphan, ckpt, podVars, reqVars, tokVars, histVars>>

ResumeDelete_AnyJob ==
  /\ reconciles /\ resumable
  /\ jobCache # NoJob
  /\ DeleteJobBackground
  /\ UNCHANGED <<runVars, jobCache, ckpt, podVars, reqVars, tokVars, histVars>>

\* resumeRunnerJob, the paused Job completed: delete it in the foreground.
ResumeDelete ==
  /\ reconciles /\ resumable
  /\ jobCache.cond = "Complete"
  /\ ~jobCache.deleting
  /\ job # NoJob
  /\ job' = [job EXCEPT !.deleting = TRUE]
  /\ UNCHANGED <<runVars, jobCache, orphan, ckpt, podVars, reqVars, tokVars,
                 histVars>>

\* resumeRunnerJob, the resuming Job failed for good.
ResumeFailed ==
  /\ reconciles /\ resumable
  /\ jobCache.cond = "Failed"
  /\ handleFailedJob(runCache)
  /\ UNCHANGED <<jobCache, podVars, reqVars, tokVars, faults, everDone, lost>>

\* resumeRunnerJob, the resuming Job is active.
ResumeActive ==
  /\ reconciles /\ resumable
  /\ jobCache.cond = "Active"
  /\ StatusUpdate(running(runCache))
  /\ UNCHANGED <<jobVars, ckpt, podVars, reqVars, tokVars, histVars>>

\* Terminal errors of a reconcile: the Workflow is not found, or the Job
\* cannot be built, authorised or created.
ReconcileReject ==
  /\ MayReject
  /\ reconciles
  /\ StatusUpdate(setRunFailed(runCache))
  /\ UNCHANGED <<jobVars, ckpt, podVars, reqVars, tokVars, histVars>>

Reconcile ==
  \/ ReconcileCreate \/ ReconcileMonitor \/ ReconcileTimeout
  \/ ReconcileStuckPod \/ ReconcileReject
  \/ ResumeCreate \/ ResumeDelete \/ ResumeFailed \/ ResumeActive

\* cancelActiveWorkflowRuns: a newer cron fire replaces this run.
CancelRun ==
  /\ Cancellable
  /\ IsActive(runCache.phase)
  /\ StatusUpdate(setRunFailed(runCache))
  /\ UNCHANGED <<jobVars, ckpt, podVars, reqVars, tokVars, histVars>>

---------------------------------------------------------------------------
(***************************************************************************)
(* The callback server.  handleCallback answers from the cache twice: once *)
(* to admit the request and once, after the payload has been read and      *)
(* validated, before the patch.                                            *)
(***************************************************************************)

\* The request holds the token of the cached pending callback.  Requests
\* refused with 4xx change nothing and may be sent again.
CallbackAdmit(q) ==
  /\ post[q].state = "idle"
  /\ pendingCallback
  /\ ~IsTerminal(runCache.phase)
  /\ ~callbackExpired
  /\ post' = [post EXCEPT ![q] =
                [state |-> IF outputsDelivered THEN "already" ELSE "admitted",
                 cb |-> runCache.cb]]
  /\ UNCHANGED <<runVars, jobVars, ckpt, podVars, creating, tokVars, histVars>>

\* The re-fetch and the raw merge patch of the whole pendingCallback.
CallbackPatch(q) ==
  /\ post[q].state = "admitted"
  /\ \/ /\ IsTerminal(runCache.phase)
        /\ post' = [post EXCEPT ![q].state = "gone"]
        /\ UNCHANGED runVars
     \/ /\ ~IsTerminal(runCache.phase) /\ outputsDelivered
        /\ post' = [post EXCEPT ![q].state = "already"]
        /\ UNCHANGED runVars
     \/ /\ ~IsTerminal(runCache.phase) /\ ~outputsDelivered
        /\ post' = [post EXCEPT ![q].state = "accepted"]
        /\ StatusOverwrite(
             [run EXCEPT !.cb = [post[q].cb EXCEPT !.outputs = q]])
  /\ UNCHANGED <<jobVars, ckpt, podVars, creating, tokVars, histVars>>

ExpireToken(t) ==
  /\ t \in 1..minted \ expired
  /\ expired' = expired \cup {t}
  /\ UNCHANGED <<runVars, jobVars, ckpt, podVars, reqVars, minted, histVars>>

---------------------------------------------------------------------------
(***************************************************************************)
(* The runner pod: cmd/workflow-runner and the parts of the executor that  *)
(* touch the run.                                                          *)
(***************************************************************************)
Goto(p, from, to) == pc[p] = from /\ pc' = [pc EXCEPT ![p] = to]

\* mustLoadWorkflowRun.
Load(p) ==
  /\ Goto(p, "Load", "PersistRunning")
  /\ mem' = [mem EXCEPT ![p] = run]
  /\ UNCHANGED <<runVars, jobVars, ckpt, saving, reason, reqVars, tokVars,
                 histVars>>

\* mustLoadWorkflow or a client cannot be set up: updateExecutionFailure
\* writes the status that was loaded back as Failed.
LoadFails(p) ==
  /\ MayReject
  /\ faults < MaxFaults
  /\ Goto(p, "PersistRunning", "Exit1")
  /\ StatusOverwrite([mem[p] EXCEPT !.phase = "Failed", !.recorded = TRUE,
                                     !.attempts = 0])
  /\ faults' = faults + 1
  /\ UNCHANGED <<jobVars, ckpt, mem, saving, reason, reqVars, tokVars, retries,
                 everDone, lost>>

\* mustPersistRunningStatus: Status.Execution is replaced by a new struct,
\* so Attempts is zero again, and the loaded status is written back.
PersistRunning(p) ==
  /\ Goto(p, "PersistRunning", "Restore")
  /\ LET st == [mem[p] EXCEPT !.recorded = TRUE, !.attempts = 0]
     IN /\ mem' = [mem EXCEPT ![p] = st]
        /\ StatusOverwrite(st)
  /\ UNCHANGED <<jobVars, ckpt, saving, reason, reqVars, tokVars, histVars>>

\* loadCheckpointIfNeeded, then the phase change that stays in memory.
isRestart(st) == st.phase = "Running" \/ st.attempts > 0

Restore(p) ==
  /\ Goto(p, "Restore", "Loop")
  /\ LET st == mem[p]
         restored == Checkpointing /\ isRestart(st) /\ ckpt # NoCheckpoint
     IN mem' = [mem EXCEPT
          ![p].steps = IF restored THEN ckpt ELSE @,
          ![p].phase = IF @ \in {"", "Pending"} THEN "Running" ELSE @]
  /\ UNCHANGED <<runVars, jobVars, ckpt, saving, reason, reqVars, tokVars,
                 histVars>>

\* ExecuteWorkflow returns an error before its cleanup is deferred.  Failing
\* to initialise the context fails the run; failing to read the checkpoint
\* or to evaluate a variable leaves the phase alone.
InitFails(p) ==
  /\ MayReject
  /\ faults < MaxFaults
  /\ Goto(p, "Restore", "PersistErr")
  /\ \E phase \in {mem[p].phase, "Failed"} :
       mem' = [mem EXCEPT ![p].phase = phase]
  /\ faults' = faults + 1
  /\ UNCHANGED <<runVars, jobVars, ckpt, saving, reason, reqVars, tokVars,
                 retries, everDone, lost>>

\* The chain has at most one ready step: the first that is not done.
isStepDone(st, s) == st.steps[s] = "Succeeded"
ReadyStep(st, s) ==
  /\ ~isStepDone(st, s)
  /\ \A t \in 1..(s - 1) : isStepDone(st, t)

\* No step is ready: every step is done.
AllDone(p) ==
  /\ \A s \in Steps : isStepDone(mem[p], s)
  /\ Goto(p, "Loop", "CleanupOk")
  /\ mem' = [mem EXCEPT ![p].phase = "Succeeded"]
  /\ UNCHANGED <<runVars, jobVars, ckpt, saving, reason, reqVars, tokVars,
                 histVars>>

\* The ready step is not Pending: the loop ends and ExecuteWorkflow returns
\* nil with the phase it has.
NothingExecuted(p) ==
  /\ \E s \in Steps : ReadyStep(mem[p], s) /\ mem[p].steps[s] # "Pending"
  /\ Goto(p, "Loop", "CleanupOk")
  /\ UNCHANGED <<runVars, jobVars, ckpt, mem, saving, reason, reqVars, tokVars,
                 histVars>>

StartStep(p, s) ==
  /\ ReadyStep(mem[p], s) /\ mem[p].steps[s] = "Pending"
  /\ s \notin Gates
  /\ Goto(p, "Loop", "InStep")
  /\ mem' = [mem EXCEPT ![p].steps[s] = "Running"]
  /\ UNCHANGED <<runVars, jobVars, ckpt, saving, reason, reqVars, tokVars,
                 histVars>>

\* The step succeeds; saveCheckpoint marshals the statuses and starts an
\* asynchronous write.
CompleteStep(p, s) ==
  /\ mem[p].steps[s] = "Running"
  /\ pc[p] \in {"InStep", "GateDone"}
  /\ pc' = [pc EXCEPT ![p] = "Loop"]
  /\ mem' = [mem EXCEPT ![p].steps[s] = "Succeeded"]
  /\ saving' = IF Checkpointing
               THEN [saving EXCEPT ![p] = @ \cup {mem'[p].steps}]
               ELSE saving
  /\ everDone' = everDone \cup {s}
  /\ UNCHANGED <<runVars, jobVars, ckpt, reason, reqVars, tokVars, faults,
                 retries, lost>>

\* The step fails under failurePolicy Fail: recordWorkflowFailure.
FailStep(p, s) ==
  /\ StepsMayFail
  /\ mem[p].steps[s] = "Running"
  /\ Goto(p, "InStep", "CleanupErr")
  /\ mem' = [mem EXCEPT ![p].steps[s] = "Failed", ![p].phase = "Failed"]
  /\ UNCHANGED <<runVars, jobVars, ckpt, saving, reason, reqVars, tokVars,
                 histVars>>

\* executeWaitForCallback.
AtGate(p, s) ==
  /\ pc[p] = "Loop"
  /\ s \in Gates
  /\ ReadyStep(mem[p], s) /\ mem[p].steps[s] = "Pending"

ownCallback(p, s) == mem[p].cb # NilCallback /\ mem[p].cb.step = s

clearPendingCallback == StatusOverwrite([run EXCEPT !.cb = NilCallback])

\* The outputs are there: write them to the context, clear the slot.
GateConsume(p, s) ==
  /\ AtGate(p, s)
  /\ ownCallback(p, s) /\ mem[p].cb.outputs # NoPost
  /\ clearPendingCallback
  /\ pc' = [pc EXCEPT ![p] = "GateDone"]
  /\ mem' = [mem EXCEPT ![p].cb = NilCallback, ![p].steps[s] = "Running"]
  /\ UNCHANGED <<jobVars, ckpt, saving, reason, reqVars, tokVars, histVars>>

\* No outputs and the deadline passed: handleCallbackTimeout.
GateTimeout(p, s) ==
  /\ AtGate(p, s)
  /\ ownCallback(p, s) /\ mem[p].cb.outputs = NoPost
  /\ mem[p].cb.tok \in expired
  /\ clearPendingCallback
  /\ IF s \in ContinueGates
     THEN /\ pc' = [pc EXCEPT ![p] = "GateDone"]
          /\ mem' = [mem EXCEPT ![p].cb = NilCallback,
                                ![p].steps[s] = "Running"]
     ELSE /\ pc' = [pc EXCEPT ![p] = "CleanupErr"]
          /\ mem' = [mem EXCEPT ![p].cb = NilCallback,
                                ![p].steps[s] = "Failed",
                                ![p].phase = "Failed"]
  /\ UNCHANGED <<jobVars, ckpt, saving, reason, reqVars, tokVars, histVars>>

\* No outputs yet and the deadline is ahead: pause again.
GateRepause(p, s) ==
  /\ AtGate(p, s)
  /\ ownCallback(p, s) /\ mem[p].cb.outputs = NoPost
  /\ mem[p].cb.tok \notin expired
  /\ pc' = [pc EXCEPT ![p] = "Pause"]
  /\ mem' = [mem EXCEPT ![p].steps[s] = "Waiting"]
  /\ UNCHANGED <<runVars, jobVars, ckpt, saving, reason, reqVars, tokVars,
                 histVars>>

\* First visit: issue a token, publish the pending callback, pause.
GateArm(p, s) ==
  /\ AtGate(p, s)
  /\ ~ownCallback(p, s)
  /\ minted < MaxTokens
  /\ LET cb == [tok |-> minted + 1, step |-> s, outputs |-> NoPost]
     IN /\ StatusOverwrite([run EXCEPT !.cb = cb])
        /\ mem' = [mem EXCEPT ![p].cb = cb, ![p].steps[s] = "Waiting"]
  /\ minted' = minted + 1
  /\ pc' = [pc EXCEPT ![p] = "Pause"]
  /\ UNCHANGED <<jobVars, ckpt, saving, reason, reqVars, expired, histVars>>

Pause_NoFlush(p) ==
  /\ Goto(p, "Pause", "Exit0")
  /\ UNCHANGED <<runVars, jobVars, ckpt, mem, saving, reason, reqVars, tokVars,
                 histVars>>

\* ErrAwaitingCallback: the deferred cleanup flushes the checkpoint writes
\* and the runner exits 0 without persisting the status.
Pause(p) ==
  /\ saving[p] = {}
  /\ Goto(p, "Pause", "Exit0")
  /\ UNCHANGED <<runVars, jobVars, ckpt, mem, saving, reason, reqVars, tokVars,
                 histVars>>

\* checkpointCleanup: flush, and delete the checkpoint of a terminal run.
Cleanup(p) ==
  /\ saving[p] = {}
  /\ \/ Goto(p, "CleanupOk", "PersistOk")
     \/ Goto(p, "CleanupErr", "PersistErr")
  /\ ckpt' = IF IsTerminal(mem[p].phase) THEN NoCheckpoint ELSE ckpt
  /\ UNCHANGED <<runVars, jobVars, mem, saving, reason, reqVars, tokVars,
                 histVars>>

\* persistExecutionSuccess and persistExecutionFailure.
PersistFinal(p) ==
  /\ \/ Goto(p, "PersistOk", "Exit0")
     \/ Goto(p, "PersistErr", "Exit1")
  /\ StatusOverwrite(mem[p])
  /\ UNCHANGED <<jobVars, ckpt, mem, saving, reason, reqVars, tokVars, histVars>>

\* One asynchronous checkpoint write lands; it never replaces a snapshot
\* that has at least as many terminal steps.
terminalStepCount(steps) ==
  Cardinality({s \in Steps : steps[s] \in {"Succeeded", "Failed"}})

SaveCheckpoint(p) ==
  /\ \E snap \in saving[p] :
       /\ ckpt' = IF terminalStepCount(ckpt) >= terminalStepCount(snap)
                  THEN ckpt ELSE snap
       /\ saving' = [saving EXCEPT ![p] = @ \ {snap}]
  /\ UNCHANGED <<runVars, jobVars, pc, mem, reason, reqVars, tokVars, histVars>>

\* SaveAsync only logs a snapshot that cannot be marshalled or written; the
\* runner goes on, to the next step or to a pause.
SaveFails(p) ==
  /\ SavesMayFail
  /\ \E snap \in saving[p] :
       /\ saving' = [saving EXCEPT ![p] = @ \ {snap}]
       /\ lost' = lost \cup {s \in Steps : snap[s] = "Succeeded"}
  /\ UNCHANGED <<runVars, jobVars, ckpt, pc, mem, reason, reqVars, tokVars,
                 faults, retries, everDone>>

RunnerStep(p) ==
  \/ Load(p) \/ LoadFails(p) \/ PersistRunning(p)
  \/ Restore(p) \/ InitFails(p)
  \/ AllDone(p) \/ NothingExecuted(p)
  \/ \E s \in Steps :
       \/ StartStep(p, s) \/ CompleteStep(p, s) \/ FailStep(p, s)
       \/ GateConsume(p, s) \/ GateTimeout(p, s)
       \/ GateRepause(p, s) \/ GateArm(p, s)
  \/ Pause(p) \/ Cleanup(p) \/ PersistFinal(p)

---------------------------------------------------------------------------
(***************************************************************************)
(* Kubernetes: the Job controller, the kubelet and the garbage collector.  *)
(***************************************************************************)

\* The Job controller keeps one pod running until the Job is finished.
CreatePod(p) ==
  /\ job.cond = "Active" /\ ~job.deleting
  /\ pc[p] = "None"
  /\ \A o \in Pods : pc[o] # "None" => orphan[o]
  /\ pc' = [pc EXCEPT ![p] = "Waiting"]
  /\ orphan' = [orphan EXCEPT ![p] = FALSE]
  /\ UNCHANGED <<runVars, job, jobCache, ckpt, mem, saving, reason, reqVars,
                 tokVars, histVars>>

StartContainer(p) ==
  /\ Goto(p, "Waiting", "Load")
  /\ UNCHANGED <<runVars, jobVars, ckpt, mem, saving, reason, reqVars, tokVars,
                 histVars>>

\* Eviction, node loss, out-of-memory kill or a panic.
Crash(p) ==
  /\ faults < MaxFaults
  /\ pc[p] \in Executing
  /\ faults' = faults + 1
  /\ pc' = [pc EXCEPT ![p] = "Killed"]
  /\ \E r \in {"Evicted", "OOMKilled"} : reason' = [reason EXCEPT ![p] = r]
  /\ mem' = [mem EXCEPT ![p] = NewStatus]
  /\ saving' = [saving EXCEPT ![p] = {}]
  /\ UNCHANGED <<runVars, jobVars, ckpt, reqVars, tokVars, retries, everDone, lost>>

\* activeDeadlineSeconds: the pod is killed and the Job fails at once.
DeadlineExceeded(p) ==
  /\ faults < MaxFaults
  /\ pc[p] \in Live /\ ~orphan[p]
  /\ faults' = faults + 1
  /\ pc' = [pc EXCEPT ![p] = "None"]
  /\ mem' = [mem EXCEPT ![p] = NewStatus]
  /\ saving' = [saving EXCEPT ![p] = {}]
  /\ job' = [job EXCEPT !.cond = "Failed", !.failed = @ + 1,
                        !.reason = "DeadlineExceeded"]
  /\ UNCHANGED <<runVars, jobCache, orphan, ckpt, reason, reqVars, tokVars,
                 retries, everDone, lost>>

\* The Job controller counts a terminated pod.
CountPod(p) ==
  /\ pc[p] \in Exited
  /\ pc' = [pc EXCEPT ![p] = "None"]
  /\ mem' = [mem EXCEPT ![p] = NewStatus]
  /\ saving' = [saving EXCEPT ![p] = {}]
  /\ reason' = [reason EXCEPT ![p] = ""]
  /\ orphan' = [orphan EXCEPT ![p] = FALSE]
  /\ job' = IF orphan[p] THEN job
            ELSE IF pc[p] = "Exit0" THEN [job EXCEPT !.cond = "Complete"]
            ELSE [job EXCEPT
                    !.failed = @ + 1,
                    !.cond = IF job.failed + 1 > BackoffLimit
                             THEN "Failed" ELSE @,
                    !.reason = IF pc[p] = "Exit1" THEN "Error" ELSE reason[p]]
  /\ UNCHANGED <<runVars, jobCache, ckpt, reqVars, tokVars, histVars>>

\* The garbage collector ends the pods of a deleted Job.
CollectOrphan(p) ==
  /\ orphan[p] /\ pc[p] \in Live
  /\ pc' = [pc EXCEPT ![p] = "None"]
  /\ mem' = [mem EXCEPT ![p] = NewStatus]
  /\ saving' = [saving EXCEPT ![p] = {}]
  /\ orphan' = [orphan EXCEPT ![p] = FALSE]
  /\ UNCHANGED <<runVars, job, jobCache, ckpt, reason, reqVars, tokVars,
                 histVars>>

\* Foreground deletion ends when the Job's pods are gone.
FinishDelete ==
  /\ job.deleting
  /\ \A p \in Pods : pc[p] = "None" \/ orphan[p]
  /\ job' = NoJob
  /\ UNCHANGED <<runVars, jobCache, orphan, ckpt, podVars, reqVars, tokVars,
                 histVars>>

\* ttlSecondsAfterFinished: a finished Job is removed.  With the default of an
\* hour the caches have caught up by then, and the reconciler, which looks at a
\* Job every two seconds, has dealt with one that failed; a Workflow may ask for
\* as little as 0.
JobTTL ==
  /\ job.cond \in {"Complete", "Failed"} /\ ~job.deleting
  /\ \/ EarlyTTL
     \/ /\ fresh /\ jobCache = job
        /\ job.cond = "Failed" => IsTerminal(run.phase)
  /\ job' = NoJob
  /\ UNCHANGED <<runVars, jobCache, orphan, ckpt, podVars, reqVars, tokVars,
                 histVars>>

KubernetesStep(p) ==
  \/ CreatePod(p) \/ CountPod(p) \/ CollectOrphan(p)

---------------------------------------------------------------------------
\* A terminal run whose processes have all come to rest, or a runner that
\* needs more tokens than the bound allows.
Rest ==
  /\ \/ IsTerminal(runCache.phase) /\ \A p \in Pods : pc[p] = "None"
     \/ minted = MaxTokens /\ \E p \in Pods : pc[p] = "Loop"
  /\ UNCHANGED vars

Next ==
  \/ SyncRunCache \/ SyncJobCache
  \/ SetTriggerStatus
  \/ Reconcile \/ CancelRun
  \/ \E q \in Posts : CallbackAdmit(q) \/ CallbackPatch(q)
  \/ \E t \in 1..minted : ExpireToken(t)
  \/ \E p \in Pods :
       \/ RunnerStep(p) \/ SaveCheckpoint(p) \/ SaveFails(p)
       \/ KubernetesStep(p) \/ StartContainer(p)
       \/ Crash(p) \/ DeadlineExceeded(p)
  \/ FinishDelete \/ JobTTL
  \/ Rest

Spec == Init /\ [][Next]_vars

(***************************************************************************)
(* Fairness.  controller-runtime requeues a request until it succeeds and  *)
(* informers keep delivering; a runner that is not killed keeps going and  *)
(* its writes land; Kubernetes keeps a Job supplied with a pod, counts     *)
(* pods that end and collects what is deleted; deadlines pass.  Nothing    *)
(* makes a callback arrive, a pod crash or a container start when          *)
(* PodsMayStick.                                                           *)
(***************************************************************************)
Fairness ==
  /\ WF_vars(SyncRunCache) /\ WF_vars(SyncJobCache)
  /\ WF_vars(Reconcile)
  /\ \A q \in Posts : WF_vars(CallbackPatch(q))
  /\ \A t \in 1..MaxTokens : WF_vars(ExpireToken(t))
  /\ \A p \in Pods :
       /\ WF_vars(RunnerStep(p)) /\ WF_vars(SaveCheckpoint(p))
       /\ WF_vars(KubernetesStep(p))
       /\ ~PodsMayStick => WF_vars(StartContainer(p))
  /\ WF_vars(FinishDelete)

FairSpec == Spec /\ Fairness

---------------------------------------------------------------------------
(***************************************************************************)
(* Properties.                                                             *)
(***************************************************************************)

\* Every variable has its type; the callback deadlines that have passed are
\* those of tokens a runner issued, and a cached run whose resourceVersion is
\* current equals the run at the API server.
TypeOK ==
  /\ run \in Status /\ runCache \in Status
  /\ fresh \in BOOLEAN /\ (fresh => runCache = run)
  /\ job \in Job /\ jobCache \in Job
  /\ ckpt \in StepStatuses
  /\ pc \in [Pods -> {"None"} \cup Live \cup Exited]
  /\ mem \in [Pods -> Status]
  /\ orphan \in [Pods -> BOOLEAN]
  /\ saving \in [Pods -> SUBSET StepStatuses]
  /\ reason \in [Pods -> Reasons]
  /\ creating \in BOOLEAN
  /\ post \in [Posts -> [state : PostStates, cb : CallbackState]]
  /\ minted \in Nat /\ expired \subseteq 1..minted
  /\ faults \in Nat /\ retries \in Nat
  /\ everDone \subseteq Steps /\ lost \subseteq Steps

\* Every checkpoint write so far has landed or is under way.
NoSaveLost == lost = {}

\* A run that reached Succeeded or Failed keeps that phase: neither a late
\* reconcile, nor a callback, nor persistWorkflowRunStatus of a runner that is
\* still going revives it.  (Once a checkpoint write has failed, a resumed runner
\* may ask again at a gate that is behind it, and that question may time out
\* under a runner.)
TerminalIsFinal == [][NoSaveLost /\ IsTerminal(run.phase) => run'.phase = run.phase]_vars

RewritesTerminal == IsTerminal(run.phase) /\ run'.phase # run.phase

\* A writer replaces the status by one of its own making: a runner pod
\* (persistWorkflowRunStatus), or the trigger that created the run.
WritesOwnCopy ==
  \/ creating # creating'
  \/ \E p \in Pods : /\ pc[p] \in {"PersistRunning", "PersistOk", "PersistErr"}
                     /\ pc'[p] # pc[p]

\* Whatever the informer caches show, a terminal phase changes only when a
\* runner pod persists its own copy of the status or the trigger sets the
\* initial one: the reconciler, a cancellation and the callback server, which
\* write back what they read, never change it.
OnlyOwnCopiesRewriteTerminal == [][RewritesTerminal => WritesOwnCopy]_vars

\* Two runner pods never execute the run at the same time: retries
\* (retryTransientFailure) and resumptions (resumeRunnerJob) replace a Job only
\* once its pod has ended.
OneRunner ==
  \A p, o \in Pods : pc[p] \in Executing /\ pc[o] \in Executing => p = o

\* A runner starts one of these steps.
Starts(S) ==
  \E p \in Pods : \E s \in S :
    mem'[p].steps[s] = "Running" /\ mem[p].steps[s] # "Running"

\* A step that completed is started again only if a checkpoint write that
\* recorded it failed: pausing at a waitForCallback gate flushes the writes, and
\* the runner that resumes restores what they saved.
NoStepRepeated == [][~Starts(everDone \ lost)]_vars

\* A step that the checkpoint records as completed is never started again:
\* loadCheckpointIfNeeded restores it after every restart of the runner.
CheckpointHonoured == [][~Starts({s \in Steps : ckpt[s] = "Succeeded"})]_vars

\* Outputs that a sender was told were accepted (handleCallback answered 200)
\* leave the slot of a live run only when executeWaitForCallback consumes them,
\* if the gate's timeout policy is Fail, its token was delivered only once and
\* every checkpoint write landed.
CallbackNotLost ==
  [][/\ NoSaveLost /\ run.cb.outputs # NoPost
     /\ \A q, r \in Posts : post'[q].cb.tok = run.cb.tok /\ post'[r].cb.tok = run.cb.tok
                           => q = r
     /\ run.cb.step \notin ContinueGates
     /\ run'.cb.outputs # run.cb.outputs
     => \/ IsTerminal(run.phase)
        \/ \E p \in Pods : /\ pc[p] = "Loop" /\ pc'[p] = "GateDone"
                           /\ mem[p].cb = run.cb]_vars

\* A callback token is single-use: handleCallback accepts at most one delivery
\* of it.
AcceptedOnce ==
  \A q, r \in Posts :
    /\ post[q].state = "accepted" /\ post[r].state = "accepted"
    /\ post[q].cb.tok = post[r].cb.tok
    => q = r

\* retryTransientFailure records at most MaxRestartAttempts retries of a run.
RetriesBounded == retries <= MaxRestartAttempts

\* The run reaches a terminal phase and the reconciler sees it, so it is not
\* requeued for ever: no pause, retry or deletion in progress leaves every
\* writer waiting for another.
EventuallyTerminal == <>[](IsTerminal(run.phase) /\ IsTerminal(runCache.phase))
===========================================================================
