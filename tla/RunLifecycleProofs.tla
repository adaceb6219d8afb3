------------------------ MODULE RunLifecycleProofs ------------------------
(***************************************************************************)
(* Theorems about the life of a WorkflowRun, for any number of steps,      *)
(* pods, callbacks, retries and faults.                                    *)
(***************************************************************************)
EXTENDS RunInvariants, FiniteSetTheorems, TLAPS

\* What the writers make of a status is a status.
LEMMA StatusTypes ==
  /\ NewStatus \in Status
  /\ \A st \in Status :
       /\ setRunFailed(st) \in Status
       /\ recordJob(st) \in Status
       /\ running(st) \in Status
       /\ \A ph \in RunPhases : [st EXCEPT !.phase = ph] \in Status
       /\ \A c \in CallbackState : [st EXCEPT !.cb = c] \in Status
       /\ \A s \in Steps, x \in StepPhases : [st EXCEPT !.steps[s] = x] \in Status
       /\ \A f \in StepStatuses : [st EXCEPT !.steps = f] \in Status
<1>. USE DEF Status, RunPhases
<1>1. NilCallback \in CallbackState
  BY DEF NilCallback, CallbackState
<1>2. AllPending \in StepStatuses
  BY DEF AllPending, StepStatuses, StepPhases
<1>3. NewStatus \in Status
  BY <1>1, <1>2 DEF NewStatus
<1>4. ASSUME NEW st \in Status
      PROVE  /\ setRunFailed(st) \in Status
             /\ recordJob(st) \in Status
             /\ running(st) \in Status
  BY <1>1 DEF setRunFailed, recordJob, running
<1>5. ASSUME NEW st \in Status, NEW s \in Steps, NEW x \in StepPhases
      PROVE  [st EXCEPT !.steps[s] = x] \in Status
  BY DEF StepStatuses
<1>. QED
  BY <1>3, <1>4, <1>5

\* What the writers that set several fields write.
LEMMA RetriedType ==
  ASSUME NEW st \in Status
  PROVE  [st EXCEPT !.attempts = @ + 1, !.phase = "Pending"] \in Status
<1>1. st.attempts + 1 \in Nat
  BY DEF Status
<1>2. "Pending" \in RunPhases
  BY DEF RunPhases
<1>. QED
  BY <1>1, <1>2, Zenon DEF Status

LEMMA PersistedType ==
  ASSUME NEW st \in Status
  PROVE  /\ [st EXCEPT !.recorded = TRUE, !.attempts = 0] \in Status
         /\ [st EXCEPT !.phase = "Failed", !.recorded = TRUE, !.attempts = 0] \in Status
         /\ [setRunFailed(st) EXCEPT !.recorded = TRUE] \in Status
<1>1. 0 \in Nat /\ "Failed" \in RunPhases /\ TRUE \in BOOLEAN
  BY DEF RunPhases
<1>2. [st EXCEPT !.recorded = TRUE, !.attempts = 0] \in Status
  BY <1>1, Zenon DEF Status
<1>3. [st EXCEPT !.phase = "Failed", !.recorded = TRUE, !.attempts = 0] \in Status
  BY <1>1, Zenon DEF Status
<1>4. [setRunFailed(st) EXCEPT !.recorded = TRUE] \in Status
  <2>1. setRunFailed(st) \in Status
    BY StatusTypes
  <2>. QED
    BY <1>1, <2>1, Zenon DEF Status
<1>. QED
  BY <1>2, <1>3, <1>4

\* The types of the run and of its cached copy.
RunTypeOK ==
  /\ run \in Status /\ runCache \in Status
  /\ fresh \in BOOLEAN /\ (fresh => runCache = run)

\* Both ways of writing the status keep its type, and the cached copy that
\* still counts as fresh is the run.
LEMMA StatusWriteType ==
  ASSUME RunTypeOK, NEW st \in Status, StatusUpdate(st) \/ StatusOverwrite(st)
  PROVE  RunTypeOK'
BY DEF RunTypeOK, StatusUpdate, StatusOverwrite

LEMMA InitTypeOK == Init => TypeOK
<1>. SUFFICES ASSUME Init PROVE TypeOK
  OBVIOUS
<1>1. NewStatus \in Status /\ NilCallback \in CallbackState
  BY StatusTypes DEF NilCallback, CallbackState
<1>2. NoCheckpoint \in StepStatuses
  BY DEF NoCheckpoint, AllPending, StepStatuses, StepPhases
<1>3. NoJob \in Job
  BY DEF NoJob, Job, JobConditions, Reasons
<1>. QED
  BY <1>1, <1>2, <1>3, ConstantsAssumption
     DEF Init, TypeOK, Live, Exited, Executing, Reasons, PostStates

---------------------------------------------------------------------------
JobTypeOK ==
  /\ job \in Job /\ jobCache \in Job
  /\ orphan \in [Pods -> BOOLEAN]

\* Deleting the runner Job.
LEMMA DeleteJobType ==
  ASSUME JobTypeOK, DeleteJobBackground
  PROVE  job' \in Job /\ orphan' \in [Pods -> BOOLEAN]
<1>1. NoJob \in Job
  BY DEF NoJob, Job, JobConditions, Reasons
<1>. QED
  BY <1>1 DEF JobTypeOK, DeleteJobBackground

\* What handleFailedJob writes.
LEMMA FailedJobType ==
  ASSUME TypeOK, NEW st \in Status, handleFailedJob(st)
  PROVE  /\ RunTypeOK'
         /\ job' \in Job /\ orphan' \in [Pods -> BOOLEAN]
         /\ ckpt' \in StepStatuses /\ retries' \in Nat
<1>. USE DEF TypeOK
<1>0. RunTypeOK /\ JobTypeOK
  BY DEF RunTypeOK, JobTypeOK
<1>1. CASE retryTransientFailure(st)
  <2>1. [st EXCEPT !.attempts = @ + 1, !.phase = "Pending"] \in Status
    BY RetriedType
  <2>. QED
    BY <1>0, <1>1, <2>1, StatusWriteType, DeleteJobType DEF retryTransientFailure
<1>2. CASE markRunTerminallyFailed(st)
  <2>1. [setRunFailed(st) EXCEPT !.recorded = TRUE] \in Status
    BY PersistedType
  <2>2. NoCheckpoint \in StepStatuses
    BY DEF NoCheckpoint, AllPending, StepStatuses, StepPhases
  <2>. QED
    BY <1>0, <1>2, <2>1, <2>2, StatusWriteType DEF markRunTerminallyFailed
<1>. QED
  BY <1>1, <1>2 DEF handleFailedJob

\* What createRunnerJob writes.
LEMMA CreateJobType ==
  ASSUME TypeOK, NEW st \in Status, createRunnerJob(st)
  PROVE  RunTypeOK' /\ job' \in Job
<1>1. NewJob \in Job
  BY DEF NewJob, NoJob, Job, JobConditions, Reasons
<1>2. RunTypeOK
  BY DEF TypeOK, RunTypeOK
<1>. QED
  BY <1>1, <1>2, StatusTypes, StatusWriteType DEF createRunnerJob, TypeOK

\* The controller process keeps the types.
LEMMA ControllerTypeOK ==
  ASSUME TypeOK,
         \/ SyncRunCache \/ SyncJobCache \/ SetTriggerStatus
         \/ Reconcile \/ CancelRun
  PROVE  TypeOK'
<1>. USE DEF TypeOK, jobVars, podVars, reqVars, tokVars, histVars, runVars
<1>0. RunTypeOK /\ JobTypeOK /\ (RunTypeOK' => run' \in Status /\ runCache' \in Status
        /\ fresh' \in BOOLEAN /\ (fresh' => runCache' = run'))
  BY DEF RunTypeOK, JobTypeOK
<1>1. CASE SyncRunCache
  BY <1>1 DEF SyncRunCache
<1>2. CASE SyncJobCache
  BY <1>2 DEF SyncJobCache
<1>3. CASE ReconcileCreate
  BY <1>0, <1>3, CreateJobType DEF ReconcileCreate
<1>4. CASE ReconcileMonitor
  BY <1>0, <1>4, StatusTypes, StatusWriteType, FailedJobType
     DEF ReconcileMonitor, recordPod
<1>5. CASE ReconcileStuckPod
  <2>1. [setRunFailed(runCache) EXCEPT !.recorded = TRUE] \in Status
    BY PersistedType
  <2>. QED
    BY <1>0, <1>5, <2>1, StatusWriteType, DeleteJobType DEF ReconcileStuckPod
<1>6. CASE ReconcileTimeout
  <2>1. runCache.cb.step \in Steps \cup {0}
    BY DEF Status, CallbackState
  <2>2. [runCache EXCEPT !.steps[runCache.cb.step] = "Failed"] \in Status
    BY <2>1, StatusTypes DEF Status, StepStatuses, StepPhases
  <2>. QED
    BY <1>0, <1>6, <2>2, StatusTypes, StatusWriteType DEF ReconcileTimeout
<1>7. CASE ReconcileReject \/ CancelRun
  BY <1>0, <1>7, StatusTypes, StatusWriteType DEF ReconcileReject, CancelRun
<1>8. CASE ResumeCreate
  BY <1>0, <1>8, StatusTypes, CreateJobType DEF ResumeCreate
<1>9. CASE ResumeDelete
  <2>1. [job EXCEPT !.deleting = TRUE] \in Job
    BY DEF Job
  <2>. QED
    BY <1>9, <2>1 DEF ResumeDelete
<1>10. CASE ResumeFailed
  BY <1>0, <1>10, FailedJobType DEF ResumeFailed
<1>11. CASE ResumeActive
  BY <1>0, <1>11, StatusTypes, StatusWriteType DEF ResumeActive
<1>12. CASE SetTriggerStatus
  <2>1. TriggerStatus \in Status
    BY StatusTypes DEF TriggerStatus, RunPhases
  <2>2. RunTypeOK'
    BY <1>0, <1>12, <2>1, StatusWriteType DEF SetTriggerStatus, RunTypeOK
  <2>. QED
    BY <1>0, <1>12, <2>2 DEF SetTriggerStatus
<1>. QED
  BY <1>1, <1>2, <1>3, <1>4, <1>5, <1>6, <1>7, <1>8, <1>9, <1>10, <1>11, <1>12
     DEF Reconcile

\* The callback server keeps the types.
LEMMA CallbackTypeOK ==
  ASSUME TypeOK, NEW q \in Posts, CallbackAdmit(q) \/ CallbackPatch(q)
  PROVE  TypeOK'
<1>. USE DEF TypeOK, jobVars, podVars, reqVars, tokVars, histVars, runVars
<1>1. CASE CallbackAdmit(q)
  <2>1. runCache.cb \in CallbackState
    BY DEF Status
  <2>. QED
    BY <1>1, <2>1 DEF CallbackAdmit, PostStates
<1>2. CASE CallbackPatch(q)
  <2>1. [post[q].cb EXCEPT !.outputs = q] \in CallbackState
    BY DEF CallbackState
  <2>2. [run EXCEPT !.cb = [post[q].cb EXCEPT !.outputs = q]] \in Status
    BY <2>1, StatusTypes
  <2>3. post' \in [Posts -> [state : PostStates, cb : CallbackState]]
    BY <1>2 DEF CallbackPatch, PostStates
  <2>4. RunTypeOK'
    BY <1>2, <2>2, StatusWriteType DEF CallbackPatch, RunTypeOK
  <2>. QED
    BY <1>2, <2>3, <2>4 DEF CallbackPatch, RunTypeOK
<1>. QED
  BY <1>1, <1>2

\* What a runner does to its copy of the status.
LEMMA MemPhase ==
  ASSUME NEW m \in [Pods -> Status], NEW p \in Pods, NEW ph \in RunPhases
  PROVE  [m EXCEPT ![p].phase = ph] \in [Pods -> Status]
BY StatusTypes, Zenon

LEMMA MemSteps ==
  ASSUME NEW m \in [Pods -> Status], NEW p \in Pods, NEW f \in StepStatuses
  PROVE  [m EXCEPT ![p].steps = f] \in [Pods -> Status]
BY StatusTypes, Zenon

LEMMA MemStep ==
  ASSUME NEW m \in [Pods -> Status], NEW p \in Pods, NEW s \in Steps, NEW x \in StepPhases
  PROVE  [m EXCEPT ![p].steps[s] = x] \in [Pods -> Status]
BY StatusTypes, Zenon

LEMMA MemCallback ==
  ASSUME NEW m \in [Pods -> Status], NEW p \in Pods, NEW c \in CallbackState
  PROVE  [m EXCEPT ![p].cb = c] \in [Pods -> Status]
BY StatusTypes, Zenon

\* A pod moves to another place.
LEMMA GotoType ==
  ASSUME TypeOK, NEW p \in Pods, NEW to \in {"None"} \cup Live \cup Exited
  PROVE  [pc EXCEPT ![p] = to] \in [Pods -> {"None"} \cup Live \cup Exited]
BY DEF TypeOK

\* The runner up to the loop, and its last writes.
LEMMA RunnerEndsTypeOK ==
  ASSUME TypeOK, NEW p \in Pods,
         \/ Load(p) \/ LoadFails(p) \/ PersistRunning(p)
         \/ Restore(p) \/ InitFails(p)
         \/ Pause(p) \/ Cleanup(p) \/ PersistFinal(p)
  PROVE  TypeOK'
<1>. USE DEF TypeOK, jobVars, podVars, reqVars, tokVars, histVars, runVars
<1>0. /\ pc' \in [Pods -> {"None"} \cup Live \cup Exited]
      /\ RunTypeOK /\ mem[p] \in Status
  BY GotoType DEF Load, LoadFails, PersistRunning, Restore, InitFails, Pause,
       Cleanup, PersistFinal, Goto, Live, Executing, Exited, RunTypeOK
<1>1. CASE Load(p)
  BY <1>0, <1>1 DEF Load
<1>2. CASE LoadFails(p)
  <2>1. RunTypeOK'
    BY <1>0, <1>2, PersistedType, StatusWriteType DEF LoadFails
  <2>. QED
    BY <1>0, <1>2, <2>1 DEF LoadFails, RunTypeOK
<1>3. CASE PersistRunning(p)
  <2>1. RunTypeOK' /\ mem' \in [Pods -> Status]
    BY <1>0, <1>3, PersistedType, StatusWriteType DEF PersistRunning
  <2>. QED
    BY <1>0, <1>3, <2>1 DEF PersistRunning, RunTypeOK
<1>4. CASE Restore(p)
  <2>. PICK f \in StepStatuses, ph \in RunPhases :
          mem' = [mem EXCEPT ![p].steps = f, ![p].phase = ph]
    BY <1>0, <1>4 DEF Restore, Status, RunPhases
  <2>1. [mem EXCEPT ![p].steps = f] \in [Pods -> Status]
    BY MemSteps
  <2>2. mem' \in [Pods -> Status]
    BY <2>1, MemPhase, Zenon
  <2>. QED
    BY <1>0, <1>4, <2>2 DEF Restore
<1>5. CASE InitFails(p)
  <2>1. mem[p].phase \in RunPhases /\ "Failed" \in RunPhases
    BY <1>0 DEF Status, RunPhases
  <2>2. mem' \in [Pods -> Status]
    <3>. PICK ph \in {mem[p].phase, "Failed"} : mem' = [mem EXCEPT ![p].phase = ph]
      BY <1>5 DEF InitFails
    <3>. QED
      BY <2>1, MemPhase
  <2>. QED
    BY <1>0, <1>5, <2>2 DEF InitFails
<1>6. CASE Pause(p)
  BY <1>0, <1>6 DEF Pause
<1>7. CASE Cleanup(p)
  <2>1. ckpt' \in StepStatuses
    BY <1>7 DEF Cleanup, NoCheckpoint, AllPending, StepStatuses, StepPhases
  <2>. QED
    BY <1>0, <1>7, <2>1 DEF Cleanup
<1>8. CASE PersistFinal(p)
  <2>1. RunTypeOK'
    BY <1>0, <1>8, StatusWriteType DEF PersistFinal
  <2>. QED
    BY <1>0, <1>8, <2>1 DEF PersistFinal, RunTypeOK
<1>. QED
  BY <1>1, <1>2, <1>3, <1>4, <1>5, <1>6, <1>7, <1>8

\* The runner in the step loop.
LEMMA RunnerLoopTypeOK ==
  ASSUME TypeOK, NEW p \in Pods, NEW s \in Steps,
         \/ AllDone(p) \/ NothingExecuted(p)
         \/ StartStep(p, s) \/ CompleteStep(p, s) \/ FailStep(p, s)
         \/ GateConsume(p, s) \/ GateTimeout(p, s)
         \/ GateRepause(p, s) \/ GateArm(p, s)
  PROVE  TypeOK'
<1>. USE DEF TypeOK, jobVars, podVars, reqVars, tokVars, histVars, runVars
<1>0. RunTypeOK /\ (RunTypeOK' => run' \in Status /\ runCache' \in Status
        /\ fresh' \in BOOLEAN /\ (fresh' => runCache' = run'))
  BY DEF RunTypeOK
<1>a. /\ {"Running", "Succeeded", "Failed", "Waiting"} \subseteq StepPhases
      /\ {"Succeeded", "Failed"} \subseteq RunPhases
      /\ NilCallback \in CallbackState
  BY DEF StepPhases, RunPhases, NilCallback, CallbackState
<1>b. {"Loop", "InStep", "GateDone", "Pause", "CleanupOk", "CleanupErr"} \subseteq Live
  BY DEF Live, Executing
<1>c. ASSUME clearPendingCallback PROVE RunTypeOK'
  <2>1. [run EXCEPT !.cb = NilCallback] \in Status
    BY <1>a, StatusTypes
  <2>. QED
    BY <1>0, <1>c, <2>1, StatusWriteType DEF clearPendingCallback
<1>1. CASE AllDone(p)
  <2>1. mem' \in [Pods -> Status] /\ pc' \in [Pods -> {"None"} \cup Live \cup Exited]
    BY <1>1, <1>a, <1>b, MemPhase DEF AllDone, Goto
  <2>. QED
    BY <1>1, <2>1 DEF AllDone
<1>2. CASE NothingExecuted(p)
  BY <1>2, <1>b DEF NothingExecuted, Goto
<1>3. CASE StartStep(p, s)
  <2>1. mem' \in [Pods -> Status] /\ pc' \in [Pods -> {"None"} \cup Live \cup Exited]
    BY <1>3, <1>a, <1>b, MemStep DEF StartStep, Goto
  <2>. QED
    BY <1>3, <2>1 DEF StartStep
<1>4. CASE CompleteStep(p, s)
  <2>1. mem' \in [Pods -> Status] /\ pc' \in [Pods -> {"None"} \cup Live \cup Exited]
    BY <1>4, <1>a, <1>b, MemStep DEF CompleteStep
  <2>2. mem'[p].steps \in StepStatuses
    BY <2>1 DEF Status
  <2>3. saving' \in [Pods -> SUBSET StepStatuses]
    BY <1>4, <2>2 DEF CompleteStep
  <2>. QED
    BY <1>4, <2>1, <2>3 DEF CompleteStep
<1>5. CASE FailStep(p, s)
  <2>1. mem' \in [Pods -> Status] /\ pc' \in [Pods -> {"None"} \cup Live \cup Exited]
    BY <1>5, <1>a, <1>b, MemStep, MemPhase DEF FailStep, Goto
  <2>. QED
    BY <1>5, <2>1 DEF FailStep
<1>6. CASE GateConsume(p, s)
  <2>1. mem' \in [Pods -> Status] /\ pc' \in [Pods -> {"None"} \cup Live \cup Exited]
    BY <1>6, <1>a, <1>b, MemCallback, MemStep DEF GateConsume
  <2>. QED
    BY <1>0, <1>c, <1>6, <2>1 DEF GateConsume
<1>7. CASE GateTimeout(p, s)
  <2>1. mem' \in [Pods -> Status] /\ pc' \in [Pods -> {"None"} \cup Live \cup Exited]
    <3>1. [mem EXCEPT ![p].cb = NilCallback] \in [Pods -> Status]
      BY <1>a, MemCallback
    <3>2. \A x \in StepPhases :
            [mem EXCEPT ![p].cb = NilCallback, ![p].steps[s] = x] \in [Pods -> Status]
      BY <3>1, MemStep, Zenon
    <3>3. [mem EXCEPT ![p].cb = NilCallback, ![p].steps[s] = "Failed",
                      ![p].phase = "Failed"] \in [Pods -> Status]
      BY <1>a, <3>2, MemPhase, Zenon
    <3>4. CASE s \in ContinueGates
      <4>1. mem' = [mem EXCEPT ![p].cb = NilCallback, ![p].steps[s] = "Running"]
        BY <1>7, <3>4, Zenon DEF GateTimeout
      <4>2. pc' = [pc EXCEPT ![p] = "GateDone"]
        BY <1>7, <3>4, Zenon DEF GateTimeout
      <4>. QED
        BY <1>a, <1>b, <3>2, <4>1, <4>2, Zenon
    <3>5. CASE s \notin ContinueGates
      BY <1>7, <1>a, <1>b, <3>3, <3>5, Zenon DEF GateTimeout
    <3>. QED
      BY <3>4, <3>5
  <2>. QED
    BY <1>0, <1>c, <1>7, <2>1 DEF GateTimeout
<1>8. CASE GateRepause(p, s)
  <2>1. mem' \in [Pods -> Status] /\ pc' \in [Pods -> {"None"} \cup Live \cup Exited]
    BY <1>8, <1>a, <1>b, MemStep DEF GateRepause
  <2>. QED
    BY <1>8, <2>1 DEF GateRepause
<1>9. CASE GateArm(p, s)
  <2>. DEFINE cb == [tok |-> minted + 1, step |-> s, outputs |-> NoPost]
  <2>1. cb \in CallbackState
    BY DEF CallbackState
  <2>2. [run EXCEPT !.cb = cb] \in Status
    BY <2>1, StatusTypes
  <2>3. RunTypeOK'
    BY <1>0, <1>9, <2>2, StatusWriteType DEF GateArm
  <2>4. mem' \in [Pods -> Status] /\ pc' \in [Pods -> {"None"} \cup Live \cup Exited]
    BY <1>9, <1>a, <1>b, <2>1, MemCallback, MemStep DEF GateArm
  <2>. QED
    BY <1>0, <1>9, <2>3, <2>4 DEF GateArm
<1>. QED
  BY <1>1, <1>2, <1>3, <1>4, <1>5, <1>6, <1>7, <1>8, <1>9

\* A Job with one more failed pod is a Job.
LEMMA JobCounts ==
  ASSUME NEW j \in Job
  PROVE  /\ \A c \in JobConditions, r \in Reasons :
              [j EXCEPT !.failed = @ + 1, !.cond = c, !.reason = r] \in Job
         /\ [j EXCEPT !.cond = "Failed", !.failed = @ + 1,
                      !.reason = "DeadlineExceeded"] \in Job
<1>1. j.failed + 1 \in Nat
  BY DEF Job
<1>2. "Failed" \in JobConditions /\ "DeadlineExceeded" \in Reasons
  BY DEF JobConditions, Reasons
<1>. QED
  BY <1>1, <1>2, Zenon DEF Job

\* Kubernetes keeps the types.
LEMMA KubernetesTypeOK ==
  ASSUME TypeOK, NEW p \in Pods,
         \/ SaveCheckpoint(p) \/ SaveFails(p) \/ StartContainer(p) \/ Crash(p)
         \/ DeadlineExceeded(p) \/ CreatePod(p) \/ CountPod(p)
         \/ CollectOrphan(p)
  PROVE  TypeOK'
<1>. USE DEF TypeOK, jobVars, podVars, reqVars, tokVars, histVars, runVars
<1>0. NoJob \in Job /\ NewStatus \in Status
  BY StatusTypes DEF NoJob, Job, JobConditions, Reasons
<1>1. CASE SaveCheckpoint(p)
  BY <1>1 DEF SaveCheckpoint
<1>2. CASE StartContainer(p)
  BY <1>2 DEF StartContainer, Goto, Live, Executing
<1>3. CASE Crash(p)
  <2>1. /\ pc' \in [Pods -> {"None"} \cup Live \cup Exited]
        /\ reason' \in [Pods -> Reasons]
    BY <1>3 DEF Crash, Exited, Reasons
  <2>2. mem' \in [Pods -> Status] /\ saving' \in [Pods -> SUBSET StepStatuses]
    BY <1>0, <1>3 DEF Crash
  <2>. QED
    BY <1>3, <2>1, <2>2 DEF Crash
<1>4. CASE DeadlineExceeded(p)
  <2>1. job' \in Job
    BY <1>4, JobCounts, Zenon DEF DeadlineExceeded
  <2>. QED
    BY <1>0, <1>4, <2>1 DEF DeadlineExceeded
<1>5. CASE CreatePod(p)
  BY <1>5 DEF CreatePod, Live
<1>6. CASE CountPod(p)
  <2>1. job' \in Job
    <3>1. CASE orphan[p]
      BY <1>6, <3>1 DEF CountPod
    <3>2. CASE ~orphan[p] /\ pc[p] = "Exit0"
      BY <1>6, <3>2 DEF CountPod, Job, JobConditions
    <3>3. CASE ~orphan[p] /\ pc[p] # "Exit0"
      <4>. DEFINE c == IF job.failed + 1 > BackoffLimit THEN "Failed" ELSE job.cond
                  r == IF pc[p] = "Exit1" THEN "Error" ELSE reason[p]
      <4>1. c \in JobConditions /\ r \in Reasons
        BY DEF Job, JobConditions, Reasons
      <4>2. job' = [job EXCEPT !.failed = @ + 1, !.cond = c, !.reason = r]
        BY <1>6, <3>3, Zenon DEF CountPod
      <4>. QED
        BY <4>1, <4>2, JobCounts, Zenon
    <3>. QED
      BY <3>1, <3>2, <3>3
  <2>. QED
    BY <1>0, <1>6, <2>1 DEF CountPod, Reasons
<1>7. CASE CollectOrphan(p)
  BY <1>0, <1>7 DEF CollectOrphan
<1>8. CASE SaveFails(p)
  BY <1>8 DEF SaveFails
<1>. QED
  BY <1>1, <1>2, <1>3, <1>4, <1>5, <1>6, <1>7, <1>8

LEMMA JobEndTypeOK ==
  ASSUME TypeOK, FinishDelete \/ JobTTL
  PROVE  TypeOK'
<1>1. NoJob \in Job
  BY DEF NoJob, Job, JobConditions, Reasons
<1>. USE DEF TypeOK, jobVars, podVars, reqVars, tokVars, histVars, runVars
<1>2. CASE FinishDelete
  BY <1>1, <1>2 DEF FinishDelete
<1>3. CASE JobTTL
  BY <1>1, <1>3 DEF JobTTL
<1>. QED
  BY <1>2, <1>3

LEMMA StepTypeOK == TypeOK /\ [Next]_vars => TypeOK'
<1>. SUFFICES ASSUME TypeOK, [Next]_vars PROVE TypeOK'
  OBVIOUS
<1>1. ASSUME NEW t \in 1..minted, ExpireToken(t) PROVE TypeOK'
  BY <1>1 DEF ExpireToken, TypeOK, jobVars, podVars, reqVars, histVars, runVars
<1>2. CASE UNCHANGED vars
  BY <1>2 DEF vars, TypeOK, jobVars, podVars, reqVars, tokVars, histVars, runVars
<1>3. Steps # {}
  BY ConstantsAssumption DEF Steps
<1>4. ASSUME NEW p \in Pods, RunnerStep(p) PROVE TypeOK'
  BY <1>3, <1>4, RunnerEndsTypeOK, RunnerLoopTypeOK DEF RunnerStep
<1>5. ASSUME NEW p \in Pods,
             \/ SaveCheckpoint(p) \/ SaveFails(p) \/ KubernetesStep(p) \/ StartContainer(p)
             \/ Crash(p) \/ DeadlineExceeded(p)
      PROVE  TypeOK'
  BY <1>5, KubernetesTypeOK DEF KubernetesStep
<1>6. CASE FinishDelete \/ JobTTL
  BY <1>6, JobEndTypeOK
<1>. QED
  BY <1>1, <1>2, <1>4, <1>5, <1>6, ControllerTypeOK, CallbackTypeOK
     DEF Next, Rest

\* Every variable keeps its type, and a cached run that counts as fresh is
\* the run: the optimistic lock of Status().Update compares what it should.
THEOREM RunLifecycleTypeOK == Spec => []TypeOK
BY InitTypeOK, StepTypeOK, PTL DEF Spec

---------------------------------------------------------------------------
(***************************************************************************)
(* Who can change a terminal phase.  A conditional write goes through only *)
(* when the cached run is the run, and then the guard of its writer, that  *)
(* the cached phase is not terminal, holds of the run itself.              *)
(***************************************************************************)

\* A write that is rejected when the cached run is not the run.
LEMMA UpdateKeepsTerminal ==
  ASSUME TypeOK, NEW st, StatusUpdate(st) \/ recordPod(st),
         ~IsTerminal(runCache.phase)
  PROVE  ~RewritesTerminal
BY DEF TypeOK, StatusUpdate, recordPod, StatusOverwrite, RewritesTerminal

\* Patches of the pending callback leave the phase alone.
LEMMA PatchKeepsPhase ==
  ASSUME TypeOK, NEW c, StatusOverwrite([run EXCEPT !.cb = c])
  PROVE  ~RewritesTerminal
BY DEF TypeOK, Status, StatusOverwrite, RewritesTerminal

\* The reconciler and the scheduler write conditionally or not at all.
LEMMA ControllerWrites ==
  ASSUME Reconcile \/ CancelRun
  PROVE  /\ ~IsTerminal(runCache.phase)
         /\ run' = run \/ \E st : StatusUpdate(st) \/ recordPod(st)
<1>. USE DEF runVars
<1>1. ASSUME NEW st, handleFailedJob(st) PROVE \E w : StatusUpdate(w)
  BY <1>1 DEF handleFailedJob, retryTransientFailure, markRunTerminallyFailed
<1>2. ASSUME NEW st, createRunnerJob(st) PROVE \E w : StatusUpdate(w)
  BY <1>2 DEF createRunnerJob
<1>3. CASE ReconcileCreate \/ ResumeCreate
  BY <1>2, <1>3 DEF ReconcileCreate, ResumeCreate, reconciles
<1>4. CASE ReconcileMonitor
  BY <1>1, <1>4 DEF ReconcileMonitor, reconciles
<1>5. CASE ResumeFailed
  BY <1>1, <1>5 DEF ResumeFailed, reconciles
<1>6. CASE ReconcileStuckPod
  BY <1>6 DEF ReconcileStuckPod, reconciles
<1>7. CASE ReconcileTimeout
  BY <1>7 DEF ReconcileTimeout, reconciles
<1>8. CASE ReconcileReject \/ ResumeActive
  BY <1>8 DEF ReconcileReject, ResumeActive, reconciles
<1>9. CASE ResumeDelete
  BY <1>9 DEF ResumeDelete, reconciles
<1>10. CASE CancelRun
  BY <1>10 DEF CancelRun, IsActive, IsTerminal
<1>. QED
  BY <1>3, <1>4, <1>5, <1>6, <1>7, <1>8, <1>9, <1>10 DEF Reconcile

\* What a runner writes: its own copy, a patch of the callback, or nothing.
LEMMA RunnerWrites ==
  ASSUME TypeOK, NEW p \in Pods, RunnerStep(p)
  PROVE  RewritesTerminal => WritesOwnCopy
<1>. USE DEF runVars
<1>1. CASE LoadFails(p) \/ PersistRunning(p) \/ PersistFinal(p)
  BY <1>1 DEF LoadFails, PersistRunning, PersistFinal, Goto, WritesOwnCopy,
       TypeOK
<1>2. ASSUME NEW s \in Steps,
             GateConsume(p, s) \/ GateTimeout(p, s) \/ GateArm(p, s)
      PROVE  ~RewritesTerminal
  BY <1>2, PatchKeepsPhase
     DEF GateConsume, GateTimeout, GateArm, clearPendingCallback
<1>3. ASSUME NEW s \in Steps,
             \/ StartStep(p, s) \/ CompleteStep(p, s) \/ FailStep(p, s)
             \/ GateRepause(p, s)
      PROVE  run' = run
  BY <1>3 DEF StartStep, CompleteStep, FailStep, GateRepause
<1>4. CASE \/ Load(p) \/ Restore(p) \/ InitFails(p) \/ AllDone(p)
           \/ NothingExecuted(p) \/ Pause(p) \/ Cleanup(p)
  BY <1>4 DEF Load, Restore, InitFails, AllDone, NothingExecuted, Pause, Cleanup,
       RewritesTerminal
<1>. QED
  BY <1>1, <1>2, <1>3, <1>4 DEF RunnerStep, RewritesTerminal

LEMMA StepKeepsTerminal ==
  TypeOK /\ [Next]_vars => (RewritesTerminal => WritesOwnCopy)
<1>. SUFFICES ASSUME TypeOK, [Next]_vars
              PROVE  RewritesTerminal => WritesOwnCopy
  OBVIOUS
<1>1. CASE Reconcile \/ CancelRun
  BY <1>1, ControllerWrites, UpdateKeepsTerminal DEF RewritesTerminal
<1>2. ASSUME NEW q \in Posts, CallbackAdmit(q) \/ CallbackPatch(q)
      PROVE  ~RewritesTerminal
  BY <1>2, PatchKeepsPhase
     DEF CallbackAdmit, CallbackPatch, runVars, RewritesTerminal
<1>3. ASSUME NEW p \in Pods,
             \/ SaveCheckpoint(p) \/ SaveFails(p) \/ KubernetesStep(p) \/ StartContainer(p)
             \/ Crash(p) \/ DeadlineExceeded(p)
      PROVE  run' = run
  BY <1>3 DEF SaveCheckpoint, SaveFails, KubernetesStep, StartContainer, Crash,
       DeadlineExceeded, CreatePod, CountPod, CollectOrphan, runVars
<1>4. CASE SyncRunCache \/ SyncJobCache \/ FinishDelete \/ JobTTL
  BY <1>4 DEF SyncRunCache, SyncJobCache, FinishDelete, JobTTL, runVars,
       RewritesTerminal
<1>5. ASSUME NEW t, ExpireToken(t) PROVE run' = run
  BY <1>5 DEF ExpireToken, runVars
<1>6. CASE UNCHANGED vars
  BY <1>6 DEF vars, runVars, RewritesTerminal
<1>7. CASE SetTriggerStatus
  BY <1>7 DEF SetTriggerStatus, WritesOwnCopy
<1>. QED
  BY <1>1, <1>2, <1>3, <1>4, <1>5, <1>6, <1>7, RunnerWrites
     DEF Next, Rest, RewritesTerminal

\* However stale the informer caches are, only a runner pod that persists its
\* own copy, or the trigger that sets the first status, changes a terminal
\* phase: the reconciler, a cancellation and the callback server never do.
THEOREM TerminalSafeFromControllers == Spec => OnlyOwnCopiesRewriteTerminal
BY StepKeepsTerminal, RunLifecycleTypeOK, PTL DEF Spec, OnlyOwnCopiesRewriteTerminal

---------------------------------------------------------------------------
\* One runner at a time.

\* The absent Job has neither failed nor pods to run.
LEMMA NoJobFields == NoJob.cond = "Absent" /\ NoJob.failed = 0
BY DEF NoJob

\* The Job, its cached copy and the pods stay as they are.
LEMMA SupervisedKept ==
  ASSUME Supervised, UNCHANGED <<job, jobCache, orphan, pc>>
  PROVE  Supervised'
BY DEF Supervised, NoOrphans, OnePod, PodsHaveActiveJob, FailedAtOnce,
     SeenFailureIsReal, FailureSeen

\* A pod that runs goes on, or ends; the Job does not notice yet.
LEMMA SupervisedPodMoves ==
  ASSUME TypeOK, Supervised, NEW p \in Pods, NEW to, pc[p] # "None",
         pc' = [pc EXCEPT ![p] = to], UNCHANGED <<job, jobCache, orphan>>
  PROVE  Supervised'
BY DEF TypeOK, Supervised, NoOrphans, OnePod, PodsHaveActiveJob, FailedAtOnce,
     SeenFailureIsReal, FailureSeen

\* A failed Job is retried: nothing is left that the deletion could orphan.
LEMMA SupervisedDelete ==
  ASSUME TypeOK, Supervised, job = NoJob \/ job.cond = "Failed",
         DeleteJobBackground, UNCHANGED <<jobCache, pc>>
  PROVE  Supervised'
<1>1. job.cond # "Active"
  BY NoJobFields
<1>2. \A p \in Pods : pc[p] = "None"
  BY <1>1 DEF Supervised, PodsHaveActiveJob
<1>3. job' = NoJob /\ \A p \in Pods : ~orphan'[p]
  BY <1>2 DEF DeleteJobBackground, Supervised, NoOrphans, TypeOK
<1>4. ~(NoJob.failed > 0)
  BY NoJobFields
<1>. QED
  BY <1>2, <1>3, <1>4
     DEF Supervised, NoOrphans, OnePod, PodsHaveActiveJob, FailedAtOnce,
         SeenFailureIsReal

LEMMA SupervisedFailedJob ==
  ASSUME TypeOK, Supervised, FailureSeen, NEW st, handleFailedJob(st),
         UNCHANGED <<jobCache, pc>>
  PROVE  Supervised'
<1>1. job = NoJob \/ job.cond = "Failed"
  BY DEF Supervised, SeenFailureIsReal
<1>2. CASE retryTransientFailure(st)
  BY <1>1, <1>2, SupervisedDelete DEF retryTransientFailure
<1>3. CASE markRunTerminallyFailed(st)
  BY <1>3, SupervisedKept DEF markRunTerminallyFailed
<1>. QED
  BY <1>2, <1>3 DEF handleFailedJob

\* A Job is created when the cache shows none.
LEMMA SupervisedCreate ==
  ASSUME TypeOK, Supervised, jobCache = NoJob, NEW st, createRunnerJob(st),
         UNCHANGED <<jobCache, pc, orphan>>
  PROVE  Supervised'
<1>1. ~FailureSeen'
  BY NoJobFields DEF FailureSeen
<1>2. NewJob.cond = "Active" /\ NewJob.failed = 0
  BY DEF NewJob, NoJob
<1>3. job' = job \/ job' = NewJob
  BY DEF createRunnerJob
<1>. QED
  BY <1>1, <1>2, <1>3
     DEF Supervised, NoOrphans, OnePod, PodsHaveActiveJob, FailedAtOnce,
         SeenFailureIsReal

LEMMA SupervisedController ==
  ASSUME TypeOK, Supervised, ~PodsMayStick,
         \/ SyncRunCache \/ SyncJobCache \/ SetTriggerStatus
         \/ Reconcile \/ CancelRun
  PROVE  Supervised'
<1>. USE DEF jobVars, podVars
<1>1. CASE SyncRunCache \/ SetTriggerStatus \/ CancelRun
  BY <1>1, SupervisedKept DEF SyncRunCache, SetTriggerStatus, CancelRun
<1>2. CASE SyncJobCache
  BY <1>2 DEF SyncJobCache, Supervised, NoOrphans, OnePod, PodsHaveActiveJob,
       FailedAtOnce, SeenFailureIsReal, FailureSeen
<1>3. CASE ReconcileCreate
  BY <1>3, SupervisedCreate DEF ReconcileCreate
<1>4. CASE ResumeCreate
  BY <1>4, SupervisedCreate DEF ResumeCreate
<1>5. CASE ReconcileMonitor
  <2>1. CASE jobCache.failed > 0 /\ (fresh \/ runCache.recorded)
    BY <1>5, <2>1, SupervisedFailedJob DEF ReconcileMonitor, FailureSeen
  <2>2. CASE ~(jobCache.failed > 0 /\ (fresh \/ runCache.recorded))
    BY <1>5, <2>2, SupervisedKept DEF ReconcileMonitor
  <2>. QED
    BY <2>1, <2>2
<1>6. CASE ResumeFailed
  BY <1>6, SupervisedFailedJob DEF ResumeFailed, FailureSeen
<1>7. CASE ReconcileTimeout \/ ReconcileReject \/ ResumeActive
  BY <1>7, SupervisedKept DEF ReconcileTimeout, ReconcileReject, ResumeActive
<1>8. CASE ResumeDelete
  <2>1. job # NoJob /\ job'.cond = job.cond /\ job'.failed = job.failed
    BY <1>8 DEF ResumeDelete, TypeOK, Job
  <2>. QED
    BY <1>8, <2>1
       DEF ResumeDelete, Supervised, NoOrphans, OnePod, PodsHaveActiveJob,
           FailedAtOnce, SeenFailureIsReal, FailureSeen
<1>. QED
  BY <1>1, <1>2, <1>3, <1>4, <1>5, <1>6, <1>7, <1>8
     DEF Reconcile, ReconcileStuckPod

LEMMA SupervisedRunner ==
  ASSUME TypeOK, Supervised, NEW p \in Pods, RunnerStep(p)
  PROVE  Supervised'
<1>1. pc[p] # "None" /\ \E to : pc' = [pc EXCEPT ![p] = to]
  BY DEF RunnerStep, Load, LoadFails, PersistRunning, Restore, InitFails,
       AllDone, NothingExecuted, StartStep, CompleteStep, FailStep, GateConsume,
       GateTimeout, GateRepause, GateArm, AtGate, Pause, Cleanup, PersistFinal, Goto
<1>2. UNCHANGED <<job, jobCache, orphan>>
  BY DEF RunnerStep, Load, LoadFails, PersistRunning, Restore, InitFails,
       AllDone, NothingExecuted, StartStep, CompleteStep, FailStep, GateConsume,
       GateTimeout, GateRepause, GateArm, Pause, Cleanup, PersistFinal, jobVars
<1>. QED
  BY <1>1, <1>2, SupervisedPodMoves

\* The Job controller, the kubelet and the garbage collector.
LEMMA SupervisedKubernetes ==
  ASSUME TypeOK, Supervised, BackoffLimit = 0, NEW p \in Pods,
         \/ SaveCheckpoint(p) \/ SaveFails(p) \/ KubernetesStep(p) \/ StartContainer(p)
         \/ Crash(p) \/ DeadlineExceeded(p)
  PROVE  Supervised'
<1>. USE DEF jobVars, podVars
<1>1. CASE SaveCheckpoint(p) \/ SaveFails(p)
  BY <1>1, SupervisedKept DEF SaveCheckpoint, SaveFails
<1>2. CASE StartContainer(p)
  BY <1>2, SupervisedPodMoves DEF StartContainer, Goto
<1>3. CASE Crash(p)
  <2>1. pc[p] # "None"
    BY <1>3 DEF Crash, Executing
  <2>. QED
    BY <1>3, <2>1, SupervisedPodMoves DEF Crash
<1>4. CASE CreatePod(p)
  BY <1>4 DEF CreatePod, TypeOK, Supervised, NoOrphans, OnePod,
       PodsHaveActiveJob, FailedAtOnce, SeenFailureIsReal, FailureSeen
<1>5. CASE DeadlineExceeded(p) \/ CountPod(p)
  <2>1. /\ pc[p] # "None" /\ pc' = [pc EXCEPT ![p] = "None"]
        /\ jobCache' = jobCache
    BY <1>5 DEF DeadlineExceeded, CountPod, Live, Executing, Exited
  <2>2. \A o \in Pods : pc'[o] = "None" /\ ~orphan'[o]
    BY <1>5, <2>1 DEF DeadlineExceeded, CountPod, TypeOK, Supervised, OnePod,
         NoOrphans
  <2>3. job.cond = "Active" /\ ~(job.failed > 0) /\ job # NoJob
    BY <2>1, NoJobFields DEF Supervised, PodsHaveActiveJob, FailedAtOnce
  <2>4. ~FailureSeen
    BY <2>3 DEF Supervised, SeenFailureIsReal
  <2>5. job'.failed > 0 => job'.cond = "Failed"
    <3>1. CASE DeadlineExceeded(p)
      BY <3>1, Zenon DEF DeadlineExceeded, TypeOK, Job
    <3>2. CASE CountPod(p) /\ pc[p] = "Exit0"
      BY <2>3, <3>2 DEF CountPod, Supervised, NoOrphans, TypeOK, Job
    <3>3. CASE CountPod(p) /\ pc[p] # "Exit0"
      <4>1. job.failed + 1 > BackoffLimit
        BY DEF TypeOK, Job
      <4>. QED
        BY <3>3, <4>1, Zenon DEF CountPod, Supervised, NoOrphans, TypeOK, Job
    <3>. QED
      BY <1>5, <3>1, <3>2, <3>3
  <2>. QED
    BY <2>1, <2>2, <2>4, <2>5
       DEF Supervised, NoOrphans, OnePod, PodsHaveActiveJob, FailedAtOnce,
           SeenFailureIsReal, FailureSeen
<1>6. CASE CollectOrphan(p)
  BY <1>6 DEF CollectOrphan, Supervised, NoOrphans
<1>. QED
  BY <1>1, <1>2, <1>3, <1>4, <1>5, <1>6 DEF KubernetesStep

\* A finished Job is removed once no pod of it is left.
LEMMA SupervisedJobEnds ==
  ASSUME TypeOK, Supervised, FinishDelete \/ JobTTL
  PROVE  Supervised'
<1>1. job' = NoJob /\ UNCHANGED <<jobCache, orphan, pc>>
  BY DEF FinishDelete, JobTTL, podVars
<1>2. \A p \in Pods : pc[p] = "None"
  BY DEF FinishDelete, JobTTL, Supervised, NoOrphans, PodsHaveActiveJob
<1>3. ~(NoJob.failed > 0)
  BY NoJobFields
<1>. QED
  BY <1>1, <1>2, <1>3
     DEF Supervised, NoOrphans, OnePod, PodsHaveActiveJob, FailedAtOnce,
         SeenFailureIsReal

LEMMA SupervisedInit == Init => Supervised
<1>. SUFFICES ASSUME Init PROVE Supervised
  OBVIOUS
<1>1. /\ job = NoJob /\ jobCache = NoJob
      /\ \A p \in Pods : pc[p] = "None" /\ ~orphan[p]
  BY DEF Init
<1>. QED
  BY <1>1, NoJobFields
     DEF Supervised, NoOrphans, OnePod, PodsHaveActiveJob, FailedAtOnce,
         SeenFailureIsReal, FailureSeen

LEMMA SupervisedStep ==
  ASSUME BackoffLimit = 0, ~PodsMayStick, TypeOK, Supervised, [Next]_vars
  PROVE  Supervised'
<1>1. ASSUME NEW q \in Posts, CallbackAdmit(q) \/ CallbackPatch(q)
      PROVE  Supervised'
  BY <1>1, SupervisedKept DEF CallbackAdmit, CallbackPatch, jobVars, podVars
<1>2. ASSUME NEW t, ExpireToken(t) PROVE Supervised'
  BY <1>2, SupervisedKept DEF ExpireToken, jobVars, podVars
<1>3. CASE UNCHANGED vars
  BY <1>3, SupervisedKept DEF vars, jobVars, podVars
<1>. QED
  BY <1>1, <1>2, <1>3, SupervisedController, SupervisedRunner,
     SupervisedKubernetes, SupervisedJobEnds
     DEF Next, Rest

\* Two runner pods never execute a run at the same time, however stale the
\* caches are, if backoffLimit keeps its default of 0 and containers start.
THEOREM OneRunnerAtATime ==
  ASSUME BackoffLimit = 0, ~PodsMayStick
  PROVE  Spec => []OneRunner
<1>1. TypeOK /\ Supervised /\ [Next]_vars => Supervised'
  BY SupervisedStep
<1>2. Supervised => OneRunner
  BY DEF Supervised, OnePod, OneRunner, Executing
<1>. QED
  BY <1>1, <1>2, SupervisedInit, RunLifecycleTypeOK, PTL DEF Spec

---------------------------------------------------------------------------
\* Pausing and resuming.

\* PauseInv while every checkpoint write has landed.
PauseKept == TypeOK /\ Supervised /\ ~creating /\ Kept

\* What the constants of the model are made of.
LEMMA ObjectFields ==
  /\ NilCallback.tok = 0 /\ NilCallback.step = 0 /\ NilCallback.outputs = NoPost
  /\ NoJob.cond = "Absent" /\ ~(NoJob.failed > 0) /\ ~NoJob.deleting
  /\ NewJob.cond = "Active" /\ ~(NewJob.failed > 0) /\ ~NewJob.deleting
  /\ NewStatus.phase = "" /\ NewStatus.cb = NilCallback /\ NewStatus.steps = AllPending
  /\ \A s \in Steps : AllPending[s] = "Pending"
BY DEF NilCallback, NoJob, NewJob, NewStatus, AllPending

LEMMA PauseInit == ASSUME Undisturbed, Init PROVE PauseInv
<1>1. TypeOK /\ Supervised /\ ~creating
  BY InitTypeOK, SupervisedInit DEF Init, Undisturbed
<1>a. job = NoJob /\ jobCache = NoJob /\ \A p \in Pods : pc[p] = "None"
  BY DEF Init
<1>b. minted = 0
  BY DEF Init
<1>c. run.phase = ""
  BY ObjectFields DEF Init
<1>d. ~(NoJob.failed > 0) /\ ~(minted > 0)
  BY <1>b, NoJobFields
<1>2. ~Terminal /\ ~Armed
  BY <1>c, <1>d DEF Terminal, IsTerminal, Armed
<1>3. NoPods /\ NoPast
  BY DEF Init, NoPods, NoPast, Past, InLoop, Ending
<1>4. Snapshots
  BY ObjectFields DEF Init, Snapshots, IsSnapshot, NoCheckpoint
<1>5. Callbacks
  BY ObjectFields DEF Init, Callbacks, Issued
<1>6. Failures /\ Deletions
  BY <1>a, <1>d, ObjectFields DEF Failures, Deletions, FailureSeen
<1>7. StepsSaved
  BY DEF Init, StepsSaved, Covers
<1>8. PhaseTold
  BY <1>2, ObjectFields DEF Init, PhaseTold
<1>9. Held /\ AnswerKept /\ QuestionsSeen
  BY <1>3, ObjectFields DEF Init, Held, AnswerKept, Answer, QuestionsSeen, Current, Unanswered,
     NoPods, Early
<1>10. \A p \in Pods : Starting(p) /\ Looping(p)
  BY <1>3 DEF Starting, Looping, NoPods, Early, InLoop, Ending
<1>. QED
  BY <1>1, <1>2, <1>4, <1>5, <1>6, <1>7, <1>8, <1>9, <1>10
     DEF PauseInv, Kept, OpenRun

\* The reconciler writes an open run back: it changes the phase at most, to
\* Running for a run to resume.
Rewritten ==
  /\ ~Terminal /\ run'.cb = run.cb /\ run'.steps = run.steps
  /\ ~IsTerminal(run'.phase)
  /\ run.phase = "Running" => run'.phase = "Running"
  /\ run'.phase = "Running" => run.phase = "Running" \/ (runCache = run /\ resumable)

\* It may create the Job, when its cache shows none.
JobCreated ==
  /\ job = NoJob /\ job' = NewJob /\ jobCache = NoJob
  /\ ~IsTerminal(runCache.phase) /\ ~Unanswered(runCache.cb)
  /\ ~Terminal /\ Armed => run'.phase = "Running"

LEMMA RewriteKeeps ==
  ASSUME PauseKept, run' = run \/ Rewritten, job' = job \/ JobCreated,
         UNCHANGED <<runCache, jobCache, ckpt, pc, mem, saving, post, minted, everDone>>
  PROVE  Kept'
<1>0. TypeOK /\ Supervised
  BY DEF PauseKept
<1>1. Terminal' <=> Terminal
  BY DEF Rewritten, Terminal
<1>2. run'.cb = run.cb /\ (Terminal => run' = run) /\ run'.steps = run.steps
  BY DEF Rewritten
<1>a. Snapshots /\ Callbacks /\ Failures /\ Deletions
  BY DEF PauseKept, Kept
<1>3. Snapshots'
  BY <1>a DEF Snapshots, IsSnapshot
<1>4. Callbacks'
  BY <1>a, <1>2 DEF Callbacks, Issued, AcceptedFor
<1>5. Failures' /\ Deletions'
  BY <1>a, <1>1, ObjectFields DEF Failures, Deletions, FailureSeen, JobCreated
<1>6. ASSUME ~Terminal PROVE OpenRun'
  <2>. USE <1>6
  <2>0. OpenRun
    BY DEF PauseKept, Kept
  <2>1. StepsSaved'
    BY <2>0 DEF OpenRun, StepsSaved, Covers
  <2>2. Held'
    <3>1. Unanswered(run.cb) => run'.phase # "Running"
      BY <2>0 DEF OpenRun, Held, Rewritten, resumable, pendingCallback, outputsDelivered,
         continuesOnTimeout, Unanswered
    <3>. QED
      BY <1>2, <2>0, <3>1 DEF OpenRun, Held, Unanswered
  <2>3. AnswerKept'
    BY <1>2, <2>0 DEF OpenRun, AnswerKept, Answer, Sole
  <2>4. QuestionsSeen'
    BY <1>2, <2>0 DEF OpenRun, QuestionsSeen, Current, Unanswered, AcceptedFor
  <2>5. PhaseTold'
    <3>. USE DEF OpenRun, PhaseTold, Armed
    <3>1. run'.phase = "Running" => minted > 0
      <4>1. CASE runCache = run /\ resumable
        BY <1>a, <4>1 DEF Callbacks, Issued, resumable, pendingCallback, TypeOK, PauseKept
      <4>. QED
        BY <2>0, <4>1 DEF Rewritten
    <3>2. NoPast' <=> NoPast
      BY DEF NoPast
    <3>3. NoPods' <=> NoPods
      BY DEF NoPods
    <3>4. run.phase = "Running" => run'.phase = "Running"
      BY DEF Rewritten
    <3>5. CASE job' = job
      BY <1>2, <2>0, <3>1, <3>2, <3>3, <3>4, <3>5
    <3>6. CASE JobCreated
      BY <1>2, <2>0, <3>1, <3>2, <3>3, <3>4, <3>6, ObjectFields DEF JobCreated
    <3>. QED
      BY <3>5, <3>6
  <2>6. \A p \in Pods : Starting(p)'
    BY <2>0 DEF OpenRun, Starting, Unanswered, Armed, Rewritten
  <2>7. \A p \in Pods : Looping(p)'
    BY <1>2, <2>0 DEF OpenRun, Looping, Armed, Final
  <2>. QED
    BY <2>1, <2>2, <2>3, <2>4, <2>5, <2>6, <2>7 DEF OpenRun
<1>7. ASSUME Terminal PROVE ClosedRun'
  <2>0. ClosedRun /\ run' = run
    BY <1>2, <1>7 DEF PauseKept, Kept
  <2>1. CASE JobCreated
    BY <2>0, <2>1 DEF ClosedRun, TimedOut, JobCreated, Final
  <2>2. CASE job' = job
    BY <2>0, <2>2 DEF ClosedRun, TimedOut, Unanswered, NoPods, Final
  <2>. QED
    BY <2>1, <2>2
<1>. QED
  BY <1>1, <1>3, <1>4, <1>5, <1>6, <1>7 DEF Kept

\* What the reconciler writes into a status it read.
LEMMA WrittenFields ==
  ASSUME NEW st \in Status
  PROVE  /\ recordJob(st).cb = st.cb /\ recordJob(st).steps = st.steps
         /\ \/ recordJob(st).phase = st.phase
            \/ recordJob(st).phase = "Pending" /\ st.phase = ""
         /\ running(st) \in Status /\ running(st).cb = st.cb
         /\ running(st).steps = st.steps /\ running(st).phase = "Running"
BY StatusTypes DEF recordJob, running, Status

LEMMA MildWrite ==
  ASSUME PauseKept, reconciles, NEW st, StatusUpdate(st) \/ recordPod(st),
         st.cb = runCache.cb, st.steps = runCache.steps, ~IsTerminal(st.phase),
         runCache.phase = "Running" => st.phase = "Running",
         st.phase = "Running" => runCache.phase = "Running" \/ resumable
  PROVE  (run' = run \/ Rewritten) /\ runCache' = runCache
BY DEF PauseKept, TypeOK, reconciles, StatusUpdate, recordPod, StatusOverwrite, Rewritten,
     Terminal

\* No callback pending and no Job cached.
LEMMA CreateKeeps ==
  ASSUME PauseKept, ReconcileCreate
  PROVE  Kept' /\ (run' = run \/ Rewritten)
<1>1. UNCHANGED <<jobCache, ckpt, pc, mem, saving, post, minted, everDone>>
  BY DEF ReconcileCreate, podVars, reqVars, tokVars, histVars
<1>2. reconciles /\ runCache \in Status /\ runCache.cb = NilCallback
  BY DEF ReconcileCreate, PauseKept, TypeOK, pendingCallback
<1>3. (run' = run \/ Rewritten) /\ runCache' = runCache
  <2>1. StatusUpdate(runCache) \/ StatusUpdate(recordJob(runCache))
    BY DEF ReconcileCreate, createRunnerJob
  <2>2. ~IsTerminal(runCache.phase)
    BY <1>2 DEF reconciles
  <2>3. ~IsTerminal(recordJob(runCache).phase)
    BY <1>2, <2>2, WrittenFields DEF IsTerminal
  <2>4. CASE StatusUpdate(runCache)
    BY <1>2, <2>2, <2>4, MildWrite
  <2>5. CASE StatusUpdate(recordJob(runCache))
    <3>1. /\ recordJob(runCache).cb = runCache.cb
          /\ recordJob(runCache).steps = runCache.steps
          /\ runCache.phase = "Running" <=> recordJob(runCache).phase = "Running"
      BY <1>2, WrittenFields
    <3>. QED
      BY <1>2, <2>3, <2>5, <3>1, MildWrite
  <2>. QED
    BY <2>1, <2>4, <2>5
<1>4. job' = job \/ JobCreated
  <2>1. CASE job # NoJob
    BY <2>1 DEF ReconcileCreate, createRunnerJob
  <2>2. CASE job = NoJob
    <3>1. ~Terminal /\ Armed => run.phase = "Running"
      BY <1>2, <2>2, ObjectFields DEF PauseKept, Kept, OpenRun, PhaseTold
    <3>2. ~Terminal /\ Armed => run'.phase = "Running"
      BY <1>3, <3>1 DEF Rewritten
    <3>. QED
      BY <1>2, <2>2, <3>2
         DEF ReconcileCreate, createRunnerJob, JobCreated, reconciles, Unanswered
  <2>. QED
    BY <2>1, <2>2
<1>. QED
  BY <1>1, <1>3, <1>4, RewriteKeeps

\* The old Job is gone: the Job that resumes the run is created.
LEMMA ResumeKeeps ==
  ASSUME PauseKept, ResumeCreate
  PROVE  Kept' /\ (run' = run \/ Rewritten)
<1>1. UNCHANGED <<jobCache, ckpt, pc, mem, saving, post, minted, everDone>>
  BY DEF ResumeCreate, podVars, reqVars, tokVars, histVars
<1>2. reconciles /\ runCache \in Status /\ resumable
  BY DEF ResumeCreate, PauseKept, TypeOK
<1>. DEFINE st == running(runCache)
<1>3. PICK w \in {st, recordJob(st)} : StatusUpdate(w)
  BY DEF ResumeCreate, createRunnerJob
<1>4. w.phase = "Running" /\ w.cb = runCache.cb /\ w.steps = runCache.steps
  <2>1. /\ st \in Status /\ st.cb = runCache.cb /\ st.steps = runCache.steps
        /\ st.phase = "Running"
    BY <1>2, WrittenFields
  <2>. HIDE DEF st
  <2>2. /\ recordJob(st).cb = st.cb /\ recordJob(st).steps = st.steps
        /\ recordJob(st).phase = "Running"
    BY <2>1, WrittenFields
  <2>. QED
    BY <2>1, <2>2
<1>5. (run' = run \/ Rewritten) /\ runCache' = runCache
  <2>1. ~IsTerminal(w.phase)
    BY <1>4 DEF IsTerminal
  <2>. QED
    BY <1>2, <1>3, <1>4, <2>1, MildWrite
<1>6. job' = job \/ JobCreated
  <2>1. CASE job # NoJob
    BY <2>1 DEF ResumeCreate, createRunnerJob
  <2>2. CASE job = NoJob
    <3>1. CASE fresh
      BY <1>2, <1>3, <1>4, <2>2, <3>1
         DEF ResumeCreate, createRunnerJob, StatusUpdate, JobCreated, reconciles, Unanswered,
             resumable, outputsDelivered, continuesOnTimeout
    <3>2. CASE ~fresh
      <4>1. runCache.phase = "Running"
        BY <3>2 DEF ResumeCreate, ensureRunningOK
      <4>2. ~Terminal => run.phase = "Running"
        BY <4>1 DEF PauseKept, Kept, OpenRun, PhaseTold
      <4>3. ~Terminal => run'.phase = "Running"
        BY <1>5, <4>2 DEF Rewritten
      <4>. QED
        BY <1>2, <2>2, <4>3
           DEF ResumeCreate, createRunnerJob, JobCreated, reconciles, Unanswered,
               resumable, outputsDelivered, continuesOnTimeout
    <3>. QED
      BY <3>1, <3>2
  <2>. QED
    BY <2>1, <2>2
<1>. QED
  BY <1>1, <1>5, <1>6, RewriteKeeps

\* A failure seen in the cache is of a run that is terminal already; what the
\* reconciler writes is rejected, what it deletes is not missed.
LEMMA FailureKeeps ==
  ASSUME PauseKept, Terminal, run' = run, job' = job \/ job' = NoJob,
         ckpt' = ckpt \/ ckpt' = NoCheckpoint,
         UNCHANGED <<runCache, jobCache, pc, mem, saving, post, minted, everDone>>
  PROVE  Kept'
<1>a. Snapshots /\ Callbacks /\ Failures /\ Deletions /\ ClosedRun
  BY DEF PauseKept, Kept
<1>1. Terminal'
  BY DEF Terminal
<1>2. Snapshots'
  BY <1>a, ObjectFields DEF Snapshots, IsSnapshot, NoCheckpoint
<1>3. Callbacks'
  BY <1>a DEF Callbacks, Issued, AcceptedFor
<1>4. Failures' /\ Deletions'
  BY <1>a, <1>1, ObjectFields DEF Failures, Deletions, FailureSeen
<1>5. ClosedRun'
  <2>1. job'.cond = "Active" => job' = job
    BY ObjectFields
  <2>2. NoPods' <=> NoPods
    BY DEF NoPods
  <2>3. TimedOut => TimedOut'
    BY <2>1, <2>2 DEF TimedOut, Unanswered
  <2>4. Final(run) => Final(run)'
    BY DEF Final
  <2>. QED
    BY <1>a, <2>3, <2>4 DEF ClosedRun, Final
<1>. QED
  BY <1>1, <1>2, <1>3, <1>4, <1>5 DEF Kept

LEMMA FailedJobKeeps ==
  ASSUME PauseKept, reconciles, FailureSeen, NEW st, handleFailedJob(st),
         UNCHANGED <<jobCache, pc, mem, saving, post, minted, everDone>>
  PROVE  Kept' /\ run' = run
<1>1. Terminal
  BY DEF PauseKept, Kept, Failures
<1>2. ~fresh
  BY <1>1 DEF PauseKept, TypeOK, reconciles, Terminal
<1>3. \E w : StatusUpdate(w)
  BY DEF handleFailedJob, retryTransientFailure, markRunTerminallyFailed
<1>4. run' = run /\ runCache' = runCache
  BY <1>2, <1>3 DEF StatusUpdate
<1>5. /\ job' = job \/ job' = NoJob
      /\ ckpt' = ckpt \/ ckpt' = NoCheckpoint
  BY DEF handleFailedJob, retryTransientFailure, markRunTerminallyFailed, DeleteJobBackground
<1>. QED
  BY <1>1, <1>4, <1>5, FailureKeeps

LEMMA MonitorKeeps ==
  ASSUME PauseKept, ReconcileMonitor
  PROVE  Kept' /\ (run' = run \/ Rewritten)
<1>1. UNCHANGED <<jobCache, pc, mem, saving, post, minted, everDone>>
  BY DEF ReconcileMonitor, podVars, reqVars, tokVars
<1>2. reconciles /\ runCache \in Status
  BY DEF ReconcileMonitor, PauseKept, TypeOK
<1>. DEFINE st == recordJob(runCache)
<1>3. CASE jobCache.failed > 0 /\ (fresh \/ runCache.recorded)
  BY <1>1, <1>2, <1>3, FailedJobKeeps DEF ReconcileMonitor, FailureSeen
<1>4. CASE ~(jobCache.failed > 0 /\ (fresh \/ runCache.recorded))
  <2>1. (StatusUpdate(st) \/ recordPod(st)) /\ job' = job /\ ckpt' = ckpt
    BY <1>4 DEF ReconcileMonitor
  <2>2. /\ st.cb = runCache.cb /\ st.steps = runCache.steps
        /\ runCache.phase = "Running" <=> st.phase = "Running"
    BY <1>2, WrittenFields
  <2>3. ~IsTerminal(st.phase)
    BY <1>2, WrittenFields DEF IsTerminal, reconciles
  <2>4. (run' = run \/ Rewritten) /\ runCache' = runCache
    <3>. HIDE DEF st
    <3>. QED
      BY <1>2, <2>1, <2>2, <2>3, MildWrite
  <2>. QED
    BY <1>1, <2>1, <2>4, RewriteKeeps
<1>. QED
  BY <1>3, <1>4

\* The resuming Job is active.
LEMMA ActiveKeeps ==
  ASSUME PauseKept, ResumeActive
  PROVE  Kept' /\ (run' = run \/ Rewritten)
<1>1. UNCHANGED <<job, jobCache, ckpt, pc, mem, saving, post, minted, everDone>>
  BY DEF ResumeActive, jobVars, podVars, reqVars, tokVars, histVars
<1>2. reconciles /\ runCache \in Status /\ resumable /\ StatusUpdate(running(runCache))
  BY DEF ResumeActive, PauseKept, TypeOK
<1>3. /\ running(runCache).cb = runCache.cb /\ running(runCache).steps = runCache.steps
      /\ running(runCache).phase = "Running"
  BY <1>2, WrittenFields
<1>4. ~IsTerminal(running(runCache).phase)
  BY <1>3 DEF IsTerminal
<1>5. (run' = run \/ Rewritten) /\ runCache' = runCache
  BY <1>2, <1>3, <1>4, MildWrite
<1>. QED
  BY <1>1, <1>5, RewriteKeeps

\* The reconciler fails a run whose gate timed out: no runner is at work, and
\* its stale cache, which shows the gate, starts none.
LEMMA TimeoutKeeps ==
  ASSUME PauseKept, ReconcileTimeout
  PROVE  Kept' /\ (run' = run \/ Unanswered(run.cb))
<1>1. UNCHANGED <<job, jobCache, ckpt, pc, mem, saving, post, minted, everDone>>
  BY DEF ReconcileTimeout, jobVars, podVars, reqVars, tokVars, histVars
<1>. DEFINE timed == [runCache EXCEPT !.steps[runCache.cb.step] = "Failed"]
            st == setRunFailed(timed)
<1>2. StatusUpdate(st) /\ runCache' = runCache
  BY DEF ReconcileTimeout, StatusUpdate
<1>3. CASE ~fresh
  BY <1>1, <1>2, <1>3, RewriteKeeps DEF StatusUpdate
<1>4. CASE fresh
  <2>1. runCache = run /\ run' = st /\ ~Terminal /\ Unanswered(run.cb)
    BY <1>2, <1>4
       DEF StatusUpdate, PauseKept, TypeOK, ReconcileTimeout, reconciles, Terminal, Unanswered,
           pendingCallback, outputsDelivered, continuesOnTimeout
  <2>2. run'.cb = NilCallback /\ run'.phase = "Failed"
    <3>1. timed \in [phase : RunPhases, recorded : BOOLEAN, attempts : Nat, cb : CallbackState,
                     steps : {timed.steps}]
      BY DEF PauseKept, TypeOK, Status
    <3>. QED
      BY <2>1, <3>1 DEF setRunFailed
  <2>3. Terminal'
    BY <2>2 DEF Terminal, IsTerminal
  <2>a. Snapshots /\ Callbacks /\ Failures /\ Deletions /\ OpenRun
    BY <2>1 DEF PauseKept, Kept
  <2>4. Snapshots'
    BY <1>1, <2>a DEF Snapshots, IsSnapshot
  <2>5. Callbacks'
    BY <1>1, <1>2, <2>2, <2>a DEF Callbacks, Issued, AcceptedFor
  <2>6. Failures' /\ Deletions'
    BY <1>1, <2>3, <2>a DEF Failures, Deletions, FailureSeen
  <2>7. Armed /\ run.phase # "Running" /\ \A p \in Pods : pc[p] \notin Live \ {"Pause"}
    BY <2>1, <2>a DEF OpenRun, Held, Armed
  <2>8. job.cond = "Active" => ~NoPods
    BY <2>7, <2>a DEF OpenRun, PhaseTold
  <2>9. TimedOut'
    <3>1. NoPods' <=> NoPods
      BY <1>1 DEF NoPods
    <3>. QED
      BY <1>1, <1>2, <2>1, <2>7, <2>8, <3>1 DEF TimedOut, Unanswered
  <2>10. \A p \in Pods : pc'[p] \notin Early \cup Past
    BY <1>1, <2>7 DEF Early, Past, InLoop, Ending, Live, Executing
  <2>. QED
    BY <2>1, <2>3, <2>4, <2>5, <2>6, <2>9, <2>10 DEF Kept, ClosedRun, Early
<1>. QED
  BY <1>3, <1>4

\* resumeRunnerJob deletes the Job whose completion it saw.
LEMMA DeleteKeeps ==
  ASSUME PauseKept, ResumeDelete
  PROVE  Kept'
<1>1. UNCHANGED <<run, runCache, jobCache, ckpt, pc, mem, saving, post, minted, everDone>>
  BY DEF ResumeDelete, runVars, podVars, reqVars, tokVars, histVars
<1>2. runCache.cb # NilCallback /\ ~IsTerminal(runCache.phase) /\ ~Unanswered(runCache.cb)
  BY DEF ResumeDelete, reconciles, resumable, pendingCallback, outputsDelivered,
       continuesOnTimeout, Unanswered
<1>a. Snapshots /\ Callbacks /\ Failures /\ Deletions
  BY DEF PauseKept, Kept
<1>3. /\ job.cond = "Complete" /\ job'.cond = job.cond /\ job'.failed = job.failed
      /\ job'.deleting
  BY <1>a DEF ResumeDelete, Deletions, PauseKept, TypeOK, Job
<1>4. Terminal' <=> Terminal
  BY <1>1 DEF Terminal
<1>5. Snapshots' /\ Callbacks'
  BY <1>1, <1>a DEF Snapshots, IsSnapshot, Callbacks, Issued, AcceptedFor
<1>6. Failures' /\ Deletions'
  BY <1>1, <1>3, <1>4, <1>a DEF Failures, Deletions, FailureSeen
<1>7. ASSUME ~Terminal PROVE OpenRun'
  <2>0. OpenRun
    BY <1>7 DEF PauseKept, Kept
  <2>1. StepsSaved' /\ Held' /\ AnswerKept' /\ QuestionsSeen'
    BY <1>1, <2>0 DEF OpenRun, StepsSaved, Covers, Held, AnswerKept, Answer, Sole, QuestionsSeen,
       Current, Unanswered, AcceptedFor
  <2>2. PhaseTold'
    BY <1>1, <1>2, <1>3, <2>0 DEF OpenRun, PhaseTold, NoPast, NoPods, Armed
  <2>3. \A p \in Pods : Starting(p)' /\ Looping(p)'
    BY <1>1, <2>0 DEF OpenRun, Starting, Looping, Unanswered, Armed, Final
  <2>. QED
    BY <2>1, <2>2, <2>3 DEF OpenRun
<1>8. ASSUME Terminal PROVE ClosedRun'
  <2>1. ClosedRun /\ ~TimedOut
    BY <1>2, <1>8 DEF PauseKept, Kept, TimedOut
  <2>. QED
    BY <1>1, <2>1 DEF ClosedRun, Final
<1>. QED
  BY <1>4, <1>5, <1>6, <1>7, <1>8 DEF Kept

\* The cache catches up with the run.
LEMMA SyncRunKeeps ==
  ASSUME PauseKept, SyncRunCache
  PROVE  Kept'
<1>1. /\ UNCHANGED <<run, job, jobCache, ckpt, pc, mem, saving, post, minted, everDone>>
      /\ runCache' = run
  BY DEF SyncRunCache, jobVars, podVars, reqVars, tokVars, histVars
<1>a. Snapshots /\ Callbacks /\ Failures /\ Deletions
  BY DEF PauseKept, Kept
<1>4. Terminal' <=> Terminal
  BY <1>1 DEF Terminal
<1>5. Snapshots' /\ Callbacks'
  BY <1>1, <1>a DEF Snapshots, IsSnapshot, Callbacks, Issued, AcceptedFor
<1>6. Failures' /\ Deletions'
  BY <1>1, <1>4, <1>a DEF Failures, Deletions, FailureSeen
<1>7. ASSUME ~Terminal PROVE OpenRun'
  <2>0. OpenRun
    BY <1>7 DEF PauseKept, Kept
  <2>1. StepsSaved' /\ Held' /\ AnswerKept' /\ QuestionsSeen'
    BY <1>1, <2>0 DEF OpenRun, StepsSaved, Covers, Held, AnswerKept, Answer, Sole, QuestionsSeen,
       Current, Unanswered, AcceptedFor
  <2>2. PhaseTold'
    <3>1. job.cond = "Absent" \/ job.deleting => job.cond # "Active"
      BY <1>a DEF Deletions
    <3>2. job.cond # "Active" => NoPast
      BY DEF PauseKept, Supervised, PodsHaveActiveJob, NoPast, Past, InLoop, Ending
    <3>. QED
      BY <1>1, <2>0, <3>1, <3>2 DEF OpenRun, PhaseTold, NoPast, NoPods, Armed
  <2>3. \A p \in Pods : Starting(p)' /\ Looping(p)'
    BY <1>1, <2>0 DEF OpenRun, Starting, Looping, Unanswered, Armed, Final
  <2>. QED
    BY <2>1, <2>2, <2>3 DEF OpenRun
<1>8. ASSUME Terminal PROVE ClosedRun'
  <2>1. ClosedRun
    BY <1>8 DEF PauseKept, Kept
  <2>2. TimedOut => TimedOut'
    BY <1>1, <1>8 DEF TimedOut, NoPods, Terminal
  <2>. QED
    BY <1>1, <2>1, <2>2 DEF ClosedRun, Final
<1>. QED
  BY <1>4, <1>5, <1>6, <1>7, <1>8 DEF Kept

\* The Job's cache catches up with the Job, or a finished Job goes.
LEMMA JobMovesKeeps ==
  ASSUME PauseKept, NoPods \/ job' = job,
         \/ SyncJobCache
         \/ /\ job' = NoJob /\ jobCache' = jobCache
            /\ ~Terminal /\ Armed /\ run.phase # "Running" => runCache.cb # NilCallback,
         UNCHANGED <<run, runCache, ckpt, pc, mem, saving, post, minted, everDone>>
  PROVE  Kept'
<1>1. UNCHANGED <<run, runCache, ckpt, pc, mem, saving, post, minted, everDone>>
  OBVIOUS
<1>2. SyncJobCache => job' = job /\ jobCache' = job
  BY DEF SyncJobCache
<1>a. Snapshots /\ Callbacks /\ Failures /\ Deletions
  BY DEF PauseKept, Kept
<1>4. Terminal' <=> Terminal
  BY <1>1 DEF Terminal
<1>5. Snapshots' /\ Callbacks'
  BY <1>1, <1>a DEF Snapshots, IsSnapshot, Callbacks, Issued, AcceptedFor
<1>6. Failures' /\ Deletions'
  <2>1. CASE SyncJobCache
    BY <1>1, <1>2, <1>4, <1>a, <2>1 DEF Failures, Deletions, FailureSeen
  <2>2. CASE job' = NoJob /\ jobCache' = jobCache
    BY <1>1, <1>4, <1>a, <2>2, ObjectFields DEF Failures, Deletions, FailureSeen
  <2>. QED
    BY <2>1, <2>2
<1>7. ASSUME ~Terminal PROVE OpenRun'
  <2>0. OpenRun
    BY <1>7 DEF PauseKept, Kept
  <2>1. StepsSaved' /\ Held' /\ AnswerKept' /\ QuestionsSeen'
    BY <1>1, <2>0 DEF OpenRun, StepsSaved, Covers, Held, AnswerKept, Answer, Sole, QuestionsSeen,
       Current, Unanswered, AcceptedFor
  <2>2. PhaseTold'
    <3>1. CASE SyncJobCache
      BY <1>1, <1>2, <2>0, <3>1 DEF OpenRun, PhaseTold, NoPast, NoPods, Armed
    <3>2. CASE ~SyncJobCache
      BY <1>1, <1>7, <2>0, <3>2, ObjectFields DEF OpenRun, PhaseTold, NoPast, NoPods, Armed
    <3>. QED
      BY <3>1, <3>2
  <2>3. \A p \in Pods : Starting(p)' /\ Looping(p)'
    BY <1>1, <2>0 DEF OpenRun, Starting, Looping, Unanswered, Armed, Final
  <2>. QED
    BY <2>1, <2>2, <2>3 DEF OpenRun
<1>8. ASSUME Terminal PROVE ClosedRun'
  <2>1. ClosedRun
    BY <1>8 DEF PauseKept, Kept
  <2>2. TimedOut => TimedOut'
    BY <1>1, <1>2, ObjectFields DEF TimedOut, NoPods, Unanswered
  <2>. QED
    BY <1>1, <2>1, <2>2 DEF ClosedRun, Final
<1>. QED
  BY <1>4, <1>5, <1>6, <1>7, <1>8 DEF Kept

LEMMA JobEndKeeps ==
  ASSUME PauseKept, ~EarlyTTL, FinishDelete \/ JobTTL
  PROVE  Kept'
<1>1. /\ UNCHANGED <<run, runCache, jobCache, ckpt, pc, mem, saving, post, minted, everDone>>
      /\ job' = NoJob
  BY DEF FinishDelete, JobTTL, runVars, podVars, reqVars, tokVars, histVars
<1>2. job.cond # "Active"
  BY DEF FinishDelete, JobTTL, PauseKept, Kept, Deletions
<1>3. NoPods /\ NoPast
  BY <1>2 DEF PauseKept, Supervised, PodsHaveActiveJob, NoPods, NoPast, Past, InLoop, Ending
<1>4. ~Terminal /\ Armed /\ run.phase # "Running" => runCache.cb # NilCallback
  <2>1. CASE FinishDelete
    BY <2>1 DEF FinishDelete, PauseKept, Kept, OpenRun, PhaseTold
  <2>2. CASE JobTTL
    BY <1>3, <2>2 DEF JobTTL, PauseKept, TypeOK, Kept, OpenRun, PhaseTold
  <2>. QED
    BY <2>1, <2>2
<1>. QED
  BY <1>1, <1>3, <1>4, JobMovesKeeps

\* Nothing that the invariant speaks of changes.
LEMMA StutterKeeps ==
  ASSUME PauseKept,
         UNCHANGED <<run, runCache, job, jobCache, ckpt, pc, mem, saving, post, minted, everDone>>
  PROVE  Kept'
BY RewriteKeeps

\* A delivery is admitted on what the cache shows.
LEMMA AdmitKeeps ==
  ASSUME PauseKept, NEW q \in Posts, CallbackAdmit(q)
  PROVE  Kept'
<1>1. UNCHANGED <<run, runCache, job, jobCache, ckpt, pc, mem, saving, minted, everDone>>
  BY DEF CallbackAdmit, runVars, jobVars, podVars, tokVars, histVars
<1>a. Snapshots /\ Callbacks /\ Failures /\ Deletions
  BY DEF PauseKept, Kept
<1>2. /\ post[q].state = "idle" /\ runCache.cb # NilCallback
      /\ post'[q].cb = runCache.cb /\ post'[q].state \in {"already", "admitted"}
      /\ post'[q].state = "admitted" => runCache.cb.outputs = NoPost
      /\ \A r \in Posts \ {q} : post'[r] = post[r]
  BY DEF CallbackAdmit, PauseKept, TypeOK, pendingCallback, outputsDelivered
<1>3. \A t : AcceptedFor(t) => AcceptedFor(t)'
  BY <1>2 DEF AcceptedFor
<1>4. Terminal' <=> Terminal
  BY <1>1 DEF Terminal
<1>5. Snapshots' /\ Failures' /\ Deletions'
  BY <1>1, <1>4, <1>a DEF Snapshots, IsSnapshot, Failures, Deletions, FailureSeen
<1>6. Callbacks'
  <2>1. \A c : Issued(c) => \/ c = NilCallback
                            \/ /\ c.tok \in 1..minted
                               /\ c.step \in Gates /\ \A t \in 1..(c.step - 1) : t \in everDone
                               /\ c.outputs # NoPost => AcceptedFor(c.tok)'
    BY <1>3 DEF Issued
  <2>2. Issued(run.cb)' /\ Issued(runCache.cb)' /\ \A p \in Pods : Issued(mem[p].cb)'
    BY <1>1, <1>a, <2>1 DEF Callbacks, Issued
  <2>3. \A r \in Posts : Issued(post[r].cb)'
    BY <1>1, <1>2, <1>a, <2>1 DEF Callbacks, Issued
  <2>. QED
    BY <1>2, <1>a, <2>2, <2>3 DEF Callbacks
<1>7. ASSUME ~Terminal PROVE OpenRun'
  <2>0. OpenRun
    BY <1>7 DEF PauseKept, Kept
  <2>1. StepsSaved' /\ Held'
    BY <1>1, <2>0 DEF OpenRun, StepsSaved, Covers, Held, Unanswered
  <2>2. QuestionsSeen'
    BY <1>1, <1>2, <1>3, <2>0 DEF OpenRun, QuestionsSeen, Current, Unanswered
  <2>3. AnswerKept'
    <3>1. \A c : Issued(c) => c = NilCallback \/ c.tok # 0
      BY DEF Issued, PauseKept, TypeOK
    <3>2. post[q].cb.tok = 0
      BY <1>2, <1>a, ObjectFields DEF Callbacks
    <3>3. \A t : t # 0 /\ Sole(t)' => Sole(t)
      BY <1>2, <3>2 DEF Sole
    <3>4. Answer(run.cb)' => Answer(run.cb)
      BY <1>1, <1>a, <3>1, <3>3 DEF Answer, Callbacks
    <3>5. \A p \in Pods : Answer(mem[p].cb)' => Answer(mem[p].cb)
      BY <1>1, <1>a, <3>1, <3>3 DEF Answer, Callbacks
    <3>. QED
      BY <1>1, <2>0, <3>4, <3>5 DEF OpenRun, AnswerKept
  <2>4. PhaseTold'
    BY <1>1, <2>0 DEF OpenRun, PhaseTold, NoPast, NoPods, Armed
  <2>5. \A p \in Pods : Starting(p)' /\ Looping(p)'
    BY <1>1, <2>0 DEF OpenRun, Starting, Looping, Unanswered, Armed, Final
  <2>. QED
    BY <2>1, <2>2, <2>3, <2>4, <2>5 DEF OpenRun
<1>8. ASSUME Terminal PROVE ClosedRun'
  <2>1. ClosedRun
    BY <1>8 DEF PauseKept, Kept
  <2>2. TimedOut => TimedOut'
    BY <1>1 DEF TimedOut, NoPods, Unanswered
  <2>. QED
    BY <1>1, <2>1, <2>2 DEF ClosedRun, Final
<1>. QED
  BY <1>4, <1>5, <1>6, <1>7, <1>8 DEF Kept

\* A delivery is refused after all.
LEMMA RefuseKeeps ==
  ASSUME PauseKept, NEW q \in Posts, post[q].state = "admitted",
         NEW x \in {"gone", "already"}, post' = [post EXCEPT ![q].state = x],
         UNCHANGED <<run, runCache, job, jobCache, ckpt, pc, mem, saving, minted, everDone>>
  PROVE  Kept'
<1>1. UNCHANGED <<run, runCache, job, jobCache, ckpt, pc, mem, saving, minted, everDone>>
  OBVIOUS
<1>a. Snapshots /\ Callbacks /\ Failures /\ Deletions
  BY DEF PauseKept, Kept
<1>2. /\ \A r \in Posts : post'[r].cb = post[r].cb
      /\ post'[q].state = x /\ \A r \in Posts \ {q} : post'[r].state = post[r].state
  BY DEF PauseKept, TypeOK
<1>3. \A t : AcceptedFor(t) => AcceptedFor(t)'
  BY <1>2 DEF AcceptedFor
<1>4. Terminal' <=> Terminal
  BY <1>1 DEF Terminal
<1>5. Snapshots' /\ Failures' /\ Deletions'
  BY <1>1, <1>4, <1>a DEF Snapshots, IsSnapshot, Failures, Deletions, FailureSeen
<1>6. Callbacks'
  <2>1. \A c : Issued(c) => \/ c = NilCallback
                            \/ /\ c.tok \in 1..minted
                               /\ c.step \in Gates /\ \A t \in 1..(c.step - 1) : t \in everDone
                               /\ c.outputs # NoPost => AcceptedFor(c.tok)'
    BY <1>3 DEF Issued
  <2>2. Issued(run.cb)' /\ Issued(runCache.cb)' /\ \A p \in Pods : Issued(mem[p].cb)'
    BY <1>1, <1>a, <2>1 DEF Callbacks, Issued
  <2>3. \A r \in Posts : Issued(post[r].cb)'
    BY <1>1, <1>2, <1>a, <2>1 DEF Callbacks, Issued
  <2>. QED
    BY <1>2, <1>a, <2>2, <2>3 DEF Callbacks
<1>7. ASSUME ~Terminal PROVE OpenRun'
  <2>0. OpenRun
    BY <1>7 DEF PauseKept, Kept
  <2>1. StepsSaved' /\ Held'
    BY <1>1, <2>0 DEF OpenRun, StepsSaved, Covers, Held, Unanswered
  <2>2. QuestionsSeen'
    BY <1>1, <1>2, <1>3, <2>0 DEF OpenRun, QuestionsSeen, Current, Unanswered
  <2>3. AnswerKept'
    BY <1>1, <1>2, <2>0 DEF OpenRun, AnswerKept, Answer, Sole
  <2>4. PhaseTold'
    BY <1>1, <2>0 DEF OpenRun, PhaseTold, NoPast, NoPods, Armed
  <2>5. \A p \in Pods : Starting(p)' /\ Looping(p)'
    BY <1>1, <2>0 DEF OpenRun, Starting, Looping, Unanswered, Armed, Final
  <2>. QED
    BY <2>1, <2>2, <2>3, <2>4, <2>5 DEF OpenRun
<1>8. ASSUME Terminal PROVE ClosedRun'
  <2>1. ClosedRun
    BY <1>8 DEF PauseKept, Kept
  <2>2. TimedOut => TimedOut'
    BY <1>1 DEF TimedOut, NoPods, Unanswered
  <2>. QED
    BY <1>1, <2>1, <2>2 DEF ClosedRun, Final
<1>. QED
  BY <1>4, <1>5, <1>6, <1>7, <1>8 DEF Kept

\* A delivery is accepted: the answer replaces what the slot holds.  If it
\* answers a gate under policy Fail and no other delivery did, the slot holds
\* that gate's question and no runner is at work.
LEMMA AcceptKeeps ==
  ASSUME PauseKept, NEW q \in Posts, post[q].state = "admitted",
         post' = [post EXCEPT ![q].state = "accepted"],
         run' = [run EXCEPT !.cb = [post[q].cb EXCEPT !.outputs = q]],
         UNCHANGED <<runCache, job, jobCache, ckpt, pc, mem, saving, minted, everDone>>
  PROVE  Kept'
<1>. DEFINE asked == post[q].cb
<1>1. UNCHANGED <<runCache, job, jobCache, ckpt, pc, mem, saving, minted, everDone>>
  OBVIOUS
<1>a. Snapshots /\ Callbacks /\ Failures /\ Deletions
  BY DEF PauseKept, Kept
<1>2. /\ \A r \in Posts : post'[r].cb = post[r].cb
      /\ post'[q].state = "accepted" /\ \A r \in Posts \ {q} : post'[r].state = post[r].state
  BY DEF PauseKept, TypeOK
<1>b. /\ run'.phase = run.phase /\ run'.steps = run.steps
      /\ run'.cb.tok = asked.tok /\ run'.cb.step = asked.step /\ run'.cb.outputs = q
  BY DEF PauseKept, TypeOK, Status, CallbackState
<1>c. q # NoPost
  BY ConstantsAssumption
<1>d. /\ asked # NilCallback /\ asked.outputs = NoPost /\ asked.tok \in 1..minted
      /\ asked.step \in Gates /\ \A t \in 1..(asked.step - 1) : t \in everDone
  BY <1>a DEF Callbacks, Issued
<1>e. run'.cb # NilCallback
  BY <1>b, <1>c, ObjectFields
<1>3. \A t : AcceptedFor(t) => AcceptedFor(t)'
  BY <1>2 DEF AcceptedFor
<1>f. AcceptedFor(asked.tok)'
  BY <1>2 DEF AcceptedFor
<1>4. Terminal' <=> Terminal
  BY <1>b DEF Terminal
<1>5. Snapshots' /\ Failures' /\ Deletions'
  BY <1>1, <1>4, <1>a DEF Snapshots, IsSnapshot, Failures, Deletions, FailureSeen
<1>6. Callbacks'
  <2>1. \A c : Issued(c) => \/ c = NilCallback
                            \/ /\ c.tok \in 1..minted
                               /\ c.step \in Gates /\ \A t \in 1..(c.step - 1) : t \in everDone
                               /\ c.outputs # NoPost => AcceptedFor(c.tok)'
    BY <1>3 DEF Issued
  <2>2. Issued(runCache.cb)' /\ \A p \in Pods : Issued(mem[p].cb)'
    BY <1>1, <1>a, <2>1 DEF Callbacks, Issued
  <2>3. \A r \in Posts : Issued(post[r].cb)'
    BY <1>1, <1>2, <1>a, <2>1 DEF Callbacks, Issued
  <2>4. Issued(run.cb)'
    <3>. DEFINE c == run'.cb
    <3>1. /\ c.tok \in 1..minted' /\ c.step \in Gates
          /\ \A t \in 1..(c.step - 1) : t \in everDone'
      BY <1>1, <1>b, <1>d
    <3>2. AcceptedFor(run.cb.tok)'
      BY <1>2, <1>b DEF AcceptedFor
    <3>. QED
      BY <3>1, <3>2 DEF Issued
  <2>. QED
    BY <1>2, <1>a, <2>2, <2>3, <2>4 DEF Callbacks
<1>7. ASSUME ~Terminal PROVE OpenRun'
  <2>0. OpenRun
    BY <1>7 DEF PauseKept, Kept
  <2>1. StepsSaved' /\ Held'
    BY <1>1, <1>b, <1>c, <2>0 DEF OpenRun, StepsSaved, Covers, Held, Unanswered
  <2>a. Unanswered(run.cb) => minted = 1 /\ run.cb.tok = 1 /\ asked.tok = 1
    <3>1. Unanswered(run.cb) => minted = 1 /\ run.cb.tok \in 1..minted
      BY <1>a, <2>0 DEF OpenRun, Held, Callbacks, Issued, Unanswered
    <3>. QED
      BY <1>d, <3>1
  <2>2. QuestionsSeen'
    <3>1. \A c : Current(c) => (Unanswered(c) => AcceptedFor(c.tok)')
      <4>. SUFFICES ASSUME NEW c, Current(c), Unanswered(c) PROVE AcceptedFor(c.tok)'
        OBVIOUS
      <4>1. CASE run.cb = c
        BY <1>f, <2>a, <4>1
      <4>2. CASE run.cb # c
        BY <1>3, <4>2 DEF Current
      <4>. QED
        BY <4>1, <4>2
    <3>2. Current(runCache.cb)'
      BY <1>1, <2>0, <3>1 DEF OpenRun, QuestionsSeen, Current, Unanswered
    <3>3. \A r \in Posts : post'[r].state = "admitted" => Current(post[r].cb)'
      <4>. SUFFICES ASSUME NEW r \in Posts, post'[r].state = "admitted",
                           Unanswered(post[r].cb)
                    PROVE  AcceptedFor(post[r].cb.tok)'
        BY <1>2 DEF Current, Unanswered
      <4>1. post[r].state = "admitted"
        BY <1>2
      <4>2. AcceptedFor(post[r].cb.tok) \/ post[r].cb.tok = asked.tok
        BY <2>0, <2>a, <4>1 DEF OpenRun, QuestionsSeen, Current
      <4>. QED
        BY <1>2, <4>2 DEF AcceptedFor
    <3>. QED
      BY <3>2, <3>3 DEF QuestionsSeen
  <2>3. AnswerKept'
    <3>0. ASSUME NEW p \in Pods, pc[p] \in Early, Answer(mem[p].cb)' PROVE FALSE
      <4>1. Answer(mem[p].cb)
        BY <1>1, <1>2, <3>0 DEF Answer, Sole
      <4>2. minted = 1 /\ Issued(mem[p].cb)
        BY <1>a, <2>0, <3>0, <4>1 DEF OpenRun, AnswerKept, Callbacks
      <4>3. mem[p].cb.tok = asked.tok /\ AcceptedFor(mem[p].cb.tok)
        BY <1>d, <4>1, <4>2 DEF Issued, Answer
      <4>. QED
        BY <4>1, <4>3 DEF AcceptedFor, Answer, Sole
    <3>. SUFFICES ASSUME asked.step \notin ContinueGates, Sole(run.cb.tok)'
                  PROVE  /\ minted = 1 /\ asked.step \notin everDone
                         /\ \A p \in Pods : pc[p] \in {"None", "Pause", "Exit0"}
      BY <1>1, <1>b, <3>0 DEF AnswerKept, Answer
    <3>1. Unanswered(asked)
      BY <1>d DEF Unanswered
    <3>2. ~AcceptedFor(asked.tok)
      BY <1>2, <1>b DEF AcceptedFor, Sole
    <3>3. run.cb = asked
      BY <2>0, <3>1, <3>2 DEF OpenRun, QuestionsSeen, Current
    <3>4. /\ minted = 1 /\ asked.step \notin everDone
          /\ \A p \in Pods : pc[p] \notin Live \ {"Pause"}
      BY <2>0, <3>1, <3>3 DEF OpenRun, Held
    <3>5. \A p \in Pods : pc[p] \notin {"Killed", "Exit1"}
      BY <1>7, <1>a DEF Failures
    <3>. QED
      BY <3>4, <3>5 DEF PauseKept, TypeOK, Exited
  <2>4. PhaseTold'
    BY <1>1, <1>b, <1>e, <2>0 DEF OpenRun, PhaseTold, NoPast, NoPods, Armed
  <2>5. \A p \in Pods : Starting(p)' /\ Looping(p)'
    BY <1>1, <1>b, <1>e, <2>0 DEF OpenRun, Starting, Looping, Unanswered, Armed, Final
  <2>. QED
    BY <2>1, <2>2, <2>3, <2>4, <2>5 DEF OpenRun
<1>8. ASSUME Terminal PROVE ClosedRun'
  <2>1. ClosedRun
    BY <1>8 DEF PauseKept, Kept
  <2>2. TimedOut => TimedOut'
    BY <1>1 DEF TimedOut, NoPods, Unanswered
  <2>. QED
    BY <1>1, <1>b, <2>1, <2>2 DEF ClosedRun, Final
<1>. QED
  BY <1>4, <1>5, <1>6, <1>7, <1>8 DEF Kept

LEMMA PatchKeeps ==
  ASSUME PauseKept, NEW q \in Posts, CallbackPatch(q)
  PROVE  Kept'
<1>1. UNCHANGED <<runCache, job, jobCache, ckpt, pc, mem, saving, minted, everDone>>
  BY DEF CallbackPatch, StatusOverwrite, runVars, jobVars, podVars, tokVars, histVars
<1>2. post[q].state = "admitted"
  BY DEF CallbackPatch
<1>3. \/ /\ run' = run
         /\ \E x \in {"gone", "already"} : post' = [post EXCEPT ![q].state = x]
      \/ /\ run' = [run EXCEPT !.cb = [post[q].cb EXCEPT !.outputs = q]]
         /\ post' = [post EXCEPT ![q].state = "accepted"]
  BY DEF CallbackPatch, StatusOverwrite, runVars
<1>. QED
  BY <1>1, <1>2, <1>3, RefuseKeeps, AcceptKeeps

\* While a pod is there, the other slots are empty.
LEMMA OthersIdle ==
  ASSUME PauseKept, NEW p \in Pods, pc[p] # "None"
  PROVE  \A o \in Pods \ {p} : pc[o] = "None" /\ saving[o] = {}
<1>1. \A o \in Pods \ {p} : pc[o] = "None"
  BY DEF PauseKept, Supervised, OnePod
<1>. QED
  BY <1>1 DEF PauseKept, Kept, Snapshots, Past, InLoop, Ending

\* A Job that a stale cache brought about, or that resumes a run, gets a pod.
LEMMA PodKeeps ==
  ASSUME PauseKept, NEW p \in Pods, CreatePod(p)
  PROVE  Kept'
<1>1. /\ UNCHANGED <<run, runCache, job, jobCache, ckpt, mem, saving, post, minted, everDone>>
      /\ job.cond = "Active" /\ pc' = [pc EXCEPT ![p] = "Waiting"]
  BY DEF CreatePod, runVars, reqVars, tokVars, histVars
<1>2. NoPods
  BY DEF CreatePod, PauseKept, Supervised, NoOrphans, NoPods
<1>3. pc'[p] = "Waiting" /\ \A o \in Pods \ {p} : pc'[o] = "None"
  BY <1>1, <1>2 DEF NoPods, PauseKept, TypeOK
<1>a. Snapshots /\ Callbacks /\ Failures /\ Deletions
  BY DEF PauseKept, Kept
<1>4. Terminal' <=> Terminal
  BY <1>1 DEF Terminal
<1>5. Snapshots'
  BY <1>1, <1>2, <1>a DEF Snapshots, IsSnapshot, NoPods, Past, InLoop, Ending
<1>6. Callbacks' /\ Failures' /\ Deletions'
  BY <1>1, <1>3, <1>4, <1>a DEF Callbacks, Issued, AcceptedFor, Failures, Deletions, FailureSeen
<1>7. ASSUME ~Terminal PROVE OpenRun'
  <2>0. OpenRun
    BY <1>7 DEF PauseKept, Kept
  <2>1. Armed => run.phase = "Running"
    BY <1>1, <1>2, <2>0 DEF OpenRun, PhaseTold
  <2>2. ~Unanswered(run.cb)
    BY <2>0, <2>1 DEF OpenRun, Held, Armed
  <2>3. StepsSaved' /\ Held' /\ QuestionsSeen'
    BY <1>1, <1>2, <2>0, <2>2 DEF OpenRun, StepsSaved, Covers, Held, QuestionsSeen,
       Current, Unanswered, AcceptedFor, NoPods, Ending
  <2>4. AnswerKept'
    BY <1>1, <1>3, <2>0 DEF OpenRun, AnswerKept, Answer, Sole, Early
  <2>5. PhaseTold'
    <3>1. NoPast /\ (NoPods' => FALSE)
      BY <1>2, <1>3 DEF NoPast, NoPods, Past, InLoop, Ending
    <3>. QED
      BY <1>1, <2>0, <3>1 DEF OpenRun, PhaseTold, Armed
  <2>6. \A o \in Pods : Starting(o)' /\ Looping(o)'
    BY <1>1, <1>3, <2>1 DEF Starting, Looping, Early, InLoop, Ending, Armed
  <2>. QED
    BY <2>3, <2>4, <2>5, <2>6 DEF OpenRun
<1>8. ASSUME Terminal PROVE ClosedRun'
  <2>1. ClosedRun /\ ~TimedOut
    BY <1>1, <1>2, <1>8 DEF PauseKept, Kept, TimedOut
  <2>. QED
    BY <1>1, <1>3, <2>1 DEF ClosedRun, Final, Early, Past, InLoop, Ending
<1>. QED
  BY <1>4, <1>5, <1>6, <1>7, <1>8 DEF Kept

\* A pod's container starts; the runner has read nothing yet.
LEMMA ContainerKeeps ==
  ASSUME PauseKept, NEW p \in Pods, StartContainer(p)
  PROVE  Kept'
<1>1. /\ UNCHANGED <<run, runCache, job, jobCache, ckpt, mem, saving, post, minted, everDone>>
      /\ pc[p] = "Waiting" /\ pc' = [pc EXCEPT ![p] = "Load"]
  BY DEF StartContainer, Goto, runVars, jobVars, reqVars, tokVars, histVars
<1>2. pc'[p] = "Load" /\ \A o \in Pods \ {p} : pc[o] = "None" /\ pc'[o] = "None"
  BY <1>1, OthersIdle DEF PauseKept, TypeOK
<1>a. Snapshots /\ Callbacks /\ Failures /\ Deletions
  BY DEF PauseKept, Kept
<1>4. Terminal' <=> Terminal
  BY <1>1 DEF Terminal
<1>5. Snapshots'
  BY <1>1, <1>2, <1>a DEF Snapshots, IsSnapshot, Past, InLoop, Ending
<1>6. Callbacks' /\ Failures' /\ Deletions'
  BY <1>1, <1>2, <1>4, <1>a DEF Callbacks, Issued, AcceptedFor, Failures, Deletions, FailureSeen
<1>7. ASSUME ~Terminal PROVE OpenRun'
  <2>0. OpenRun
    BY <1>7 DEF PauseKept, Kept
  <2>1. Armed => run.phase = "Running"
    BY <1>1, <2>0 DEF OpenRun, Starting
  <2>2. ~Unanswered(run.cb)
    BY <2>0, <2>1 DEF OpenRun, Held, Armed
  <2>3. StepsSaved' /\ Held' /\ QuestionsSeen'
    BY <1>1, <1>2, <2>0, <2>2 DEF OpenRun, StepsSaved, Covers, Held, QuestionsSeen,
       Current, Unanswered, AcceptedFor, Ending
  <2>4. AnswerKept'
    BY <1>1, <1>2, <2>0 DEF OpenRun, AnswerKept, Answer, Sole, Early
  <2>5. PhaseTold'
    <3>1. NoPast /\ (NoPods' => FALSE)
      BY <1>1, <1>2 DEF NoPast, NoPods, Past, InLoop, Ending
    <3>. QED
      BY <1>1, <2>0, <3>1 DEF OpenRun, PhaseTold, Armed
  <2>6. \A o \in Pods : Starting(o)' /\ Looping(o)'
    BY <1>1, <1>2, <2>1 DEF Starting, Looping, Early, InLoop, Ending, Armed
  <2>. QED
    BY <2>3, <2>4, <2>5, <2>6 DEF OpenRun
<1>8. ASSUME Terminal PROVE ClosedRun'
  <2>1. ClosedRun /\ ~TimedOut
    BY <1>1, <1>8 DEF PauseKept, Kept, TimedOut, Live
  <2>. QED
    BY <1>1, <1>2, <2>1 DEF ClosedRun, Final, Early, Past, InLoop, Ending
<1>. QED
  BY <1>4, <1>5, <1>6, <1>7, <1>8 DEF Kept

\* The Job controller counts a pod that has ended.
LEMMA CountKeeps ==
  ASSUME PauseKept, BackoffLimit = 0, NEW p \in Pods, CountPod(p)
  PROVE  Kept'
<1>1. /\ UNCHANGED <<run, runCache, jobCache, ckpt, post, minted, everDone>>
      /\ pc' = [pc EXCEPT ![p] = "None"] /\ mem' = [mem EXCEPT ![p] = NewStatus]
      /\ saving' = [saving EXCEPT ![p] = {}]
  BY DEF CountPod, runVars, reqVars, tokVars, histVars
<1>a. Snapshots /\ Callbacks /\ Failures /\ Deletions
  BY DEF PauseKept, Kept
<1>b. pc[p] \in {"Exit0", "Exit1"}
  BY <1>a DEF CountPod, Failures, Exited
<1>2. /\ \A o \in Pods : pc'[o] = "None" /\ saving[o] = {} /\ saving'[o] = {}
      /\ mem'[p] = NewStatus /\ \A o \in Pods \ {p} : mem'[o] = mem[o] /\ pc[o] = "None"
  BY <1>1, <1>a, <1>b, OthersIdle
     DEF PauseKept, TypeOK, Snapshots, Past, InLoop, Ending
<1>3. /\ job.cond = "Active" /\ ~job.deleting /\ ~(job.failed > 0)
      /\ jobCache.cond # "Complete"
  BY <1>a, <1>b DEF PauseKept, Supervised, PodsHaveActiveJob, FailedAtOnce, Deletions
<1>c. /\ job'.cond \in {"Complete", "Failed"} /\ ~job'.deleting
      /\ pc[p] = "Exit0" => job'.cond = "Complete" /\ ~(job'.failed > 0)
  <2>1. CASE pc[p] = "Exit0"
    BY <1>3, <2>1 DEF CountPod, PauseKept, TypeOK, Job, Supervised, NoOrphans
  <2>2. CASE pc[p] # "Exit0"
    <3>1. job.failed + 1 > BackoffLimit
      BY DEF PauseKept, TypeOK, Job
    <3>2. job' = [job EXCEPT !.failed = @ + 1, !.cond = "Failed",
                             !.reason = IF pc[p] = "Exit1" THEN "Error" ELSE reason[p]]
      BY <2>2, <3>1, Zenon DEF CountPod, PauseKept, Supervised, NoOrphans
    <3>. QED
      BY <1>3, <2>2, <3>2, Zenon DEF PauseKept, TypeOK, Job
  <2>. QED
    BY <2>1, <2>2
<1>4. Terminal' <=> Terminal
  BY <1>1 DEF Terminal
<1>5. Snapshots'
  BY <1>1, <1>2, <1>a DEF Snapshots, IsSnapshot
<1>6. Callbacks'
  <2>1. \A o \in Pods : mem'[o].cb \in {mem[o].cb, NilCallback}
    BY <1>2, ObjectFields
  <2>2. \A o \in Pods : Issued(mem[o].cb)'
    BY <1>1, <1>a, <2>1 DEF Callbacks, Issued, AcceptedFor
  <2>. QED
    BY <1>1, <1>a, <2>2 DEF Callbacks, Issued, AcceptedFor
<1>d. Failures' /\ Deletions'
  BY <1>1, <1>2, <1>3, <1>4, <1>a, <1>b, <1>c DEF Failures, Deletions, FailureSeen
<1>7. ASSUME ~Terminal PROVE OpenRun'
  <2>0. OpenRun
    BY <1>7 DEF PauseKept, Kept
  <2>1. StepsSaved'
    BY <1>1, <1>2, <1>b, <2>0 DEF OpenRun, StepsSaved, Covers, Ending
  <2>2. Held' /\ QuestionsSeen'
    BY <1>1, <1>2, <2>0 DEF OpenRun, Held, QuestionsSeen, Current, Unanswered, AcceptedFor,
       Live, Executing
  <2>3. AnswerKept'
    BY <1>1, <1>2, <2>0 DEF OpenRun, AnswerKept, Answer, Sole, Early
  <2>4. PhaseTold'
    <3>1. NoPast
      BY <1>2, <1>b DEF NoPast, Past, InLoop, Ending
    <3>. QED
      BY <1>1, <1>c, <2>0, <3>1 DEF OpenRun, PhaseTold, Armed
  <2>5. \A o \in Pods : Starting(o)' /\ Looping(o)'
    BY <1>2 DEF Starting, Looping, Early, InLoop, Ending
  <2>. QED
    BY <2>1, <2>2, <2>3, <2>4, <2>5 DEF OpenRun
<1>8. ASSUME Terminal PROVE ClosedRun'
  <2>1. ClosedRun
    BY <1>8 DEF PauseKept, Kept
  <2>2. TimedOut => TimedOut'
    BY <1>1, <1>2, <1>c DEF TimedOut, Unanswered, Live, Executing
  <2>. QED
    BY <1>1, <1>2, <2>1, <2>2 DEF ClosedRun, Final, Early, Past, InLoop, Ending
<1>. QED
  BY <1>4, <1>5, <1>6, <1>7, <1>8, <1>d DEF Kept

\* terminalStepCount of a snapshot counts its completed steps.
DoneIn(f) == {s \in Steps : f[s] = "Succeeded"}

LEMMA SnapshotCount ==
  ASSUME TypeOK, NEW f, IsSnapshot(f)
  PROVE  /\ DoneIn(f) \subseteq everDone /\ IsFiniteSet(everDone)
         /\ terminalStepCount(f) = Cardinality(DoneIn(f))
         /\ Covers(f) <=> DoneIn(f) = everDone
<1>1. IsFiniteSet(Steps)
  BY FS_Interval, ConstantsAssumption DEF Steps
<1>2. IsFiniteSet(everDone)
  BY <1>1, FS_Subset DEF TypeOK
<1>3. {s \in Steps : f[s] \in {"Succeeded", "Failed"}} = DoneIn(f)
  BY DEF IsSnapshot, DoneIn
<1>4. terminalStepCount(f) = Cardinality(DoneIn(f))
  BY <1>3, Zenon DEF terminalStepCount
<1>. QED
  BY <1>2, <1>4 DEF IsSnapshot, DoneIn, Covers, TypeOK

\* The write of a snapshot that misses nothing leaves a checkpoint that misses
\* nothing, and no write replaces one.
LEMMA WriteCovers ==
  ASSUME TypeOK, NEW f, NEW g, IsSnapshot(f), IsSnapshot(g), Covers(f) \/ Covers(g),
         NEW h, h = IF terminalStepCount(f) >= terminalStepCount(g) THEN f ELSE g
  PROVE  Covers(h)
<1>. DEFINE F == DoneIn(f)
            G == DoneIn(g)
<1>1. /\ F \subseteq everDone /\ G \subseteq everDone /\ IsFiniteSet(everDone)
      /\ terminalStepCount(f) = Cardinality(F) /\ terminalStepCount(g) = Cardinality(G)
      /\ Covers(f) <=> F = everDone
      /\ Covers(g) <=> G = everDone
  BY SnapshotCount
<1>. HIDE DEF F, G
<1>2. /\ Cardinality(F) \in Nat /\ Cardinality(G) \in Nat /\ Cardinality(everDone) \in Nat
      /\ Cardinality(F) <= Cardinality(everDone) /\ Cardinality(G) <= Cardinality(everDone)
      /\ Cardinality(F) = Cardinality(everDone) => F = everDone
      /\ Cardinality(G) = Cardinality(everDone) => G = everDone
  BY <1>1, FS_Subset, FS_CardinalityType
<1>3. CASE terminalStepCount(f) >= terminalStepCount(g)
  BY <1>1, <1>2, <1>3
<1>4. CASE ~(terminalStepCount(f) >= terminalStepCount(g))
  BY <1>1, <1>2, <1>4
<1>. QED
  BY <1>3, <1>4

LEMMA SaveKeeps ==
  ASSUME PauseKept, NEW p \in Pods, SaveCheckpoint(p)
  PROVE  Kept'
<1>1. UNCHANGED <<run, runCache, job, jobCache, pc, mem, post, minted, everDone>>
  BY DEF SaveCheckpoint, runVars, jobVars, reqVars, tokVars, histVars
<1>2. PICK snap \in saving[p] :
         /\ ckpt' = IF terminalStepCount(ckpt) >= terminalStepCount(snap) THEN ckpt ELSE snap
         /\ saving' = [saving EXCEPT ![p] = @ \ {snap}]
  BY DEF SaveCheckpoint
<1>3. saving'[p] = saving[p] \ {snap} /\ \A o \in Pods \ {p} : saving'[o] = saving[o]
  BY <1>2 DEF PauseKept, TypeOK
<1>a. Snapshots /\ Callbacks /\ Failures /\ Deletions
  BY DEF PauseKept, Kept
<1>b. IsSnapshot(ckpt) /\ IsSnapshot(snap)
  BY <1>a DEF Snapshots
<1>4. Terminal' <=> Terminal
  BY <1>1 DEF Terminal
<1>5. Snapshots'
  <2>1. ckpt' \in {ckpt, snap}
    BY <1>2
  <2>. QED
    BY <1>1, <1>3, <1>a, <1>b, <2>1 DEF Snapshots, IsSnapshot
<1>6. Callbacks' /\ Failures' /\ Deletions'
  BY <1>1, <1>4, <1>a DEF Callbacks, Issued, AcceptedFor, Failures, Deletions, FailureSeen
<1>7. ASSUME ~Terminal PROVE OpenRun'
  <2>0. OpenRun
    BY <1>7 DEF PauseKept, Kept
  <2>1. Covers(ckpt) \/ Covers(snap) => Covers(ckpt')
    BY <1>2, <1>b, WriteCovers DEF PauseKept
  <2>2. StepsSaved'
    BY <1>1, <1>3, <2>0, <2>1 DEF OpenRun, StepsSaved, Covers
  <2>3. Held' /\ AnswerKept' /\ QuestionsSeen'
    BY <1>1, <2>0 DEF OpenRun, Held, AnswerKept, Answer, Sole, QuestionsSeen, Current, Unanswered,
       AcceptedFor
  <2>4. PhaseTold'
    BY <1>1, <2>0 DEF OpenRun, PhaseTold, NoPast, NoPods, Armed
  <2>5. \A o \in Pods : Starting(o)' /\ Looping(o)'
    BY <1>1, <2>0 DEF OpenRun, Starting, Looping, Unanswered, Armed, Final
  <2>. QED
    BY <2>2, <2>3, <2>4, <2>5 DEF OpenRun
<1>8. ASSUME Terminal PROVE ClosedRun'
  <2>1. ClosedRun
    BY <1>8 DEF PauseKept, Kept
  <2>2. TimedOut => TimedOut'
    BY <1>1 DEF TimedOut, NoPods, Unanswered
  <2>. QED
    BY <1>1, <2>1, <2>2 DEF ClosedRun, Final
<1>. QED
  BY <1>4, <1>5, <1>6, <1>7, <1>8 DEF Kept

\* A snapshot without a completed step is nothing to miss.
LEMMA EmptySaveKeeps ==
  ASSUME PauseKept, NEW p \in Pods, SaveFails(p), lost' = {}
  PROVE  Kept'
<1>1. UNCHANGED <<run, runCache, job, jobCache, ckpt, pc, mem, post, minted, everDone>>
  BY DEF SaveFails, runVars, jobVars, reqVars, tokVars
<1>2. PICK snap \in saving[p] :
         /\ saving' = [saving EXCEPT ![p] = @ \ {snap}]
         /\ \A s \in Steps : snap[s] # "Succeeded"
  BY DEF SaveFails
<1>3. saving'[p] = saving[p] \ {snap} /\ \A o \in Pods \ {p} : saving'[o] = saving[o]
  BY <1>2 DEF PauseKept, TypeOK
<1>a. Snapshots /\ Callbacks /\ Failures /\ Deletions
  BY DEF PauseKept, Kept
<1>4. Terminal' <=> Terminal
  BY <1>1 DEF Terminal
<1>5. Snapshots'
  BY <1>1, <1>3, <1>a DEF Snapshots, IsSnapshot
<1>6. Callbacks' /\ Failures' /\ Deletions'
  BY <1>1, <1>4, <1>a DEF Callbacks, Issued, AcceptedFor, Failures, Deletions, FailureSeen
<1>7. ASSUME ~Terminal PROVE OpenRun'
  <2>0. OpenRun
    BY <1>7 DEF PauseKept, Kept
  <2>1. Covers(snap) => Covers(ckpt)
    BY <1>2 DEF Covers, PauseKept, TypeOK
  <2>2. StepsSaved'
    BY <1>1, <1>3, <2>0, <2>1 DEF OpenRun, StepsSaved, Covers
  <2>3. Held' /\ AnswerKept' /\ QuestionsSeen'
    BY <1>1, <2>0 DEF OpenRun, Held, AnswerKept, Answer, Sole, QuestionsSeen, Current, Unanswered,
       AcceptedFor
  <2>4. PhaseTold'
    BY <1>1, <2>0 DEF OpenRun, PhaseTold, NoPast, NoPods, Armed
  <2>5. \A o \in Pods : Starting(o)' /\ Looping(o)'
    BY <1>1, <2>0 DEF OpenRun, Starting, Looping, Unanswered, Armed, Final
  <2>. QED
    BY <2>2, <2>3, <2>4, <2>5 DEF OpenRun
<1>8. ASSUME Terminal PROVE ClosedRun'
  <2>1. ClosedRun
    BY <1>8 DEF PauseKept, Kept
  <2>2. TimedOut => TimedOut'
    BY <1>1 DEF TimedOut, NoPods, Unanswered
  <2>. QED
    BY <1>1, <2>1, <2>2 DEF ClosedRun, Final
<1>. QED
  BY <1>4, <1>5, <1>6, <1>7, <1>8 DEF Kept

\* A runner at work finds no unanswered question in an open run, and steps it
\* has nothing to do for in a terminal one.
LEMMA AtWork ==
  ASSUME PauseKept, NEW p \in Pods, pc[p] \in Live \ {"Pause"}
  PROVE  /\ ~Terminal => OpenRun /\ ~Unanswered(run.cb)
         /\ Terminal => Final(run)
         /\ Terminal /\ pc[p] \in Early \cup Past => mem[p].phase = run.phase /\ Final(mem[p])
<1>1. ~Terminal => OpenRun
  BY DEF PauseKept, Kept
<1>2. Terminal => ClosedRun
  BY DEF PauseKept, Kept
<1>3. ~Terminal => ~Unanswered(run.cb)
  BY <1>1 DEF OpenRun, Held
<1>. QED
  BY <1>1, <1>2, <1>3 DEF ClosedRun, TimedOut

LEMMA FinalIdle ==
  ASSUME NEW st \in Status, Final(st), NEW s \in Steps
  PROVE  st.steps[s] # "Running" /\ ~(ReadyStep(st, s) /\ st.steps[s] = "Pending")
<1>1. st.steps[s] # "Running"
  BY DEF Final
<1>2. ASSUME ReadyStep(st, s), st.steps[s] = "Pending" PROVE FALSE
  <2>1. PICK f \in Steps : st.steps[f] = "Failed" /\ \A t \in 1..(f - 1) : st.steps[t] = "Succeeded"
    BY <1>2 DEF Final
  <2>2. f <= s \/ s \in 1..(f - 1)
    BY ConstantsAssumption DEF Steps
  <2>3. f = s \/ f \in 1..(s - 1) \/ s \in 1..(f - 1)
    BY <2>2, ConstantsAssumption DEF Steps
  <2>. QED
    BY <1>2, <2>1, <2>3 DEF ReadyStep, isStepDone
<1>. QED
  BY <1>1, <1>2

\* What a step of a runner leaves alone.
LEMMA RunnerFrame ==
  ASSUME PauseKept, NEW p \in Pods, pc[p] # "None",
         NEW x \in Live \cup {"Exit0"}, pc' = [pc EXCEPT ![p] = x],
         NEW m \in Status, mem' = [mem EXCEPT ![p] = m],
         IsTerminal(run'.phase) <=> Terminal, Issued(run'.cb), Issued(m.cb),
         UNCHANGED <<runCache, job, jobCache, post, minted, everDone>>
  PROVE  /\ pc'[p] = x /\ mem'[p] = m
         /\ \A o \in Pods \ {p} : pc[o] = "None" /\ pc'[o] = "None" /\ saving[o] = {}
         /\ Terminal' <=> Terminal
         /\ Callbacks' /\ Failures' /\ Deletions' /\ ~NoPods' /\ ~NoPods
         /\ \A o \in Pods \ {p} : Starting(o)' /\ Looping(o)'
<1>1. pc'[p] = x /\ mem'[p] = m /\ \A o \in Pods \ {p} : mem'[o] = mem[o] /\ pc'[o] = pc[o]
  BY DEF PauseKept, TypeOK
<1>2. \A o \in Pods \ {p} : pc[o] = "None" /\ saving[o] = {}
  BY OthersIdle
<1>3. Terminal' <=> Terminal
  BY DEF Terminal
<1>a. Callbacks /\ Failures /\ Deletions
  BY DEF PauseKept, Kept
<1>b. \A c : Issued(c) => \/ c = NilCallback
                          \/ /\ c.tok \in 1..minted'
                             /\ c.step \in Gates /\ \A t \in 1..(c.step - 1) : t \in everDone'
                             /\ c.outputs # NoPost => AcceptedFor(c.tok)'
  BY DEF Issued, AcceptedFor
<1>4. Callbacks'
  <2>1. Issued(run.cb)'
    BY <1>b DEF Issued
  <2>2. \A o \in Pods : Issued(mem[o].cb)'
    BY <1>1, <1>a, <1>b DEF Issued, Callbacks
  <2>3. Issued(runCache.cb)' /\ \A q \in Posts : Issued(post[q].cb)'
    BY <1>a, <1>b DEF Issued, Callbacks
  <2>. QED
    BY <1>a, <2>1, <2>2, <2>3 DEF Callbacks
<1>5. Failures' /\ Deletions'
  BY <1>1, <1>2, <1>3, <1>a DEF Failures, Deletions, FailureSeen, Live, Executing
<1>6. ~NoPods' /\ ~NoPods
  BY <1>1 DEF NoPods, Live, Executing
<1>7. \A o \in Pods \ {p} : Starting(o)' /\ Looping(o)'
  BY <1>1, <1>2 DEF Starting, Looping, Early, InLoop, Ending
<1>. QED
  BY <1>1, <1>2, <1>3, <1>4, <1>5, <1>6, <1>7

\* Nobody asks for an answer while a runner is at work, so what it writes
\* leaves the questions seen alone.
LEMMA QuestionsKept ==
  ASSUME QuestionsSeen, ~Unanswered(run.cb), UNCHANGED <<runCache, post>>
  PROVE  QuestionsSeen'
BY DEF QuestionsSeen, Current, Unanswered, AcceptedFor

\* mustLoadWorkflowRun.
LEMMA LoadKeeps ==
  ASSUME PauseKept, NEW p \in Pods, Load(p)
  PROVE  Kept'
<1>1. /\ pc[p] = "Load" /\ pc' = [pc EXCEPT ![p] = "PersistRunning"]
      /\ mem' = [mem EXCEPT ![p] = run]
      /\ UNCHANGED <<run, runCache, job, jobCache, ckpt, saving, post, minted, everDone>>
  BY DEF Load, Goto, runVars, jobVars, reqVars, tokVars, histVars
<1>a. Snapshots /\ Callbacks
  BY DEF PauseKept, Kept
<1>b. /\ pc'[p] = "PersistRunning" /\ mem'[p] = run
      /\ \A o \in Pods \ {p} : pc[o] = "None" /\ pc'[o] = "None" /\ saving[o] = {}
      /\ Terminal' <=> Terminal
      /\ Callbacks' /\ Failures' /\ Deletions' /\ ~NoPods' /\ ~NoPods
      /\ \A o \in Pods \ {p} : Starting(o)' /\ Looping(o)'
  <2>1. Issued(run.cb) /\ run \in Status /\ "PersistRunning" \in Live /\ pc[p] # "None"
    BY <1>1, <1>a DEF Callbacks, PauseKept, TypeOK, Live, Executing
  <2>2. Issued(run'.cb) /\ (IsTerminal(run'.phase) <=> Terminal)
    BY <1>1, <2>1 DEF Terminal
  <2>. QED
    BY <1>1, <2>1, <2>2, RunnerFrame
<1>2. Snapshots'
  BY <1>1, <1>a, <1>b DEF Snapshots, IsSnapshot, Past, InLoop, Ending
<1>c. NoPast /\ NoPast'
  BY <1>1, <1>b DEF NoPast, Past, InLoop, Ending
<1>d. pc[p] \in Live \ {"Pause"}
  BY <1>1 DEF Live, Executing
<1>3. ASSUME ~Terminal PROVE OpenRun'
  <2>0. OpenRun /\ ~Unanswered(run.cb)
    BY <1>3, <1>d, AtWork
  <2>1. StepsSaved'
    BY <1>1, <1>b, <2>0 DEF OpenRun, StepsSaved, Covers, Ending
  <2>2. PhaseTold'
    BY <1>1, <1>b, <1>c, <2>0 DEF OpenRun, PhaseTold, Armed
  <2>3. Held' /\ QuestionsSeen'
    BY <1>1, <2>0, QuestionsKept DEF OpenRun, Held, Unanswered
  <2>4. AnswerKept'
    BY <1>1, <1>b, <2>0 DEF OpenRun, AnswerKept, Answer, Sole, Early
  <2>5. Starting(p)' /\ Looping(p)'
    BY <1>1, <1>3, <1>b, <1>c, <2>0
       DEF OpenRun, PhaseTold, Starting, Looping, Armed, Unanswered, Terminal, Early, InLoop, Ending
  <2>. QED
    BY <1>b, <2>1, <2>2, <2>3, <2>4, <2>5 DEF OpenRun
<1>4. ASSUME Terminal PROVE ClosedRun'
  <2>1. Final(run)
    BY <1>4, <1>d, AtWork
  <2>. QED
    BY <1>1, <1>b, <2>1 DEF ClosedRun, Final, Early, Past, InLoop, Ending
<1>. QED
  BY <1>2, <1>3, <1>4, <1>b DEF Kept

\* mustPersistRunningStatus: the phase and the slot are those of the run when
\* it was loaded; nothing changed them in a way that matters.
LEMMA PersistRunningKeeps ==
  ASSUME PauseKept, NEW p \in Pods, PersistRunning(p)
  PROVE  Kept'
<1>. DEFINE st == [mem[p] EXCEPT !.recorded = TRUE, !.attempts = 0]
<1>1. /\ pc[p] = "PersistRunning" /\ pc' = [pc EXCEPT ![p] = "Restore"]
      /\ mem' = [mem EXCEPT ![p] = st] /\ run' = st
      /\ UNCHANGED <<runCache, job, jobCache, ckpt, saving, post, minted, everDone>>
  BY DEF PersistRunning, StatusOverwrite, Goto, jobVars, reqVars, tokVars, histVars
<1>a. Snapshots /\ Callbacks
  BY DEF PauseKept, Kept
<1>d. pc[p] \in Live \ {"Pause"} /\ pc[p] \in Early
  BY <1>1 DEF Live, Executing, Early
<1>e. /\ st \in Status /\ st.phase = mem[p].phase /\ st.cb = mem[p].cb
      /\ st.steps = mem[p].steps /\ st.attempts = 0
  BY DEF PauseKept, TypeOK, Status
<1>. HIDE DEF st
<1>f. IsTerminal(st.phase) <=> Terminal
  <2>1. CASE Terminal
    BY <1>d, <1>e, <2>1, AtWork DEF Terminal
  <2>2. CASE ~Terminal
    BY <1>d, <1>e, <2>2, AtWork DEF OpenRun, Starting
  <2>. QED
    BY <2>1, <2>2
<1>b. /\ pc'[p] = "Restore" /\ mem'[p] = st
      /\ \A o \in Pods \ {p} : pc[o] = "None" /\ pc'[o] = "None" /\ saving[o] = {}
      /\ Terminal' <=> Terminal
      /\ Callbacks' /\ Failures' /\ Deletions' /\ ~NoPods' /\ ~NoPods
      /\ \A o \in Pods \ {p} : Starting(o)' /\ Looping(o)'
  <2>1. Issued(st.cb) /\ st \in Status /\ "Restore" \in Live /\ pc[p] # "None"
    BY <1>1, <1>a, <1>e DEF Callbacks, Live, Executing
  <2>2. Issued(run'.cb) /\ (IsTerminal(run'.phase) <=> Terminal)
    BY <1>1, <1>f, <2>1
  <2>. QED
    BY <1>1, <2>1, <2>2, RunnerFrame
<1>2. Snapshots'
  BY <1>1, <1>a, <1>b DEF Snapshots, IsSnapshot, Past, InLoop, Ending
<1>c. NoPast /\ NoPast'
  BY <1>1, <1>b DEF NoPast, Past, InLoop, Ending
<1>3. ASSUME ~Terminal PROVE OpenRun'
  <2>0. OpenRun /\ ~Unanswered(run.cb)
    BY <1>3, <1>d, AtWork
  <2>a. /\ st.steps = AllPending /\ ~IsTerminal(st.phase) /\ ~Unanswered(st.cb)
        /\ st.phase = "Running" <=> Armed
        /\ Armed => st.cb # NilCallback /\ run.phase = "Running"
    BY <1>d, <1>e, <2>0 DEF OpenRun, Starting
  <2>1. StepsSaved'
    BY <1>1, <1>b, <2>0 DEF OpenRun, StepsSaved, Covers, Ending
  <2>2. PhaseTold'
    BY <1>1, <1>b, <1>c, <2>0, <2>a DEF OpenRun, PhaseTold, Armed
  <2>3. Held' /\ QuestionsSeen'
    BY <1>1, <2>0, <2>a, QuestionsKept DEF OpenRun, Held, Unanswered
  <2>4. AnswerKept'
    <3>1. Answer(st.cb) => st.cb = run.cb
      BY <1>d, <1>e, <2>0 DEF OpenRun, AnswerKept
    <3>2. Answer(run.cb)' <=> Answer(st.cb)
      BY <1>1 DEF Answer, Sole
    <3>. QED
      BY <1>1, <1>b, <2>0, <3>1, <3>2 DEF OpenRun, AnswerKept, Early
  <2>5. Starting(p)' /\ Looping(p)'
    BY <1>1, <1>b, <2>a DEF Starting, Looping, Armed, Unanswered, Early, InLoop, Ending
  <2>. QED
    BY <1>b, <2>1, <2>2, <2>3, <2>4, <2>5 DEF OpenRun
<1>4. ASSUME Terminal PROVE ClosedRun'
  <2>1. Final(mem[p])
    BY <1>4, <1>d, AtWork
  <2>2. Final(st)
    BY <1>e, <2>1 DEF Final
  <2>. QED
    BY <1>1, <1>b, <1>e, <2>2 DEF ClosedRun, Final, Early, Past, InLoop, Ending
<1>. QED
  BY <1>2, <1>3, <1>4, <1>b DEF Kept

\* loadCheckpointIfNeeded: a run that has made progress is Running, no write
\* is under way, and the checkpoint holds every step that completed.
LEMMA RestoreKeeps ==
  ASSUME PauseKept, Checkpointing, NEW p \in Pods, Restore(p)
  PROVE  Kept'
<1>. DEFINE old == mem[p]
            restored == Checkpointing /\ isRestart(old) /\ ckpt # NoCheckpoint
            steps == IF restored THEN ckpt ELSE old.steps
            phase == IF old.phase \in {"", "Pending"} THEN "Running" ELSE old.phase
            m == [old EXCEPT !.steps = steps, !.phase = phase]
<1>1. /\ pc[p] = "Restore" /\ pc' = [pc EXCEPT ![p] = "Loop"]
      /\ UNCHANGED <<run, runCache, job, jobCache, ckpt, saving, post, minted, everDone>>
  BY DEF Restore, Goto, runVars, jobVars, reqVars, tokVars, histVars
<1>m. mem' = [mem EXCEPT ![p] = m]
  BY DEF Restore, PauseKept, TypeOK
<1>a. Snapshots /\ Callbacks
  BY DEF PauseKept, Kept
<1>d. pc[p] \in Live \ {"Pause"} /\ pc[p] \in Early
  BY <1>1 DEF Live, Executing, Early
<1>e. m \in Status /\ m.phase = phase /\ m.cb = old.cb /\ m.steps = steps
  BY DEF PauseKept, TypeOK, Status, RunPhases
<1>f. ASSUME ~Terminal
      PROVE  /\ \A s \in Steps : /\ steps[s] \in {"Pending", "Succeeded"}
                                 /\ steps[s] = "Succeeded" <=> s \in everDone
             /\ OpenRun /\ NoPast
  <2>0. OpenRun
    BY <1>f, <1>d, AtWork
  <2>1. saving[p] = {} /\ \A o \in Pods \ {p} : pc[o] = "None" /\ saving[o] = {}
    BY <1>1, <1>a, OthersIdle DEF Snapshots, Past, InLoop, Ending
  <2>2. Covers(ckpt)
    BY <1>1, <2>0, <2>1 DEF OpenRun, StepsSaved, Ending
  <2>3. NoPast
    BY <1>1, <2>1 DEF NoPast, Past, InLoop, Ending
  <2>4. old.steps = AllPending
    BY <1>d, <2>0 DEF OpenRun, Starting
  <2>5. ASSUME ~restored PROVE everDone = {}
    <3>. SUFFICES ASSUME NEW s \in everDone PROVE FALSE
      OBVIOUS
    <3>1. old.phase = "Running"
      BY <1>d, <2>0, <2>3 DEF OpenRun, Starting, PhaseTold
    <3>2. ckpt # NoCheckpoint
      BY <2>2, ObjectFields DEF Covers, NoCheckpoint, PauseKept, TypeOK
    <3>. QED
      BY <2>5, <3>1, <3>2 DEF isRestart
  <2>6. CASE restored
    BY <1>a, <2>0, <2>2, <2>3, <2>6 DEF Snapshots, IsSnapshot, Covers
  <2>7. CASE ~restored
    BY <2>0, <2>3, <2>4, <2>5, <2>7, ObjectFields
  <2>. QED
    BY <2>6, <2>7
<1>g. ASSUME Terminal PROVE steps = old.steps /\ phase = old.phase
  <2>1. old.phase = run.phase /\ old.attempts = 0
    BY <1>1, <1>g, <1>d DEF PauseKept, Kept, ClosedRun, Early
  <2>2. ~isRestart(old)
    BY <1>g, <2>1 DEF isRestart, Terminal, IsTerminal
  <2>. QED
    BY <1>g, <2>1, <2>2 DEF Terminal, IsTerminal
<1>. HIDE DEF m, steps, phase, restored
<1>b. /\ pc'[p] = "Loop" /\ mem'[p] = m
      /\ \A o \in Pods \ {p} : pc[o] = "None" /\ pc'[o] = "None" /\ saving[o] = {}
      /\ Terminal' <=> Terminal
      /\ Callbacks' /\ Failures' /\ Deletions' /\ ~NoPods' /\ ~NoPods
      /\ \A o \in Pods \ {p} : Starting(o)' /\ Looping(o)'
  <2>1. Issued(m.cb) /\ Issued(run.cb) /\ "Loop" \in Live /\ pc[p] # "None"
    BY <1>1, <1>a, <1>e DEF Callbacks, Live, Executing
  <2>2. Issued(run'.cb) /\ (IsTerminal(run'.phase) <=> Terminal)
    BY <1>1, <2>1 DEF Terminal
  <2>. QED
    BY <1>1, <1>e, <1>m, <2>1, <2>2, RunnerFrame
<1>2. Snapshots'
  BY <1>1, <1>a, <1>b DEF Snapshots, IsSnapshot, Past, InLoop, Ending
<1>c. ~NoPast'
  BY <1>b DEF NoPast, Past, InLoop, Ending
<1>3. ASSUME ~Terminal PROVE OpenRun'
  <2>0. OpenRun /\ ~Unanswered(run.cb)
    BY <1>3, <1>d, AtWork
  <2>a. ~Unanswered(m.cb) /\ (Armed => m.cb # NilCallback)
    BY <1>d, <1>e, <2>0 DEF OpenRun, Starting
  <2>b. m.cb # NilCallback => Armed
    BY <1>a, <1>e DEF Callbacks, Issued, Armed, PauseKept, TypeOK
  <2>1. StepsSaved'
    BY <1>1, <1>b, <2>0 DEF OpenRun, StepsSaved, Covers, Ending
  <2>2. PhaseTold'
    BY <1>1, <1>b, <1>c, <2>0 DEF OpenRun, PhaseTold, Armed
  <2>3. Held' /\ QuestionsSeen'
    BY <1>1, <2>0, QuestionsKept DEF OpenRun, Held, Unanswered
  <2>4. AnswerKept'
    BY <1>1, <1>b, <1>e, <2>0 DEF OpenRun, AnswerKept, Answer, Sole, Early
  <2>5. Starting(p)'
    BY <1>1, <1>b, <2>a DEF Starting, Armed, Unanswered, Early, InLoop
  <2>6. Looping(p)'
    <3>1. m.cb # NilCallback => run.cb # NilCallback
      BY <1>3, <1>f, <2>b DEF OpenRun, PhaseTold
    <3>2. \A s \in Steps : /\ mem'[p].steps[s] \in {"Pending", "Succeeded"}
                           /\ mem'[p].steps[s] = "Succeeded" <=> s \in everDone'
      BY <1>1, <1>3, <1>b, <1>e, <1>f
    <3>3. /\ mem'[p].cb # NilCallback => run'.cb # NilCallback
          /\ Armed' => mem'[p].cb # NilCallback
      BY <1>1, <1>b, <2>a, <3>1 DEF Armed
    <3>4. \A s \in Steps : /\ mem'[p].steps[s] \in {"Pending", "Running", "Succeeded"}
                           /\ mem'[p].steps[s] # "Running"
      BY <3>2
    <3>5. pc'[p] \notin Ending
      BY <1>b DEF Ending
    <3>. QED
      BY <3>2, <3>3, <3>4, <3>5, Zenon DEF Looping
  <2>. QED
    BY <1>b, <2>1, <2>2, <2>3, <2>4, <2>5, <2>6 DEF OpenRun
<1>4. ASSUME Terminal PROVE ClosedRun'
  <2>1. Final(run) /\ Final(mem[p]) /\ mem[p].phase = run.phase
    BY <1>4, <1>d, AtWork
  <2>2. Final(m) /\ m.phase = run.phase
    BY <1>4, <1>e, <1>g, <2>1 DEF Final
  <2>. QED
    BY <1>1, <1>b, <2>1, <2>2 DEF ClosedRun, Final, Early, Past, InLoop, Ending
<1>. QED
  BY <1>2, <1>3, <1>4, <1>b DEF Kept

\* A runner in the loop moves on without touching the run: to another step,
\* to a pause that leaves a question behind, or to the end of a run that is,
\* or is about to become, terminal.
LEMMA MoveKeeps ==
  ASSUME PauseKept, NEW p \in Pods, pc[p] \in InLoop,
         NEW x \in InLoop \cup {"CleanupOk", "CleanupErr", "Pause"},
         pc' = [pc EXCEPT ![p] = x],
         NEW m \in Status, mem' = [mem EXCEPT ![p] = m], Issued(m.cb),
         UNCHANGED <<run, runCache, job, jobCache, ckpt, saving, post, minted, everDone>>,
         ~Terminal /\ x = "Pause" => Armed /\ run.cb # NilCallback,
         ~Terminal /\ x # "Pause" => ~Answer(run.cb),
         ~Terminal /\ x \in InLoop => ~Unanswered(m.cb),
         pc'[p] = x /\ mem'[p] = m /\ ~Terminal => Looping(p)',
         Terminal => m.phase = run.phase /\ Final(m)
  PROVE  Kept'
<1>1. /\ pc[p] \in Live \ {"Pause"} /\ pc[p] # "None" /\ x \in Live
      /\ x \notin {"PersistOk", "PersistErr"} /\ x \notin Early \cup {"Waiting", "Load"}
  BY DEF InLoop, Live, Executing, Early
<1>a. Snapshots /\ Callbacks
  BY DEF PauseKept, Kept
<1>b. /\ pc'[p] = x /\ mem'[p] = m
      /\ \A o \in Pods \ {p} : pc[o] = "None" /\ pc'[o] = "None" /\ saving[o] = {}
      /\ Terminal' <=> Terminal
      /\ Callbacks' /\ Failures' /\ Deletions' /\ ~NoPods' /\ ~NoPods
      /\ \A o \in Pods \ {p} : Starting(o)' /\ Looping(o)'
  <2>1. Issued(run'.cb) /\ (IsTerminal(run'.phase) <=> Terminal)
    BY <1>a DEF Callbacks, Terminal
  <2>. QED
    BY <1>1, <2>1, RunnerFrame
<1>2. Snapshots'
  BY <1>1, <1>a, <1>b DEF Snapshots, IsSnapshot, Past, InLoop, Ending
<1>c. x # "Pause" => ~NoPast'
  BY <1>b DEF NoPast, Past, InLoop, Ending
<1>3. ASSUME ~Terminal PROVE OpenRun'
  <2>0. OpenRun /\ ~Unanswered(run.cb)
    BY <1>1, <1>3, AtWork
  <2>1. StepsSaved'
    <3>1. \A o \in Pods : pc[o] \notin Ending
      BY <1>b DEF InLoop, Ending
    <3>. QED
      BY <1>b, <2>0, <3>1 DEF OpenRun, StepsSaved, Covers
  <2>2. PhaseTold'
    BY <1>3, <1>b, <1>c, <2>0 DEF OpenRun, PhaseTold, Armed
  <2>3. Held' /\ QuestionsSeen'
    BY <2>0, QuestionsKept DEF OpenRun, Held, Unanswered
  <2>4. AnswerKept'
    <3>1. Answer(run.cb)' => Answer(run.cb)
      BY DEF Answer, Sole
    <3>2. \A o \in Pods : pc'[o] \notin Early
      BY <1>1, <1>b DEF Early
    <3>. QED
      BY <1>3, <1>b, <2>0, <3>1, <3>2 DEF OpenRun, AnswerKept
  <2>5. Starting(p)' /\ Looping(p)'
    BY <1>1, <1>3, <1>b DEF Starting, Unanswered, Early
  <2>. QED
    BY <1>b, <2>1, <2>2, <2>3, <2>4, <2>5 DEF OpenRun
<1>4. ASSUME Terminal PROVE ClosedRun'
  <2>1. Final(run)
    BY <1>1, <1>4, AtWork
  <2>. QED
    BY <1>1, <1>4, <1>b, <2>1 DEF ClosedRun, Final, Early, Past, InLoop, Ending
<1>. QED
  BY <1>2, <1>3, <1>4, <1>b DEF Kept

\* The ready step of a loop in an open run.
LEMMA Ready ==
  ASSUME PauseKept, ~Terminal, NEW p \in Pods, pc[p] = "Loop",
         NEW s \in Steps, ReadyStep(mem[p], s)
  PROVE  /\ mem[p].steps[s] = "Pending" /\ s \notin everDone
         /\ \A t \in 1..(s - 1) : t \in everDone /\ t \in Steps
         /\ \A t \in Steps : t <= s \/ s \in 1..(t - 1)
<1>1. Looping(p) /\ pc[p] \in InLoop
  BY DEF PauseKept, Kept, OpenRun, InLoop
<1>2. mem[p].steps[s] = "Pending" /\ s \notin everDone
  BY <1>1 DEF Looping, ReadyStep, isStepDone
<1>3. \A t \in 1..(s - 1) : t \in Steps
  BY ConstantsAssumption DEF Steps
<1>4. \A t \in 1..(s - 1) : t \in everDone
  BY <1>1, <1>3 DEF Looping, ReadyStep, isStepDone
<1>5. \A t \in Steps : t <= s \/ s \in 1..(t - 1)
  BY ConstantsAssumption DEF Steps
<1>. QED
  BY <1>2, <1>3, <1>4, <1>5

\* The running step of an open run.
LEMMA Busy ==
  ASSUME PauseKept, ~Terminal, NEW p \in Pods, pc[p] \in InLoop,
         NEW s \in Steps, mem[p].steps[s] = "Running"
  PROVE  /\ s \notin everDone /\ \A t \in 1..(s - 1) : mem[p].steps[t] = "Succeeded"
         /\ \A t \in Steps \ {s} : mem[p].steps[t] \in {"Pending", "Succeeded"}
<1>1. Looping(p)
  BY DEF PauseKept, Kept, OpenRun
<1>2. \A t \in Steps : mem[p].steps[t] = "Running" => \A u \in 1..(t - 1) : u \in everDone
  BY <1>1 DEF Looping
<1>3. \A t \in Steps : mem[p].steps[t] = "Running" => t \notin everDone
  BY <1>1 DEF Looping
<1>4. \A t \in Steps \ {s} : s \in 1..(t - 1) \/ t \in 1..(s - 1)
  BY ConstantsAssumption DEF Steps
<1>5. \A t \in 1..(s - 1) : t \in Steps
  BY ConstantsAssumption DEF Steps
<1>6. \A t \in Steps \ {s} : mem[p].steps[t] # "Running"
  BY <1>2, <1>3, <1>4
<1>7. \A t \in Steps : mem[p].steps[t] \in {"Pending", "Running", "Succeeded"}
  BY <1>1 DEF Looping
<1>8. \A t \in 1..(s - 1) : mem[p].steps[t] = "Succeeded"
  BY <1>1, <1>2, <1>5 DEF Looping
<1>. QED
  BY <1>3, <1>6, <1>7, <1>8

\* A status with the phase of one step changed.
LEMMA StepSet ==
  ASSUME NEW st \in Status, NEW s \in Steps, NEW v \in StepPhases,
         NEW m, m = [st EXCEPT !.steps[s] = v]
  PROVE  /\ m \in Status /\ m.phase = st.phase /\ m.cb = st.cb /\ m.attempts = st.attempts
         /\ m.recorded = st.recorded
         /\ m.steps[s] = v /\ \A t \in Steps \ {s} : m.steps[t] = st.steps[t]
BY DEF Status, StepStatuses

LEMMA AllDoneKeeps ==
  ASSUME PauseKept, NEW p \in Pods, AllDone(p)
  PROVE  Kept'
<1>. DEFINE m == [mem[p] EXCEPT !.phase = "Succeeded"]
<1>1. /\ pc[p] = "Loop" /\ pc' = [pc EXCEPT ![p] = "CleanupOk"]
      /\ UNCHANGED <<run, runCache, job, jobCache, ckpt, saving, post, minted, everDone>>
      /\ \A s \in Steps : mem[p].steps[s] = "Succeeded"
  BY DEF AllDone, Goto, isStepDone, runVars, jobVars, reqVars, tokVars, histVars
<1>2. mem' = [mem EXCEPT ![p] = m]
  BY DEF AllDone, PauseKept, TypeOK
<1>3. m \in Status /\ m.phase = "Succeeded" /\ m.cb = mem[p].cb /\ m.steps = mem[p].steps
  BY DEF PauseKept, TypeOK, Status, RunPhases
<1>. HIDE DEF m
<1>4. Issued(m.cb) /\ Final(m)
  BY <1>1, <1>3 DEF PauseKept, Kept, Callbacks, Final
<1>5. ASSUME ~Terminal PROVE ~Answer(run.cb)
  <2>1. OpenRun /\ Issued(run.cb) /\ pc[p] \in InLoop
    BY <1>1, <1>5 DEF PauseKept, Kept, Callbacks, InLoop
  <2>2. \A s \in Steps : s \in everDone
    BY <1>1, <2>1 DEF OpenRun, Looping
  <2>3. Answer(run.cb) => run.cb.step \in Steps /\ run.cb.step \notin everDone
    BY <2>1, ConstantsAssumption DEF OpenRun, AnswerKept, Answer, Issued
  <2>. QED
    BY <2>2, <2>3
<1>6. Terminal => m.phase = run.phase
  <2>1. pc[p] \in Live \ {"Pause"} /\ pc[p] \in Early \cup Past
    BY <1>1 DEF Live, Executing, Past, InLoop
  <2>2. Terminal => Final(mem[p]) /\ mem[p].phase = run.phase
    BY <2>1, AtWork
  <2>. QED
    BY <1>1, <1>3, <2>2 DEF Final
<1>7. pc'[p] = "CleanupOk" /\ mem'[p] = m => Looping(p)'
  BY <1>4 DEF Looping, InLoop, Final
<1>8. pc[p] \in InLoop /\ "CleanupOk" \notin InLoop
  BY <1>1 DEF InLoop
<1>. QED
  BY <1>1, <1>2, <1>3, <1>4, <1>5, <1>6, <1>7, <1>8, MoveKeeps

\* The loop finds nothing to execute only in a run that is terminal already.
LEMMA NothingKeeps ==
  ASSUME PauseKept, NEW p \in Pods, NothingExecuted(p)
  PROVE  Kept'
<1>1. /\ pc[p] = "Loop" /\ pc' = [pc EXCEPT ![p] = "CleanupOk"]
      /\ UNCHANGED <<run, runCache, job, jobCache, ckpt, mem, saving, post, minted, everDone>>
      /\ \E s \in Steps : ReadyStep(mem[p], s) /\ mem[p].steps[s] # "Pending"
  BY DEF NothingExecuted, Goto, runVars, jobVars, reqVars, tokVars, histVars
<1>2. mem' = [mem EXCEPT ![p] = mem[p]] /\ mem[p] \in Status
  BY <1>1 DEF PauseKept, TypeOK
<1>3. Terminal
  BY <1>1, Ready
<1>4. pc[p] \in Live \ {"Pause"} /\ pc[p] \in Early \cup Past /\ pc[p] \in InLoop
  BY <1>1 DEF Live, Executing, Past, InLoop
<1>5. Final(mem[p]) /\ mem[p].phase = run.phase /\ Issued(mem[p].cb)
  BY <1>3, <1>4, AtWork DEF PauseKept, Kept, Callbacks
<1>. QED
  BY <1>1, <1>2, <1>3, <1>4, <1>5, MoveKeeps

LEMMA StartKeeps ==
  ASSUME PauseKept, NEW p \in Pods, NEW s \in Steps, StartStep(p, s)
  PROVE  Kept'
<1>. DEFINE m == [mem[p] EXCEPT !.steps[s] = "Running"]
<1>1. /\ pc[p] = "Loop" /\ pc' = [pc EXCEPT ![p] = "InStep"]
      /\ UNCHANGED <<run, runCache, job, jobCache, ckpt, saving, post, minted, everDone>>
      /\ ReadyStep(mem[p], s) /\ mem[p].steps[s] = "Pending" /\ s \notin Gates
  BY DEF StartStep, Goto, runVars, jobVars, reqVars, tokVars, histVars
<1>2. mem' = [mem EXCEPT ![p] = m] /\ mem[p] \in Status
  BY DEF StartStep, PauseKept, TypeOK
<1>3. /\ m \in Status /\ m.cb = mem[p].cb /\ m.steps[s] = "Running"
      /\ \A t \in Steps \ {s} : m.steps[t] = mem[p].steps[t]
  BY <1>2, StepSet DEF StepPhases
<1>. HIDE DEF m
<1>4. pc[p] \in Live \ {"Pause"} /\ pc[p] \in Early \cup Past /\ pc[p] \in InLoop
  BY <1>1 DEF Live, Executing, Past, InLoop
<1>5. ~Terminal /\ Issued(m.cb)
  BY <1>1, <1>2, <1>3, <1>4, AtWork, FinalIdle DEF PauseKept, Kept, Callbacks
<1>6. /\ s \notin everDone /\ \A t \in 1..(s - 1) : t \in everDone
      /\ \A t \in Steps : t <= s \/ s \in 1..(t - 1)
  BY <1>1, <1>5, Ready
<1>7. OpenRun /\ Issued(run.cb)
  BY <1>5 DEF PauseKept, Kept, Callbacks
<1>8. ~Answer(run.cb)
  <2>. SUFFICES ASSUME Answer(run.cb) PROVE FALSE
    OBVIOUS
  <2>1. /\ run.cb.step \in Gates /\ run.cb.step \notin everDone
        /\ \A t \in 1..(run.cb.step - 1) : t \in everDone
    BY <1>7 DEF OpenRun, AnswerKept, Answer, Issued
  <2>2. run.cb.step \in Steps /\ run.cb.step # s
    BY <1>1, <2>1, ConstantsAssumption
  <2>3. run.cb.step \in 1..(s - 1) \/ s \in 1..(run.cb.step - 1)
    BY <1>6, <2>2, ConstantsAssumption DEF Steps
  <2>. QED
    BY <1>6, <2>1, <2>3
<1>9. ~Unanswered(m.cb)
  BY <1>3, <1>4, <1>7 DEF OpenRun, Starting
<1>10. ASSUME pc'[p] = "InStep", mem'[p] = m PROVE Looping(p)'
  <2>0. Looping(p)
    BY <1>7 DEF OpenRun
  <2>1. \A t \in Steps : /\ m.steps[t] \in {"Pending", "Running", "Succeeded"}
                         /\ m.steps[t] = "Succeeded" <=> t \in everDone
    BY <1>3, <1>4, <1>6, <2>0 DEF Looping
  <2>2. \A t \in Steps : m.steps[t] = "Running" => t = s
    BY <1>1, <1>3, <1>4, <2>0 DEF Looping
  <2>3. m.cb # NilCallback => run.cb # NilCallback
    BY <1>3, <1>4, <2>0 DEF Looping
  <2>4. Armed /\ m.cb = NilCallback => \A g \in Gates \ ContinueGates : m.steps[g] # "Pending"
    <3>1. \A g \in Gates : g \in Steps \ {s}
      BY <1>1, ConstantsAssumption
    <3>. QED
      BY <1>3, <1>4, <2>0, <3>1 DEF Looping
  <2>5. pc'[p] \notin Ending /\ pc'[p] # "Loop" /\ (Armed' <=> Armed)
    BY <1>1, <1>10 DEF Ending, Armed
  <2>. QED
    BY <1>1, <1>6, <1>10, <2>1, <2>2, <2>3, <2>4, <2>5 DEF Looping
<1>11. "InStep" \in InLoop /\ "InStep" # "Pause"
  BY DEF InLoop
<1>. QED
  BY <1>1, <1>2, <1>3, <1>4, <1>5, <1>8, <1>9, <1>10, <1>11, MoveKeeps

\* The step that fails has every earlier step behind it.
LEMMA FailKeeps ==
  ASSUME PauseKept, NEW p \in Pods, NEW s \in Steps, FailStep(p, s)
  PROVE  Kept'
<1>. DEFINE st == [mem[p] EXCEPT !.steps[s] = "Failed"]
            m == [st EXCEPT !.phase = "Failed"]
<1>1. /\ pc[p] = "InStep" /\ pc' = [pc EXCEPT ![p] = "CleanupErr"]
      /\ UNCHANGED <<run, runCache, job, jobCache, ckpt, saving, post, minted, everDone>>
      /\ mem[p].steps[s] = "Running"
  BY DEF FailStep, Goto, runVars, jobVars, reqVars, tokVars, histVars
<1>2. mem' = [mem EXCEPT ![p] = m] /\ mem[p] \in Status
  BY DEF FailStep, PauseKept, TypeOK
<1>3. /\ st \in Status /\ st.cb = mem[p].cb /\ st.steps[s] = "Failed"
      /\ \A t \in Steps \ {s} : st.steps[t] = mem[p].steps[t]
  BY <1>2, StepSet DEF StepPhases
<1>. HIDE DEF st
<1>4. m \in Status /\ m.phase = "Failed" /\ m.cb = st.cb /\ m.steps = st.steps
  BY <1>3 DEF Status, RunPhases
<1>. HIDE DEF m
<1>5. pc[p] \in Live \ {"Pause"} /\ pc[p] \in Early \cup Past /\ pc[p] \in InLoop
  BY <1>1 DEF Live, Executing, Past, InLoop
<1>6. ~Terminal /\ Issued(m.cb)
  BY <1>1, <1>2, <1>3, <1>4, <1>5, AtWork, FinalIdle DEF PauseKept, Kept, Callbacks
<1>7. Final(m)
  <2>1. /\ \A t \in 1..(s - 1) : mem[p].steps[t] = "Succeeded"
        /\ \A t \in Steps \ {s} : mem[p].steps[t] # "Running"
    BY <1>1, <1>5, <1>6, Busy
  <2>2. \A t \in 1..(s - 1) : t \in Steps \ {s}
    BY ConstantsAssumption DEF Steps
  <2>. QED
    BY <1>3, <1>4, <2>1, <2>2 DEF Final
<1>8. ~Answer(run.cb)
  BY <1>1, <1>6 DEF PauseKept, Kept, OpenRun, AnswerKept, Early
<1>9. pc'[p] = "CleanupErr" /\ mem'[p] = m => Looping(p)'
  BY <1>7 DEF Looping, InLoop, Final
<1>10. "CleanupErr" \notin InLoop
  BY DEF InLoop
<1>. QED
  BY <1>1, <1>2, <1>4, <1>5, <1>6, <1>8, <1>9, <1>10, MoveKeeps

\* A gate whose question stands pauses again; its slot is not empty.
LEMMA RepauseKeeps ==
  ASSUME PauseKept, NEW p \in Pods, NEW s \in Steps, GateRepause(p, s)
  PROVE  Kept'
<1>. DEFINE m == [mem[p] EXCEPT !.steps[s] = "Waiting"]
<1>1. /\ pc[p] = "Loop" /\ pc' = [pc EXCEPT ![p] = "Pause"]
      /\ UNCHANGED <<run, runCache, job, jobCache, ckpt, saving, post, minted, everDone>>
      /\ ReadyStep(mem[p], s) /\ mem[p].steps[s] = "Pending" /\ mem[p].cb # NilCallback
  BY DEF GateRepause, AtGate, ownCallback, runVars, jobVars, reqVars, tokVars, histVars
<1>2. mem' = [mem EXCEPT ![p] = m] /\ mem[p] \in Status
  BY DEF GateRepause, PauseKept, TypeOK
<1>3. m \in Status /\ m.cb = mem[p].cb
  BY <1>2, StepSet DEF StepPhases
<1>. HIDE DEF m
<1>4. pc[p] \in Live \ {"Pause"} /\ pc[p] \in Early \cup Past /\ pc[p] \in InLoop
  BY <1>1 DEF Live, Executing, Past, InLoop
<1>5. ~Terminal /\ Issued(m.cb)
  BY <1>1, <1>2, <1>3, <1>4, AtWork, FinalIdle DEF PauseKept, Kept, Callbacks
<1>6. Armed
  BY <1>1, <1>3, <1>5 DEF Issued, Armed, PauseKept, TypeOK
<1>7. run.cb # NilCallback
  BY <1>1, <1>4, <1>5 DEF PauseKept, Kept, OpenRun, Looping
<1>8. pc'[p] = "Pause" => Looping(p)'
  BY DEF Looping, InLoop, Ending
<1>9. "Pause" \notin InLoop
  BY DEF InLoop
<1>. QED
  BY <1>1, <1>2, <1>3, <1>4, <1>5, <1>6, <1>7, <1>8, <1>9, MoveKeeps

\* The gate is passed: with the answer, or without one if its policy says so.
\* After that no gate under policy Fail is left.
LEMMA PassKeeps ==
  ASSUME PauseKept, FailGatesFirst, NEW p \in Pods, NEW s \in Steps,
         GateConsume(p, s) \/ GateTimeout(p, s)
  PROVE  Kept'
<1>. DEFINE st == [mem[p] EXCEPT !.steps[s] = "Running"]
            m == [st EXCEPT !.cb = NilCallback]
<1>1. /\ pc[p] = "Loop" /\ s \in Gates
      /\ UNCHANGED <<runCache, job, jobCache, ckpt, saving, post, minted, everDone>>
      /\ run' = [run EXCEPT !.cb = NilCallback]
      /\ ReadyStep(mem[p], s) /\ mem[p].steps[s] = "Pending"
      /\ mem[p].cb # NilCallback /\ mem[p].cb.step = s
  BY DEF GateConsume, GateTimeout, clearPendingCallback, StatusOverwrite, AtGate, ownCallback,
       jobVars, reqVars, tokVars, histVars
<1>2. mem[p] \in Status
  BY DEF PauseKept, TypeOK
<1>3. /\ st \in Status /\ st.steps[s] = "Running"
      /\ \A t \in Steps \ {s} : st.steps[t] = mem[p].steps[t]
  BY <1>2, StepSet DEF StepPhases
<1>4. m \in Status /\ m.cb = NilCallback /\ m.steps = st.steps
  <2>1. NilCallback \in CallbackState
    BY DEF NilCallback, CallbackState
  <2>. QED
    BY <1>3, <2>1 DEF Status
<1>5. pc[p] \in Live \ {"Pause"} /\ pc[p] \in Early \cup Past /\ pc[p] \in InLoop
  BY <1>1 DEF Live, Executing, Past, InLoop
<1>6. ~Terminal
  BY <1>1, <1>2, <1>5, AtWork, FinalIdle
<1>7. OpenRun /\ ~Unanswered(run.cb) /\ ~Unanswered(mem[p].cb)
  BY <1>5, <1>6, AtWork DEF OpenRun, Starting
<1>8. pc' = [pc EXCEPT ![p] = "GateDone"]
      /\ mem' = [mem EXCEPT ![p].cb = NilCallback, ![p].steps[s] = "Running"]
  <2>1. CASE GateConsume(p, s)
    BY <2>1 DEF GateConsume
  <2>2. CASE GateTimeout(p, s)
    BY <1>1, <1>7, <2>2 DEF GateTimeout, Unanswered
  <2>. QED
    BY <2>1, <2>2
<1>9. mem' = [mem EXCEPT ![p] = m]
  BY <1>8 DEF PauseKept, TypeOK
<1>. HIDE DEF m, st
<1>a. Snapshots /\ Callbacks
  BY DEF PauseKept, Kept
<1>10. run'.phase = run.phase /\ run'.cb = NilCallback /\ run'.steps = run.steps
  BY <1>1 DEF PauseKept, TypeOK, Status
<1>b. /\ pc'[p] = "GateDone" /\ mem'[p] = m
      /\ \A o \in Pods \ {p} : pc[o] = "None" /\ pc'[o] = "None" /\ saving[o] = {}
      /\ Terminal' <=> Terminal
      /\ Callbacks' /\ Failures' /\ Deletions' /\ ~NoPods' /\ ~NoPods
      /\ \A o \in Pods \ {p} : Starting(o)' /\ Looping(o)'
  <2>1. Issued(m.cb) /\ Issued(run'.cb) /\ "GateDone" \in Live /\ pc[p] # "None"
    BY <1>1, <1>4, <1>10 DEF Issued, Live, Executing
  <2>2. IsTerminal(run'.phase) <=> Terminal
    BY <1>10 DEF Terminal
  <2>. QED
    BY <1>1, <1>4, <1>8, <1>9, <2>1, <2>2, RunnerFrame
<1>11. Snapshots'
  BY <1>1, <1>5, <1>a, <1>b DEF Snapshots, IsSnapshot, Past, InLoop, Ending
<1>12. OpenRun'
  <2>1. StepsSaved'
    <3>1. \A o \in Pods : pc[o] \notin Ending
      BY <1>1, <1>b DEF Ending
    <3>. QED
      BY <1>1, <1>b, <1>7, <3>1 DEF OpenRun, StepsSaved, Covers
  <2>2. PhaseTold'
    <3>1. ~NoPast'
      BY <1>b DEF NoPast, Past, InLoop
    <3>. QED
      BY <1>1, <1>10, <1>b, <1>7, <3>1 DEF OpenRun, PhaseTold, Armed
  <2>3. Held' /\ QuestionsSeen'
    BY <1>1, <1>7, <1>10, QuestionsKept DEF OpenRun, Held, Unanswered
  <2>4. AnswerKept'
    BY <1>10, <1>b DEF AnswerKept, Answer, Early
  <2>5. Starting(p)'
    BY <1>4, <1>b DEF Starting, Unanswered, Early
  <2>6. Looping(p)'
    <3>0. Looping(p)
      BY <1>7 DEF OpenRun
    <3>a. /\ s \notin everDone /\ \A t \in 1..(s - 1) : t \in everDone
      BY <1>1, <1>6, Ready
    <3>1. \A t \in Steps : /\ m.steps[t] \in {"Pending", "Running", "Succeeded"}
                           /\ m.steps[t] = "Succeeded" <=> t \in everDone
      BY <1>3, <1>4, <1>5, <3>a, <3>0 DEF Looping
    <3>2. \A t \in Steps : m.steps[t] = "Running" => t = s
      BY <1>1, <1>3, <1>4, <1>5, <3>0 DEF Looping
    <3>3. \A g \in Gates \ ContinueGates : m.steps[g] # "Pending"
      <4>. SUFFICES ASSUME NEW g \in Gates \ ContinueGates PROVE m.steps[g] # "Pending"
        OBVIOUS
      <4>1. g = s \/ g \in 1..(s - 1)
        BY <1>1, ConstantsAssumption DEF FailGatesFirst, Steps
      <4>2. g \in Steps
        BY ConstantsAssumption
      <4>. QED
        BY <1>3, <1>4, <3>a, <3>1, <4>1, <4>2
    <3>4. pc'[p] \notin Ending /\ pc'[p] # "Loop"
      BY <1>b DEF Ending
    <3>. QED
      BY <1>1, <1>4, <1>b, <3>a, <3>1, <3>2, <3>3, <3>4 DEF Looping
  <2>. QED
    BY <1>b, <2>1, <2>2, <2>3, <2>4, <2>5, <2>6 DEF OpenRun
<1>. QED
  BY <1>6, <1>11, <1>12, <1>b DEF Kept

\* The step succeeds: the snapshot under way records it, and misses nothing.
LEMMA CompleteKeeps ==
  ASSUME PauseKept, Checkpointing, NEW p \in Pods, NEW s \in Steps, CompleteStep(p, s)
  PROVE  Kept'
<1>. DEFINE m == [mem[p] EXCEPT !.steps[s] = "Succeeded"]
<1>1. /\ pc[p] \in {"InStep", "GateDone"} /\ pc' = [pc EXCEPT ![p] = "Loop"]
      /\ UNCHANGED <<run, runCache, job, jobCache, ckpt, post, minted>>
      /\ everDone' = everDone \cup {s}
      /\ mem[p].steps[s] = "Running"
  BY DEF CompleteStep, runVars, jobVars, reqVars, tokVars
<1>2. mem' = [mem EXCEPT ![p] = m] /\ mem[p] \in Status
  BY DEF CompleteStep, PauseKept, TypeOK
<1>3. /\ m \in Status /\ m.cb = mem[p].cb /\ m.steps[s] = "Succeeded"
      /\ \A t \in Steps \ {s} : m.steps[t] = mem[p].steps[t]
  BY <1>2, StepSet DEF StepPhases
<1>. HIDE DEF m
<1>4. /\ pc'[p] = "Loop" /\ mem'[p] = m
      /\ \A o \in Pods \ {p} : mem'[o] = mem[o] /\ pc'[o] = pc[o]
  BY <1>1, <1>2 DEF PauseKept, TypeOK
<1>5. saving'[p] = saving[p] \cup {m.steps} /\ \A o \in Pods \ {p} : saving'[o] = saving[o]
  BY <1>4 DEF CompleteStep, PauseKept, TypeOK
<1>6. pc[p] \in Live \ {"Pause"} /\ pc[p] \in Early \cup Past /\ pc[p] \in InLoop
  BY <1>1 DEF Live, Executing, Past, InLoop
<1>7. ~Terminal
  BY <1>1, <1>2, <1>6, AtWork, FinalIdle
<1>8. OpenRun /\ ~Unanswered(run.cb) /\ ~Unanswered(mem[p].cb) /\ Looping(p)
  BY <1>6, <1>7, AtWork DEF OpenRun, Starting
<1>a. Snapshots /\ Callbacks /\ Failures /\ Deletions
  BY DEF PauseKept, Kept
<1>b. \A o \in Pods \ {p} : pc[o] = "None" /\ saving[o] = {}
  BY <1>1, OthersIdle
<1>c. Terminal' <=> Terminal
  BY <1>1 DEF Terminal
<1>d. \A t \in Steps : /\ m.steps[t] \in {"Pending", "Succeeded"}
                       /\ m.steps[t] = "Succeeded" <=> t \in everDone'
  <2>1. \A t \in Steps \ {s} : mem[p].steps[t] \in {"Pending", "Succeeded"}
    BY <1>1, <1>6, <1>7, Busy
  <2>2. \A t \in Steps : mem[p].steps[t] = "Succeeded" <=> t \in everDone
    BY <1>6, <1>8 DEF Looping
  <2>. QED
    BY <1>1, <1>3, <2>1, <2>2
<1>9. Snapshots'
  <2>3. \A o \in Pods : \A f \in saving'[o] : f \in saving[o] \/ f = m.steps
    BY <1>5
  <2>4. \A o \in Pods :
          saving'[o] # {} => pc'[o] \in (Past \cup {"Pause"}) \ {"PersistOk", "PersistErr"}
    BY <1>4, <1>5, <1>b DEF Past, InLoop
  <2>5. \A o \in Pods : \A f \in saving'[o] :
          \A t \in Steps : /\ f[t] \in {"Pending", "Succeeded"}
                           /\ f[t] = "Succeeded" => t \in everDone'
    BY <1>1, <1>a, <1>d, <2>3 DEF Snapshots, IsSnapshot
  <2>. QED
    BY <1>1, <1>a, <2>4, <2>5 DEF Snapshots, IsSnapshot
<1>10. Callbacks'
  <2>1. \A o \in Pods : mem'[o].cb = mem[o].cb
    BY <1>3, <1>4
  <2>. QED
    BY <1>1, <1>a, <2>1 DEF Callbacks, Issued, AcceptedFor
<1>11. Failures' /\ Deletions'
  BY <1>1, <1>4, <1>a, <1>c DEF Failures, Deletions, FailureSeen
<1>12. OpenRun'
  <2>1. StepsSaved'
    <3>1. m.steps \in saving'[p]
      BY <1>5
    <3>2. \A t \in everDone' : m.steps[t] = "Succeeded"
      BY <1>1, <1>d DEF PauseKept, TypeOK
    <3>. QED
      BY <3>1, <3>2 DEF StepsSaved, Covers
  <2>2. PhaseTold'
    <3>1. ~NoPast' /\ ~NoPods' /\ ~NoPods
      BY <1>1, <1>4 DEF NoPast, NoPods, Past, InLoop
    <3>. QED
      BY <1>1, <1>8, <3>1 DEF OpenRun, PhaseTold, Armed
  <2>3. Held' /\ QuestionsSeen'
    BY <1>1, <1>8, QuestionsKept DEF OpenRun, Held, Unanswered
  <2>4. AnswerKept'
    <3>1. ~Answer(run.cb)
      BY <1>1, <1>8 DEF OpenRun, AnswerKept, Early
    <3>2. ~Answer(run.cb)'
      BY <1>1, <3>1 DEF Answer, Sole
    <3>3. \A o \in Pods : pc'[o] \notin Early
      BY <1>4, <1>b DEF Early
    <3>. QED
      BY <3>2, <3>3 DEF AnswerKept
  <2>5. \A o \in Pods : Starting(o)'
    BY <1>1, <1>3, <1>4, <1>8, <1>b DEF Starting, Unanswered, Early, InLoop
  <2>6. \A o \in Pods \ {p} : Looping(o)'
    BY <1>4, <1>b DEF Looping, InLoop, Ending
  <2>7. Looping(p)'
    <3>1. m.cb # NilCallback => run.cb # NilCallback
      BY <1>3, <1>6, <1>8 DEF Looping
    <3>2. Armed /\ m.cb = NilCallback => \A g \in Gates \ ContinueGates : m.steps[g] # "Pending"
      <4>1. \A g \in Gates : g \in Steps
        BY ConstantsAssumption
      <4>2. Armed /\ m.cb = NilCallback
              => \A g \in Gates \ ContinueGates : mem[p].steps[g] # "Pending"
        BY <1>3, <1>6, <1>8 DEF Looping
      <4>. QED
        BY <1>3, <4>1, <4>2
    <3>3. \A t \in Steps : /\ m.steps[t] \in {"Pending", "Running", "Succeeded"}
                           /\ m.steps[t] # "Running"
      BY <1>d
    <3>4. pc'[p] \notin Ending /\ (Armed' <=> Armed) /\ run'.cb = run.cb
      BY <1>1, <1>4 DEF Ending, Armed
    <3>. QED
      BY <1>4, <1>d, <3>1, <3>2, <3>3, <3>4 DEF Looping
  <2>. QED
    BY <2>1, <2>2, <2>3, <2>4, <2>5, <2>6, <2>7 DEF OpenRun
<1>. QED
  BY <1>7, <1>9, <1>10, <1>11, <1>12, <1>c DEF Kept

\* A token is issued.  If its gate's policy is Fail it is the first: an earlier
\* one would belong to that gate, or to a gate that comes after it.
LEMMA ArmKeeps ==
  ASSUME PauseKept, FailGatesFirst, NEW p \in Pods, NEW s \in Steps, GateArm(p, s)
  PROVE  Kept'
<1>. DEFINE cb == [tok |-> minted + 1, step |-> s, outputs |-> NoPost]
            st == [mem[p] EXCEPT !.steps[s] = "Waiting"]
            m == [st EXCEPT !.cb = cb]
<1>1. /\ pc[p] = "Loop" /\ s \in Gates /\ pc' = [pc EXCEPT ![p] = "Pause"]
      /\ UNCHANGED <<runCache, job, jobCache, ckpt, saving, post, everDone>>
      /\ minted' = minted + 1
      /\ run' = [run EXCEPT !.cb = cb]
      /\ ReadyStep(mem[p], s) /\ mem[p].steps[s] = "Pending"
      /\ ~(mem[p].cb # NilCallback /\ mem[p].cb.step = s)
  BY DEF GateArm, StatusOverwrite, AtGate, ownCallback, jobVars, reqVars, histVars
<1>2. mem[p] \in Status /\ minted \in Nat
  BY DEF PauseKept, TypeOK
<1>3. mem' = [mem EXCEPT ![p] = m]
  BY DEF GateArm, PauseKept, TypeOK
<1>4. m.cb = cb /\ run'.cb = cb /\ run'.phase = run.phase /\ run'.steps = run.steps
  BY <1>1, <1>2, StepSet DEF PauseKept, TypeOK, Status, StepPhases
<1>5. cb.tok = minted + 1 /\ cb.step = s /\ cb.outputs = NoPost
  OBVIOUS
<1>. HIDE DEF m, st, cb
<1>c. cb # NilCallback
  <2>1. minted + 1 # 0
    BY <1>2
  <2>. QED
    BY <1>5, <2>1, ObjectFields
<1>6. pc[p] \in Live \ {"Pause"} /\ pc[p] \in Early \cup Past /\ pc[p] \in InLoop
  BY <1>1 DEF Live, Executing, Past, InLoop
<1>7. ~Terminal
  BY <1>1, <1>2, <1>6, AtWork, FinalIdle
<1>8. OpenRun /\ ~Unanswered(run.cb) /\ ~Unanswered(mem[p].cb) /\ Looping(p)
  BY <1>6, <1>7, AtWork DEF OpenRun, Starting
<1>9. s \notin everDone /\ \A t \in 1..(s - 1) : t \in everDone
  BY <1>1, <1>7, Ready
<1>a. Snapshots /\ Callbacks /\ Failures /\ Deletions
  BY DEF PauseKept, Kept
<1>b. /\ pc'[p] = "Pause" /\ mem'[p] = m
      /\ \A o \in Pods \ {p} : /\ pc[o] = "None" /\ pc'[o] = "None" /\ saving[o] = {}
                               /\ mem'[o] = mem[o]
  BY <1>1, <1>3, OthersIdle DEF PauseKept, TypeOK
<1>d. Terminal' <=> Terminal
  BY <1>4 DEF Terminal
<1>10. s \notin ContinueGates => minted = 0
  <2>. SUFFICES ASSUME s \notin ContinueGates, minted # 0 PROVE FALSE
    OBVIOUS
  <2>1. Armed /\ Issued(mem[p].cb)
    BY <1>2, <1>a DEF Armed, Callbacks
  <2>2. mem[p].cb # NilCallback
    BY <1>1, <1>6, <1>8, <2>1 DEF Looping
  <2>3. mem[p].cb.step \in Gates /\ \A t \in 1..(mem[p].cb.step - 1) : t \in everDone
    BY <2>1, <2>2 DEF Issued
  <2>4. s <= mem[p].cb.step /\ s # mem[p].cb.step
    BY <1>1, <2>2, <2>3 DEF FailGatesFirst
  <2>5. s \in 1..NSteps /\ mem[p].cb.step \in 1..NSteps /\ NSteps \in Nat
    BY <2>3, ConstantsAssumption DEF Steps
  <2>6. s \in 1..(mem[p].cb.step - 1)
    BY <2>4, <2>5
  <2>. QED
    BY <1>9, <2>3, <2>6
<1>11. Snapshots'
  BY <1>1, <1>6, <1>a, <1>b DEF Snapshots, IsSnapshot, Past, InLoop, Ending
<1>12. Callbacks'
  <2>1. 1..minted \subseteq 1..(minted + 1) /\ minted + 1 \in 1..(minted + 1)
    BY <1>2
  <2>2. \A c : Issued(c) => \/ c = NilCallback
                            \/ /\ c.tok \in 1..minted'
                               /\ c.step \in Gates /\ \A t \in 1..(c.step - 1) : t \in everDone'
                               /\ c.outputs # NoPost => AcceptedFor(c.tok)'
    BY <1>1, <2>1 DEF Issued, AcceptedFor
  <2>3. /\ cb.tok \in 1..minted' /\ cb.outputs = NoPost
        /\ cb.step \in Gates /\ \A t \in 1..(cb.step - 1) : t \in everDone'
    BY <1>1, <1>5, <1>9, <2>1
  <2>4. Issued(run.cb)'
    BY <1>4, <2>3 DEF Issued
  <2>5. \A o \in Pods : Issued(mem[o].cb)'
    BY <1>4, <1>a, <1>b, <2>2, <2>3 DEF Issued, Callbacks
  <2>6. Issued(runCache.cb)' /\ \A q \in Posts : Issued(post[q].cb)'
    BY <1>1, <1>a, <2>2 DEF Issued, Callbacks
  <2>. QED
    BY <1>1, <1>a, <2>4, <2>5, <2>6 DEF Callbacks
<1>13. Failures' /\ Deletions'
  BY <1>1, <1>a, <1>b, <1>d DEF Failures, Deletions, FailureSeen
<1>14. OpenRun'
  <2>1. StepsSaved'
    <3>1. \A o \in Pods : pc[o] \notin Ending
      BY <1>1, <1>b DEF Ending
    <3>. QED
      BY <1>1, <1>b, <1>8, <3>1 DEF OpenRun, StepsSaved, Covers
  <2>2. PhaseTold'
    <3>1. ~NoPods' /\ Armed'
      BY <1>1, <1>2, <1>b DEF NoPods, Armed
    <3>2. job.cond = "Active" /\ ~job.deleting
      BY <1>1, <1>a DEF PauseKept, Supervised, PodsHaveActiveJob, Deletions
    <3>. QED
      BY <1>1, <1>4, <1>8, <1>c, <3>1, <3>2 DEF OpenRun, PhaseTold
  <2>3. Held'
    <3>. SUFFICES ASSUME s \notin ContinueGates
                  PROVE  /\ run.phase # "Running" /\ minted' = 1 /\ s \notin everDone
                         /\ runCache.cb = NilCallback
      BY <1>1, <1>4, <1>5, <1>b DEF Held, Unanswered, Live, Executing
    <3>1. minted = 0 /\ ~Armed
      BY <1>10 DEF Armed
    <3>2. run.phase # "Running"
      BY <1>8, <3>1 DEF OpenRun, PhaseTold
    <3>3. runCache.cb = NilCallback
      BY <1>a, <3>1 DEF Callbacks, Issued
    <3>. QED
      BY <1>1, <1>9, <3>1, <3>2, <3>3
  <2>4. QuestionsSeen'
    BY <1>1, <1>8, QuestionsKept DEF OpenRun
  <2>5. AnswerKept'
    <3>1. \A o \in Pods : pc'[o] \notin Early
      BY <1>b DEF Early
    <3>. QED
      BY <1>4, <1>5, <3>1 DEF AnswerKept, Answer
  <2>6. \A o \in Pods : Starting(o)' /\ Looping(o)'
    BY <1>b DEF Starting, Looping, Early, InLoop, Ending
  <2>. QED
    BY <2>1, <2>2, <2>3, <2>4, <2>5, <2>6 DEF OpenRun
<1>. QED
  BY <1>7, <1>11, <1>12, <1>13, <1>14, <1>d DEF Kept

\* ErrAwaitingCallback: the checkpoint writes have landed and the runner ends.
LEMMA PausedKeeps ==
  ASSUME PauseKept, NEW p \in Pods, Pause(p)
  PROVE  Kept'
<1>1. /\ pc[p] = "Pause" /\ pc' = [pc EXCEPT ![p] = "Exit0"] /\ saving[p] = {}
      /\ UNCHANGED <<run, runCache, job, jobCache, ckpt, mem, saving, post, minted, everDone>>
  BY DEF Pause, Goto, runVars, jobVars, reqVars, tokVars, histVars
<1>2. pc'[p] = "Exit0" /\ \A o \in Pods \ {p} : pc[o] = "None" /\ pc'[o] = "None"
  BY <1>1, OthersIdle DEF PauseKept, TypeOK
<1>a. Snapshots /\ Callbacks /\ Failures /\ Deletions
  BY DEF PauseKept, Kept
<1>3. (Terminal' <=> Terminal) /\ ~NoPods' /\ ~NoPods /\ NoPast /\ NoPast'
  BY <1>1, <1>2 DEF Terminal, NoPods, NoPast, Past, InLoop, Ending
<1>4. Snapshots'
  BY <1>1, <1>2, <1>a DEF Snapshots, IsSnapshot, Past, InLoop, Ending
<1>5. Callbacks' /\ Failures' /\ Deletions'
  BY <1>1, <1>2, <1>3, <1>a DEF Callbacks, Issued, AcceptedFor, Failures, Deletions, FailureSeen
<1>6. ASSUME ~Terminal PROVE OpenRun'
  <2>0. OpenRun
    BY <1>6 DEF PauseKept, Kept
  <2>1. StepsSaved'
    BY <1>1, <1>2, <2>0 DEF OpenRun, StepsSaved, Covers, Ending
  <2>2. PhaseTold'
    BY <1>1, <1>3, <2>0 DEF OpenRun, PhaseTold, Armed
  <2>3. Held' /\ QuestionsSeen'
    BY <1>1, <1>2, <2>0 DEF OpenRun, Held, QuestionsSeen, Current, Unanswered, AcceptedFor,
       Live, Executing
  <2>4. AnswerKept'
    BY <1>1, <1>2, <2>0 DEF OpenRun, AnswerKept, Answer, Sole, Early
  <2>5. \A o \in Pods : Starting(o)' /\ Looping(o)'
    BY <1>2 DEF Starting, Looping, Early, InLoop, Ending
  <2>. QED
    BY <2>1, <2>2, <2>3, <2>4, <2>5 DEF OpenRun
<1>7. ASSUME Terminal PROVE ClosedRun'
  <2>1. ClosedRun
    BY <1>7 DEF PauseKept, Kept
  <2>2. TimedOut => TimedOut'
    BY <1>1, <1>2, <1>3 DEF TimedOut, Unanswered, Live, Executing
  <2>. QED
    BY <1>1, <1>2, <2>1, <2>2 DEF ClosedRun, Final, Early, Past, InLoop, Ending
<1>. QED
  BY <1>3, <1>4, <1>5, <1>6, <1>7 DEF Kept

\* checkpointCleanup: the checkpoint goes when the outcome is settled.
LEMMA CleanupKeeps ==
  ASSUME PauseKept, NEW p \in Pods, Cleanup(p)
  PROVE  Kept'
<1>1. /\ pc[p] \in {"CleanupOk", "CleanupErr"} /\ saving[p] = {}
      /\ \E x \in {"PersistOk", "PersistErr"} : pc' = [pc EXCEPT ![p] = x]
      /\ ckpt' \in {ckpt, NoCheckpoint}
      /\ UNCHANGED <<run, runCache, job, jobCache, mem, saving, post, minted, everDone>>
  BY DEF Cleanup, Goto, runVars, jobVars, reqVars, tokVars, histVars
<1>2. /\ pc'[p] \in {"PersistOk", "PersistErr"}
      /\ \A o \in Pods \ {p} : pc[o] = "None" /\ pc'[o] = "None"
  BY <1>1, OthersIdle DEF PauseKept, TypeOK
<1>a. Snapshots /\ Callbacks /\ Failures /\ Deletions
  BY DEF PauseKept, Kept
<1>b. pc[p] \in Live \ {"Pause"} /\ pc[p] \in Early \cup Past /\ pc[p] \in Ending
  BY <1>1 DEF Live, Executing, Past, Ending
<1>3. (Terminal' <=> Terminal) /\ ~NoPods' /\ ~NoPods /\ ~NoPast /\ ~NoPast'
  BY <1>1, <1>2 DEF Terminal, NoPods, NoPast, Past, InLoop, Ending
<1>4. Snapshots'
  BY <1>1, <1>2, <1>a, ObjectFields
     DEF Snapshots, IsSnapshot, NoCheckpoint, Past, InLoop, Ending
<1>5. Callbacks' /\ Failures' /\ Deletions'
  BY <1>1, <1>2, <1>3, <1>a DEF Callbacks, Issued, AcceptedFor, Failures, Deletions, FailureSeen
<1>6. ASSUME ~Terminal PROVE OpenRun'
  <2>0. OpenRun /\ ~Unanswered(run.cb)
    BY <1>6, <1>b, AtWork
  <2>1. StepsSaved'
    BY <1>2 DEF StepsSaved, Ending
  <2>2. PhaseTold'
    BY <1>1, <1>3, <2>0 DEF OpenRun, PhaseTold, Armed
  <2>3. Held' /\ QuestionsSeen'
    BY <1>1, <2>0, QuestionsKept DEF OpenRun, Held, Unanswered
  <2>4. AnswerKept'
    <3>1. ~Answer(run.cb)
      BY <1>1, <2>0 DEF OpenRun, AnswerKept, Early
    <3>2. ~Answer(run.cb)'
      BY <1>1, <3>1 DEF Answer, Sole
    <3>3. \A o \in Pods : pc'[o] \notin Early
      BY <1>2 DEF Early
    <3>. QED
      BY <3>2, <3>3 DEF AnswerKept
  <2>5. Final(mem[p])
    BY <1>b, <2>0 DEF OpenRun, Looping
  <2>6. \A o \in Pods : Starting(o)' /\ Looping(o)'
    BY <1>1, <1>2, <2>5 DEF Starting, Looping, Early, InLoop, Ending, Final
  <2>. QED
    BY <2>1, <2>2, <2>3, <2>4, <2>6 DEF OpenRun
<1>7. ASSUME Terminal PROVE ClosedRun'
  <2>1. Final(run) /\ Final(mem[p]) /\ mem[p].phase = run.phase
    BY <1>7, <1>b, AtWork
  <2>. QED
    BY <1>1, <1>2, <2>1 DEF ClosedRun, Final, Early, Past, InLoop, Ending
<1>. QED
  BY <1>3, <1>4, <1>5, <1>6, <1>7 DEF Kept

\* What a runner persists at its end leaves a runner nothing to do.
LEMMA PersistFinalKeeps ==
  ASSUME PauseKept, NEW p \in Pods, PersistFinal(p)
  PROVE  Kept'
<1>1. /\ pc[p] \in {"PersistOk", "PersistErr"} /\ run' = mem[p]
      /\ \E x \in {"Exit0", "Exit1"} : pc' = [pc EXCEPT ![p] = x]
      /\ UNCHANGED <<runCache, job, jobCache, ckpt, mem, saving, post, minted, everDone>>
  BY DEF PersistFinal, StatusOverwrite, Goto, jobVars, reqVars, tokVars, histVars
<1>2. /\ pc'[p] \in {"Exit0", "Exit1"}
      /\ \A o \in Pods \ {p} : pc[o] = "None" /\ pc'[o] = "None"
  BY <1>1, OthersIdle DEF PauseKept, TypeOK
<1>a. Snapshots /\ Callbacks /\ Failures /\ Deletions
  BY DEF PauseKept, Kept
<1>b. pc[p] \in Live \ {"Pause"} /\ pc[p] \in Early \cup Past /\ pc[p] \in Ending
  BY <1>1 DEF Live, Executing, Past, Ending
<1>3. Final(mem[p])
  BY <1>b, AtWork DEF OpenRun, Looping
<1>4. Final(run)' /\ Terminal'
  BY <1>1, <1>3 DEF Final, Terminal, IsTerminal
<1>5. Snapshots'
  BY <1>1, <1>2, <1>a DEF Snapshots, IsSnapshot, Past, InLoop, Ending
<1>6. Callbacks'
  BY <1>1, <1>a DEF Callbacks, Issued, AcceptedFor
<1>7. Failures' /\ Deletions'
  BY <1>1, <1>2, <1>4, <1>a DEF Failures, Deletions, FailureSeen
<1>8. ClosedRun'
  BY <1>2, <1>4 DEF ClosedRun, Early, Past, InLoop, Ending
<1>. QED
  BY <1>4, <1>5, <1>6, <1>7, <1>8 DEF Kept

\* A reconcile of a run that is not disturbed leaves the slot alone, unless a
\* gate timed out.
LEMMA PauseReconcile ==
  ASSUME Undisturbed, PauseKept, Reconcile
  PROVE  /\ Kept'
         /\ run' = run \/ Rewritten \/ Unanswered(run.cb)
<1>1. CASE ReconcileCreate
  BY <1>1, CreateKeeps
<1>2. CASE ReconcileMonitor
  BY <1>2, MonitorKeeps
<1>3. CASE ReconcileTimeout
  BY <1>3, TimeoutKeeps
<1>4. CASE ResumeCreate
  BY <1>4, ResumeKeeps
<1>5. CASE ResumeDelete
  BY <1>5, DeleteKeeps DEF ResumeDelete, runVars
<1>6. CASE ResumeFailed
  BY <1>6, FailedJobKeeps
     DEF ResumeFailed, FailureSeen, podVars, reqVars, tokVars
<1>7. CASE ResumeActive
  BY <1>7, ActiveKeeps
<1>. QED
  BY <1>1, <1>2, <1>3, <1>4, <1>5, <1>6, <1>7
     DEF Reconcile, ReconcileStuckPod, ReconcileReject, Undisturbed

LEMMA NoFaults == ASSUME Undisturbed, TypeOK PROVE ~(faults < MaxFaults)
BY DEF Undisturbed, TypeOK

LEMMA PauseRunner ==
  ASSUME Undisturbed, PauseKept, NEW p \in Pods, RunnerStep(p)
  PROVE  Kept'
<1>0. Checkpointing /\ FailGatesFirst /\ ~MayReject
  BY DEF Undisturbed
<1>1. CASE Load(p) \/ PersistRunning(p) \/ Restore(p)
  BY <1>0, <1>1, LoadKeeps, PersistRunningKeeps, RestoreKeeps
<1>2. CASE AllDone(p) \/ NothingExecuted(p)
  BY <1>2, AllDoneKeeps, NothingKeeps
<1>3. ASSUME NEW s \in Steps, StartStep(p, s) \/ CompleteStep(p, s) \/ FailStep(p, s)
      PROVE  Kept'
  BY <1>0, <1>3, StartKeeps, CompleteKeeps, FailKeeps
<1>4. ASSUME NEW s \in Steps,
             GateConsume(p, s) \/ GateTimeout(p, s) \/ GateRepause(p, s) \/ GateArm(p, s)
      PROVE  Kept'
  BY <1>0, <1>4, PassKeeps, RepauseKeeps, ArmKeeps
<1>5. CASE Pause(p) \/ Cleanup(p) \/ PersistFinal(p)
  BY <1>5, PausedKeeps, CleanupKeeps, PersistFinalKeeps
<1>. QED
  BY <1>0, <1>1, <1>2, <1>3, <1>4, <1>5 DEF RunnerStep, LoadFails, InitFails

LEMMA PausePod ==
  ASSUME Undisturbed, PauseKept, NEW p \in Pods,
         \/ SaveCheckpoint(p) \/ SaveFails(p) \/ KubernetesStep(p) \/ StartContainer(p)
         \/ Crash(p) \/ DeadlineExceeded(p)
  PROVE  (lost' = {} => Kept') /\ run' = run
<1>1. ~Crash(p) /\ ~DeadlineExceeded(p)
  BY NoFaults DEF Crash, DeadlineExceeded, PauseKept
<1>2. ~CollectOrphan(p)
  BY DEF CollectOrphan, PauseKept, Supervised, NoOrphans
<1>3. CASE SaveCheckpoint(p)
  BY <1>3, SaveKeeps DEF SaveCheckpoint, runVars
<1>4. CASE CreatePod(p)
  BY <1>4, PodKeeps DEF CreatePod, runVars
<1>5. CASE CountPod(p)
  BY <1>5, CountKeeps DEF CountPod, runVars, Undisturbed
<1>6. CASE StartContainer(p)
  BY <1>6, ContainerKeeps DEF StartContainer, runVars
<1>7. CASE SaveFails(p)
  BY <1>7, EmptySaveKeeps DEF SaveFails, runVars
<1>. QED
  BY <1>1, <1>2, <1>3, <1>4, <1>5, <1>6, <1>7 DEF KubernetesStep

LEMMA PauseJob ==
  ASSUME Undisturbed, PauseKept, SyncRunCache \/ SyncJobCache \/ FinishDelete \/ JobTTL
  PROVE  Kept' /\ run' = run
<1>1. CASE SyncRunCache
  BY <1>1, SyncRunKeeps DEF SyncRunCache
<1>2. CASE SyncJobCache
  BY <1>2, JobMovesKeeps DEF SyncJobCache, runVars, podVars, reqVars, tokVars, histVars
<1>3. CASE FinishDelete \/ JobTTL
  BY <1>3, JobEndKeeps DEF FinishDelete, JobTTL, runVars, Undisturbed
<1>. QED
  BY <1>1, <1>2, <1>3

\* The trigger is not at work, and nothing calls it.
LEMMA NotCreating ==
  ASSUME Undisturbed, ~creating, [Next]_vars
  PROVE  ~creating'
<1>0. ~creating /\ ~SetTriggerStatus /\ ~CancelRun
  BY DEF SetTriggerStatus, CancelRun, Undisturbed
<1>. USE DEF reqVars
<1>1. CASE Reconcile
  BY <1>0, <1>1
     DEF Reconcile, ReconcileCreate, ReconcileMonitor, ReconcileTimeout, ReconcileStuckPod,
         ReconcileReject, ResumeCreate, ResumeDelete, ResumeFailed, ResumeActive
<1>2. ASSUME NEW q \in Posts, CallbackAdmit(q) \/ CallbackPatch(q) PROVE ~creating'
  BY <1>0, <1>2 DEF CallbackAdmit, CallbackPatch
<1>3. ASSUME NEW t, ExpireToken(t) PROVE ~creating'
  BY <1>0, <1>3 DEF ExpireToken
<1>4. ASSUME NEW p \in Pods, RunnerStep(p) PROVE ~creating'
  BY <1>0, <1>4
     DEF RunnerStep, Load, LoadFails, PersistRunning, Restore, InitFails, AllDone, NothingExecuted,
         StartStep, CompleteStep, FailStep, GateConsume, GateTimeout, GateRepause, GateArm, Pause,
         Cleanup, PersistFinal
<1>5. ASSUME NEW p \in Pods,
             \/ SaveCheckpoint(p) \/ SaveFails(p) \/ KubernetesStep(p) \/ StartContainer(p)
             \/ Crash(p) \/ DeadlineExceeded(p)
      PROVE  ~creating'
  BY <1>0, <1>5
     DEF SaveCheckpoint, SaveFails, KubernetesStep, CreatePod, CountPod, CollectOrphan,
       StartContainer, Crash,
         DeadlineExceeded
<1>6. CASE SyncRunCache \/ SyncJobCache \/ FinishDelete \/ JobTTL
  BY <1>0, <1>6 DEF SyncRunCache, SyncJobCache, FinishDelete, JobTTL
<1>7. CASE UNCHANGED vars
  BY <1>0, <1>7 DEF vars
<1>. QED
  BY <1>0, <1>1, <1>2, <1>3, <1>4, <1>5, <1>6, <1>7 DEF Next, Rest

\* What is lost stays lost.
LEMMA LossesKept ==
  ASSUME [Next]_vars
  PROVE  lost \subseteq lost'
<1>. USE DEF histVars
<1>1. CASE Reconcile \/ CancelRun \/ SetTriggerStatus
  BY <1>1
     DEF Reconcile, ReconcileCreate, ReconcileMonitor, ReconcileTimeout, ReconcileStuckPod,
         ReconcileReject, ResumeCreate, ResumeDelete, ResumeFailed, ResumeActive, CancelRun,
         SetTriggerStatus
<1>2. ASSUME NEW q \in Posts, CallbackAdmit(q) \/ CallbackPatch(q) PROVE lost' = lost
  BY <1>2 DEF CallbackAdmit, CallbackPatch
<1>3. ASSUME NEW t, ExpireToken(t) PROVE lost' = lost
  BY <1>3 DEF ExpireToken
<1>4. ASSUME NEW p \in Pods, RunnerStep(p) PROVE lost' = lost
  BY <1>4
     DEF RunnerStep, Load, LoadFails, PersistRunning, Restore, InitFails, AllDone, NothingExecuted,
         StartStep, CompleteStep, FailStep, GateConsume, GateTimeout, GateRepause, GateArm, Pause,
         Cleanup, PersistFinal
<1>5. ASSUME NEW p \in Pods,
             \/ SaveCheckpoint(p) \/ SaveFails(p) \/ KubernetesStep(p) \/ StartContainer(p)
             \/ Crash(p) \/ DeadlineExceeded(p)
      PROVE  lost \subseteq lost'
  BY <1>5
     DEF SaveCheckpoint, SaveFails, KubernetesStep, CreatePod, CountPod, CollectOrphan,
         StartContainer, Crash, DeadlineExceeded
<1>6. CASE SyncRunCache \/ SyncJobCache \/ FinishDelete \/ JobTTL
  BY <1>6 DEF SyncRunCache, SyncJobCache, FinishDelete, JobTTL
<1>7. CASE UNCHANGED vars
  BY <1>7 DEF vars
<1>. QED
  BY <1>1, <1>2, <1>3, <1>4, <1>5, <1>6, <1>7 DEF Next, Rest

LEMMA PauseStep ==
  ASSUME Undisturbed, PauseInv, [Next]_vars
  PROVE  PauseInv'
<1>0. TypeOK /\ Supervised /\ BackoffLimit = 0 /\ ~PodsMayStick
  BY DEF PauseInv, Undisturbed
<1>1. TypeOK' /\ Supervised' /\ ~creating'
  BY <1>0, StepTypeOK, SupervisedStep, NotCreating DEF PauseInv
<1>. SUFFICES ASSUME lost' = {} PROVE Kept'
  BY <1>1 DEF PauseInv, NoSaveLost
<1>a. PauseKept
  BY LossesKept DEF PauseInv, PauseKept, NoSaveLost
<1>2. ASSUME NEW q \in Posts, CallbackAdmit(q) \/ CallbackPatch(q) PROVE Kept'
  BY <1>2, <1>a, AdmitKeeps, PatchKeeps
<1>3. ASSUME NEW t, ExpireToken(t) PROVE Kept'
  BY <1>3, <1>a, StutterKeeps DEF ExpireToken, runVars, jobVars, podVars, reqVars, histVars
<1>4. CASE UNCHANGED vars
  <2>1. UNCHANGED <<run, runCache, job, jobCache, ckpt, pc, mem, saving, post, minted, everDone>>
    BY <1>4 DEF vars, runVars, jobVars, podVars, reqVars, tokVars, histVars
  <2>. QED
    BY <1>a, <2>1, StutterKeeps
<1>5. ~SetTriggerStatus /\ ~CancelRun
  BY DEF PauseInv, SetTriggerStatus, CancelRun, Undisturbed
<1>6. CASE Reconcile
  BY <1>6, <1>a, PauseReconcile
<1>7. CASE SyncRunCache \/ SyncJobCache \/ FinishDelete \/ JobTTL
  BY <1>7, <1>a, PauseJob
<1>8. ASSUME NEW p \in Pods,
             \/ SaveCheckpoint(p) \/ SaveFails(p) \/ KubernetesStep(p) \/ StartContainer(p)
             \/ Crash(p) \/ DeadlineExceeded(p)
      PROVE  Kept'
  BY <1>8, <1>a, PausePod
<1>9. ASSUME NEW p \in Pods, RunnerStep(p) PROVE Kept'
  BY <1>9, <1>a, PauseRunner
<1>. QED
  BY <1>2, <1>3, <1>4, <1>5, <1>6, <1>7, <1>8, <1>9 DEF Next, Rest

\* However its pauses, deliveries, deadlines, deletions and stale caches
\* interleave, a run that is not disturbed keeps its status, its checkpoint and
\* its runners in step for as long as its checkpoint writes land: steps that
\* completed are saved before a runner ends, and nothing but a settled outcome is
\* left to a runner of a terminal run.  Once SaveAsync has logged a write that
\* failed, only the supervision of the Job and the types are left.
THEOREM PauseInvariant == ASSUME Undisturbed PROVE Spec => []PauseInv
<1>1. Init => PauseInv
  BY PauseInit
<1>2. PauseInv /\ [Next]_vars => PauseInv'
  BY PauseStep
<1>. QED
  BY <1>1, <1>2, PTL DEF Spec

LEMMA PauseHolds == PauseInv /\ NoSaveLost => PauseKept
BY DEF PauseInv, PauseKept

\* While nobody disturbs the run, what a runner persists into a terminal run is
\* the phase the run already has.
LEMMA OwnCopyTerminal ==
  ASSUME Undisturbed, PauseKept, Terminal, [Next]_vars
  PROVE  run'.phase = run.phase
<1>0. TypeOK
  BY DEF PauseKept
<1>. SUFFICES ASSUME RewritesTerminal PROVE FALSE
  BY DEF RewritesTerminal, Terminal
<1>1. ~creating /\ ~creating'
  BY NotCreating DEF PauseKept
<1>2. ASSUME NEW p \in Pods, PersistRunning(p) \/ PersistFinal(p) PROVE FALSE
  <2>1. pc[p] \in Live \ {"Pause"} /\ pc[p] \in Early \cup Past
    BY <1>2 DEF PersistRunning, PersistFinal, Goto, Live, Executing, Early, Past, Ending
  <2>2. mem[p].phase = run.phase
    BY <2>1, AtWork
  <2>3. run'.phase = mem[p].phase
    BY <1>0, <1>2 DEF PersistRunning, PersistFinal, StatusOverwrite, TypeOK, Status
  <2>. QED
    BY <2>2, <2>3 DEF RewritesTerminal
<1>3. ASSUME NEW p \in Pods, RunnerStep(p) PROVE FALSE
  <2>1. CASE PersistRunning(p) \/ PersistFinal(p)
    BY <1>2, <2>1
  <2>2. ASSUME NEW s \in Steps, GateConsume(p, s) \/ GateTimeout(p, s) \/ GateArm(p, s)
        PROVE  FALSE
    BY <1>0, <2>2, PatchKeepsPhase DEF GateConsume, GateTimeout, GateArm, clearPendingCallback
  <2>3. ASSUME NEW s \in Steps,
               \/ StartStep(p, s) \/ CompleteStep(p, s) \/ FailStep(p, s)
               \/ GateRepause(p, s)
        PROVE  FALSE
    BY <2>3 DEF StartStep, CompleteStep, FailStep, GateRepause, RewritesTerminal, runVars
  <2>4. CASE \/ Load(p) \/ Restore(p) \/ AllDone(p) \/ NothingExecuted(p) \/ Pause(p)
             \/ Cleanup(p)
    BY <2>4 DEF Load, Restore, AllDone, NothingExecuted, Pause, Cleanup, RewritesTerminal, runVars
  <2>5. ~LoadFails(p) /\ ~InitFails(p)
    BY DEF LoadFails, InitFails, Undisturbed
  <2>. QED
    BY <1>3, <2>1, <2>2, <2>3, <2>4, <2>5 DEF RunnerStep
<1>4. CASE Reconcile
  BY <1>0, <1>4, ControllerWrites, UpdateKeepsTerminal DEF RewritesTerminal
<1>5. ASSUME NEW q \in Posts, CallbackAdmit(q) \/ CallbackPatch(q) PROVE FALSE
  BY <1>0, <1>5, PatchKeepsPhase DEF CallbackAdmit, CallbackPatch, runVars, RewritesTerminal
<1>6. ASSUME NEW p \in Pods,
             \/ SaveCheckpoint(p) \/ SaveFails(p) \/ KubernetesStep(p) \/ StartContainer(p)
             \/ Crash(p) \/ DeadlineExceeded(p)
      PROVE  FALSE
  BY <1>6, PausePod DEF RewritesTerminal
<1>7. CASE SyncRunCache \/ SyncJobCache \/ FinishDelete \/ JobTTL
  BY <1>7, PauseJob DEF RewritesTerminal
<1>8. ASSUME NEW t, ExpireToken(t) PROVE FALSE
  BY <1>8 DEF ExpireToken, runVars, RewritesTerminal
<1>9. CASE UNCHANGED vars
  BY <1>9 DEF vars, runVars, RewritesTerminal
<1>10. ~SetTriggerStatus /\ ~CancelRun
  BY DEF PauseKept, SetTriggerStatus, CancelRun, Undisturbed
<1>. QED
  BY <1>3, <1>4, <1>5, <1>6, <1>7, <1>8, <1>9, <1>10 DEF Next, Rest

\* However stale the informer caches are and however the run pauses and resumes,
\* while its checkpoint writes land a run that reached Succeeded or Failed keeps
\* its phase: a runner that a stale cache started after the end finds nothing to
\* do and persists what it loaded.
THEOREM TerminalPhaseKept ==
  ASSUME Undisturbed
  PROVE  Spec => TerminalIsFinal
<1>1. PauseInv /\ [Next]_vars
        => (NoSaveLost /\ IsTerminal(run.phase) => run'.phase = run.phase)
  BY OwnCopyTerminal, PauseHolds DEF Terminal
<1>2. Spec => []PauseInv
  BY PauseInvariant
<1>. QED
  BY <1>1, <1>2, PTL DEF Spec, TerminalIsFinal

\* A runner starts this step.
StartsOne(p, s) == mem'[p].steps[s] = "Running" /\ mem[p].steps[s] # "Running"

LEMMA LoadedIdle ==
  ASSUME PauseKept, NEW p \in Pods, Load(p) \/ PersistRunning(p) \/ Restore(p)
  PROVE  \A o \in Pods, s \in Steps : ~StartsOne(o, s)
<1>. SUFFICES ASSUME NEW o \in Pods, NEW s \in Steps, StartsOne(o, s) PROVE FALSE
  OBVIOUS
<1>1. CASE Load(p)
  <2>1. pc[p] \in Live \ {"Pause"}
    BY <1>1 DEF Load, Goto, Live, Executing
  <2>2. run.steps[s] # "Running"
    BY <2>1, AtWork, ObjectFields DEF OpenRun, PhaseTold, Final
  <2>. QED
    BY <1>1, <2>2 DEF Load, StartsOne, PauseKept, TypeOK
<1>2. CASE PersistRunning(p)
  <2>1. \A q \in Pods : mem'[q].steps = mem[q].steps
    BY <1>2 DEF PersistRunning, PauseKept, TypeOK, Status
  <2>. QED
    BY <2>1 DEF StartsOne
<1>3. CASE Restore(p)
  <2>1. \A q \in Pods : mem'[q].steps = mem[q].steps \/ mem'[q].steps = ckpt
    BY <1>3 DEF Restore, PauseKept, TypeOK, Status
  <2>2. ckpt[s] # "Running"
    BY DEF PauseKept, Kept, Snapshots, IsSnapshot
  <2>. QED
    BY <2>1, <2>2 DEF StartsOne
<1>. QED
  BY <1>1, <1>2, <1>3

\* In the loop a runner starts the first step that has not completed.
LEMMA LoopStarts ==
  ASSUME PauseKept, NEW p \in Pods, RunnerStep(p), NEW o \in Pods, NEW s \in Steps, StartsOne(o, s)
  PROVE  \/ Load(p) \/ PersistRunning(p) \/ Restore(p)
         \/ o = p /\ pc[p] = "Loop" /\ ReadyStep(mem[p], s) /\ mem[p].steps[s] = "Pending"
<1>0. mem \in [Pods -> Status]
  BY DEF PauseKept, TypeOK
<1>1. CASE LoadFails(p) \/ NothingExecuted(p) \/ Pause(p) \/ Cleanup(p) \/ PersistFinal(p)
  BY <1>1 DEF LoadFails, NothingExecuted, Pause, Cleanup, PersistFinal, StartsOne
<1>2. CASE InitFails(p) \/ AllDone(p)
  <2>1. \A q \in Pods : mem'[q].steps = mem[q].steps
    BY <1>0, <1>2 DEF InitFails, AllDone, Status
  <2>. QED
    BY <2>1 DEF StartsOne
<1>3. ASSUME NEW t \in Steps, CompleteStep(p, t) \/ FailStep(p, t) \/ GateRepause(p, t)
      PROVE  FALSE
  <2>1. \A q \in Pods : mem'[q].steps[s] = mem[q].steps[s] \/ mem'[q].steps[s] # "Running"
    BY <1>0, <1>3 DEF CompleteStep, FailStep, GateRepause, Status, StepStatuses
  <2>. QED
    BY <2>1 DEF StartsOne
<1>4. ASSUME NEW t \in Steps, GateArm(p, t) PROVE FALSE
  <2>1. \A q \in Pods : mem'[q].steps[s] = mem[q].steps[s] \/ mem'[q].steps[s] # "Running"
    BY <1>0, <1>4 DEF GateArm, Status, StepStatuses
  <2>. QED
    BY <2>1 DEF StartsOne
<1>5. ASSUME NEW t \in Steps, StartStep(p, t) \/ GateConsume(p, t) \/ GateTimeout(p, t)
      PROVE  o = p /\ pc[p] = "Loop" /\ ReadyStep(mem[p], s) /\ mem[p].steps[s] = "Pending"
  <2>1. \A q \in Pods, u \in Steps :
          (q = p /\ u = t) \/ mem'[q].steps[u] = mem[q].steps[u]
    BY <1>0, <1>5 DEF StartStep, GateConsume, GateTimeout, Status, StepStatuses
  <2>2. o = p /\ s = t
    BY <2>1 DEF StartsOne
  <2>. QED
    BY <1>5, <2>2 DEF StartStep, GateConsume, GateTimeout, AtGate, Goto
<1>. QED
  BY <1>1, <1>2, <1>3, <1>4, <1>5 DEF RunnerStep

LEMMA StartedIsNew ==
  ASSUME Undisturbed, PauseKept, [Next]_vars,
         NEW o \in Pods, NEW s \in Steps, StartsOne(o, s)
  PROVE  s \notin everDone
<1>1. ASSUME NEW p \in Pods, RunnerStep(p) PROVE s \notin everDone
  <2>1. /\ o = p /\ pc[p] = "Loop" /\ ReadyStep(mem[p], s) /\ mem[p].steps[s] = "Pending"
    BY <1>1, LoadedIdle, LoopStarts
  <2>2. pc[p] \in Live \ {"Pause"} /\ pc[p] \in Early \cup Past /\ mem[p] \in Status
    BY <2>1 DEF Live, Executing, Past, InLoop, PauseKept, TypeOK
  <2>3. ~Terminal
    BY <2>1, <2>2, AtWork, FinalIdle
  <2>. QED
    BY <2>1, <2>3, Ready
<1>2. ASSUME NEW p \in Pods,
             \/ SaveCheckpoint(p) \/ SaveFails(p) \/ KubernetesStep(p) \/ StartContainer(p)
             \/ Crash(p) \/ DeadlineExceeded(p)
      PROVE  FALSE
  <2>1. \A q \in Pods : mem'[q] = mem[q] \/ mem'[q] = NewStatus
    BY <1>2 DEF SaveCheckpoint, SaveFails, KubernetesStep, CreatePod, CountPod, CollectOrphan,
         StartContainer,
         Crash, DeadlineExceeded, PauseKept, TypeOK
  <2>. QED
    BY <2>1, ObjectFields DEF StartsOne
<1>. SUFFICES ASSUME mem' = mem PROVE FALSE
  <2>. USE DEF podVars
  <2>1. Reconcile => mem' = mem
    BY DEF Reconcile, ReconcileCreate, ReconcileMonitor, ReconcileTimeout, ReconcileStuckPod,
         ReconcileReject, ResumeCreate, ResumeDelete, ResumeFailed, ResumeActive
  <2>2. \A q \in Posts : CallbackAdmit(q) \/ CallbackPatch(q) => mem' = mem
    BY DEF CallbackAdmit, CallbackPatch
  <2>3. \A t : ExpireToken(t) => mem' = mem
    BY DEF ExpireToken
  <2>4. SyncRunCache \/ SyncJobCache \/ FinishDelete \/ JobTTL => mem' = mem
    BY DEF SyncRunCache, SyncJobCache, FinishDelete, JobTTL
  <2>5. SetTriggerStatus \/ CancelRun => mem' = mem
    BY DEF SetTriggerStatus, CancelRun
  <2>6. UNCHANGED vars => mem' = mem
    BY DEF vars
  <2>. QED
    BY <1>1, <1>2, <2>1, <2>2, <2>3, <2>4, <2>5, <2>6 DEF Next, Rest
<1>. QED
  BY DEF StartsOne

\* While its checkpoint writes land, a step that completed is never started
\* again, however often the run pauses: the checkpoint is complete before the
\* runner ends, and the runner that resumes the run restores it.
THEOREM NoCompletedStepRestarts ==
  ASSUME Undisturbed
  PROVE  Spec => [][NoSaveLost => ~Starts(everDone)]_vars
<1>1. PauseInv /\ [Next]_vars => (NoSaveLost => ~Starts(everDone))
  <2>. SUFFICES ASSUME PauseInv, [Next]_vars, NoSaveLost,
                       NEW p \in Pods, NEW s \in everDone, StartsOne(p, s)
                PROVE  FALSE
    BY DEF Starts, StartsOne
  <2>1. s \in Steps
    BY DEF PauseInv, TypeOK
  <2>. QED
    BY <2>1, StartedIsNew, PauseHolds
<1>2. Spec => []PauseInv
  BY PauseInvariant
<1>. QED
  BY <1>1, <1>2, PTL DEF Spec

\* The slot of an open run holds an answer that is not to be lost.
LEMMA AnswerStands ==
  ASSUME Undisturbed, PauseKept, [Next]_vars, ~Terminal, Answer(run.cb)
  PROVE  \/ run'.cb.outputs = run.cb.outputs
         \/ \E p \in Pods : pc[p] = "Loop" /\ pc'[p] = "GateDone" /\ mem[p].cb = run.cb
<1>0. TypeOK /\ OpenRun /\ Issued(run.cb) /\ AnswerKept
  BY DEF PauseKept, Kept, OpenRun, Callbacks
<1>a. /\ minted = 1 /\ run.cb.tok = 1 /\ run.cb.step \notin everDone
      /\ run.cb.step \in Gates /\ \A t \in 1..(run.cb.step - 1) : t \in everDone
      /\ AcceptedFor(run.cb.tok)
  BY <1>0 DEF AnswerKept, Answer, Issued
<1>1. CASE Reconcile
  BY <1>1, PauseReconcile DEF Rewritten, Unanswered, Answer
<1>2. ASSUME NEW q \in Posts, CallbackPatch(q) PROVE run' = run
  <2>1. post[q].state = "admitted" /\ post[q].cb.tok = run.cb.tok
    BY <1>2, <1>a DEF CallbackPatch, PauseKept, Kept, Callbacks, Issued
  <2>2. ~Sole(run.cb.tok)
    BY <1>a, <2>1 DEF AcceptedFor, Sole
  <2>. QED
    BY <2>2 DEF Answer
<1>3. ASSUME NEW p \in Pods, RunnerStep(p), run' # run
      PROVE  \/ run'.cb.outputs = run.cb.outputs
             \/ pc[p] = "Loop" /\ pc'[p] = "GateDone" /\ mem[p].cb = run.cb
  <2>1. CASE PersistRunning(p)
    <3>1. pc[p] = "PersistRunning" /\ run'.cb = mem[p].cb
      BY <1>0, <2>1 DEF PersistRunning, Goto, StatusOverwrite, TypeOK, Status
    <3>. QED
      BY <1>0, <3>1 DEF AnswerKept
  <2>2. CASE PersistFinal(p)
    BY <1>0, <2>2 DEF PersistFinal, Goto, AnswerKept, Early
  <2>3. ASSUME NEW s \in Steps, AtGate(p, s)
        PROVE  mem[p].cb = run.cb /\ mem[p].cb # NilCallback /\ mem[p].cb.step = s
    <3>1. mem[p].cb = run.cb /\ pc[p] = "Loop" /\ ReadyStep(mem[p], s)
      BY <1>0, <2>3 DEF AtGate, AnswerKept, Early
    <3>2. /\ s \notin everDone /\ \A t \in 1..(s - 1) : t \in everDone
          /\ \A t \in Steps : t <= s \/ s \in 1..(t - 1)
      BY <3>1, Ready
    <3>3. run.cb.step \in 1..(s - 1) \/ s \in 1..(run.cb.step - 1) \/ s = run.cb.step
      <4>1. run.cb.step \in Steps
        BY <1>a, ConstantsAssumption
      <4>. QED
        BY <4>1, ConstantsAssumption DEF Steps
    <3>. QED
      BY <1>a, <3>1, <3>2, <3>3 DEF Answer
  <2>4. ASSUME NEW s \in Steps, GateConsume(p, s) \/ GateTimeout(p, s) \/ GateArm(p, s)
        PROVE  pc[p] = "Loop" /\ pc'[p] = "GateDone" /\ mem[p].cb = run.cb
    <3>1. AtGate(p, s)
      BY <2>4 DEF GateConsume, GateTimeout, GateArm
    <3>2. mem[p].cb = run.cb /\ mem[p].cb # NilCallback /\ mem[p].cb.step = s
      BY <2>3, <3>1
    <3>3. GateConsume(p, s)
      BY <2>4, <3>2 DEF GateTimeout, GateArm, ownCallback, Answer
    <3>. QED
      BY <1>0, <3>1, <3>2, <3>3 DEF GateConsume, AtGate, TypeOK
  <2>5. ASSUME NEW s \in Steps,
               \/ StartStep(p, s) \/ CompleteStep(p, s) \/ FailStep(p, s)
               \/ GateRepause(p, s)
        PROVE  FALSE
    BY <1>3, <2>5 DEF StartStep, CompleteStep, FailStep, GateRepause, runVars
  <2>6. CASE \/ Load(p) \/ Restore(p) \/ AllDone(p) \/ NothingExecuted(p) \/ Pause(p)
             \/ Cleanup(p)
    BY <1>3, <2>6 DEF Load, Restore, AllDone, NothingExecuted, Pause, Cleanup, runVars
  <2>7. ~LoadFails(p) /\ ~InitFails(p)
    BY DEF LoadFails, InitFails, Undisturbed
  <2>. QED
    BY <1>3, <2>1, <2>2, <2>4, <2>5, <2>6, <2>7 DEF RunnerStep
<1>4. ASSUME NEW q \in Posts, CallbackAdmit(q) PROVE run' = run
  BY <1>4 DEF CallbackAdmit, runVars
<1>5. ASSUME NEW p \in Pods,
             \/ SaveCheckpoint(p) \/ SaveFails(p) \/ KubernetesStep(p) \/ StartContainer(p)
             \/ Crash(p) \/ DeadlineExceeded(p)
      PROVE  run' = run
  BY <1>5, PausePod
<1>6. CASE SyncRunCache \/ SyncJobCache \/ FinishDelete \/ JobTTL
  BY <1>6, PauseJob
<1>7. ASSUME NEW t, ExpireToken(t) PROVE run' = run
  BY <1>7 DEF ExpireToken, runVars
<1>8. CASE UNCHANGED vars
  BY <1>8 DEF vars, runVars
<1>9. ~SetTriggerStatus /\ ~CancelRun
  BY DEF PauseKept, SetTriggerStatus, CancelRun, Undisturbed
<1>10. CASE run' = run
  BY <1>10
<1>. QED
  BY <1>1, <1>2, <1>3, <1>4, <1>5, <1>6, <1>7, <1>8, <1>9, <1>10 DEF Next, Rest

\* Deliveries keep the token they were admitted with.
LEMMA DeliveriesKept ==
  ASSUME PauseKept, [Next]_vars, NEW t, t # 0, Sole(t)'
  PROVE  Sole(t)
<1>. SUFFICES \A q \in Posts : post'[q].cb = post[q].cb \/ post[q].cb.tok = 0
  BY DEF Sole
<1>. USE DEF reqVars
<1>1. ASSUME NEW q \in Posts, CallbackAdmit(q)
      PROVE  \A r \in Posts : post'[r].cb = post[r].cb \/ post[r].cb.tok = 0
  <2>1. post[q].cb.tok = 0
    BY <1>1, ObjectFields DEF CallbackAdmit, PauseKept, Kept, Callbacks
  <2>2. \A r \in Posts \ {q} : post'[r] = post[r]
    BY <1>1 DEF CallbackAdmit, PauseKept, TypeOK
  <2>. QED
    BY <2>1, <2>2
<1>2. ASSUME NEW q \in Posts, CallbackPatch(q) PROVE \A r \in Posts : post'[r].cb = post[r].cb
  BY <1>2 DEF CallbackPatch, PauseKept, TypeOK
<1>3. Reconcile => post' = post
  BY DEF Reconcile, ReconcileCreate, ReconcileMonitor, ReconcileTimeout, ReconcileStuckPod,
       ReconcileReject, ResumeCreate, ResumeDelete, ResumeFailed, ResumeActive
<1>4. \A u : ExpireToken(u) => post' = post
  BY DEF ExpireToken
<1>5. ASSUME NEW p \in Pods, RunnerStep(p) PROVE post' = post
  BY <1>5
     DEF RunnerStep, Load, LoadFails, PersistRunning, Restore, InitFails, AllDone, NothingExecuted,
         StartStep, CompleteStep, FailStep, GateConsume, GateTimeout, GateRepause, GateArm, Pause,
         Cleanup, PersistFinal
<1>6. \A p \in Pods :
        \/ SaveCheckpoint(p) \/ SaveFails(p) \/ KubernetesStep(p) \/ StartContainer(p)
        \/ Crash(p) \/ DeadlineExceeded(p)
        => post' = post
  BY DEF SaveCheckpoint, SaveFails, KubernetesStep, CreatePod, CountPod, CollectOrphan,
       StartContainer, Crash,
       DeadlineExceeded
<1>7. SyncRunCache \/ SyncJobCache \/ FinishDelete \/ JobTTL => post' = post
  BY DEF SyncRunCache, SyncJobCache, FinishDelete, JobTTL
<1>8. SetTriggerStatus \/ CancelRun => post' = post
  BY DEF SetTriggerStatus, CancelRun
<1>9. UNCHANGED vars => post' = post
  BY DEF vars
<1>. QED
  BY <1>1, <1>2, <1>3, <1>4, <1>5, <1>6, <1>7, <1>8, <1>9 DEF Next, Rest

\* An answer that a sender was told was accepted stays in the slot of an open
\* run until executeWaitForCallback consumes it, if the gate's policy is Fail,
\* its token was delivered once and the checkpoint writes land: the runner that
\* resumes the run loads the answer before it writes the status back, and passes
\* that gate first.
THEOREM AcceptedAnswerConsumed ==
  ASSUME Undisturbed
  PROVE  Spec => CallbackNotLost
<1>. DEFINE NotLost ==
       /\ NoSaveLost /\ run.cb.outputs # NoPost
       /\ \A q, r \in Posts : post'[q].cb.tok = run.cb.tok /\ post'[r].cb.tok = run.cb.tok
                             => q = r
       /\ run.cb.step \notin ContinueGates
       /\ run'.cb.outputs # run.cb.outputs
       => \/ IsTerminal(run.phase)
          \/ \E p \in Pods : /\ pc[p] = "Loop" /\ pc'[p] = "GateDone"
                             /\ mem[p].cb = run.cb
<1>1. PauseInv /\ [Next]_vars => NotLost
  <2>. SUFFICES ASSUME PauseInv, NoSaveLost, [Next]_vars, ~Terminal, run.cb.outputs # NoPost,
                       \A q, r \in Posts :
                         post'[q].cb.tok = run.cb.tok /\ post'[r].cb.tok = run.cb.tok => q = r,
                       run.cb.step \notin ContinueGates, run'.cb.outputs # run.cb.outputs
                PROVE  \E p \in Pods : /\ pc[p] = "Loop" /\ pc'[p] = "GateDone"
                                       /\ mem[p].cb = run.cb
    BY DEF Terminal
  <2>0. PauseKept
    BY PauseHolds
  <2>1. run.cb # NilCallback
    BY ObjectFields
  <2>2. run.cb.tok # 0
    BY <2>0, <2>1 DEF PauseKept, Kept, Callbacks, Issued, TypeOK
  <2>3. \A t : t = run.cb.tok => Sole(t)'
    BY DEF Sole
  <2>4. Sole(run.cb.tok)
    BY <2>0, <2>2, <2>3, DeliveriesKept
  <2>5. Answer(run.cb)
    BY <2>1, <2>4 DEF Answer
  <2>. QED
    BY <2>0, <2>5, AnswerStands
<1>2. Spec => []PauseInv
  BY PauseInvariant
<1>. QED
  BY <1>1, <1>2, PTL DEF Spec, CallbackNotLost
===========================================================================
