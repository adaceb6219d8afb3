--------------------------- MODULE StepExecutor ---------------------------
(***************************************************************************)
(* ExecuteWorkflow: the loop that runs the steps of a workflow.            *)
(*                                                                         *)
(* Every iteration takes the steps that are ready, cuts the list at        *)
(* maxConcurrentSteps and runs them one after the other.  GetReadySteps    *)
(* walks a map, so the list, and what the cut leaves of it, come in any    *)
(* order.  The loop has a budget of twice as many iterations as steps, and *)
(* returns nil with the run unfinished when it runs out of it.             *)
(*                                                                         *)
(* A definition whose name has an underscore is a seeded fault: a variant  *)
(* of the definition that follows it with a plausible bug.                 *)
(***************************************************************************)
EXTENDS Dag, Naturals, FiniteSets

CONSTANTS
  Steps,               \* the names of the steps
  Gates,               \* the steps that may pause for a callback
  MaxConcurrentSteps   \* executionLimits.maxConcurrentSteps, 0 for no limit

ASSUME StepsAssumption ==
  /\ IsFiniteSet(Steps)
  /\ Gates \subseteq Steps
  /\ MaxConcurrentSteps \in Nat

VARIABLES
  deps,        \* the dependsOn of every step
  cont,        \* the steps with failurePolicy Continue
  status,      \* Status.StepStatuses
  phase,       \* Status.Phase
  pc,          \* where ExecuteWorkflow is
  batch,       \* ready steps of this iteration still to be looked at
  executedAny, \* this iteration has run a step
  iteration,   \* iterations completed
  result       \* what ExecuteWorkflow returned

graphVars == <<deps, cont>>
vars == <<graphVars, status, phase, pc, batch, executedAny, iteration, result>>

StepPhases == {"Pending", "Running", "Succeeded", "Failed", "Skipped", "Waiting"}

isStepDone(s) ==
  status[s] \in {"Succeeded", "Skipped"} \/ (status[s] = "Failed" /\ s \in cont)

completedSteps == {s \in Steps : isStepDone(s)}

maxIterations_HalfTheSteps == Cardinality(Steps) \div 2
maxIterations == Cardinality(Steps) * 2

\* A fresh run, or one whose statuses come from a checkpoint, which records
\* steps that were done in an order the graph allows.
Init ==
  /\ deps \in [Steps -> SUBSET Steps]
  /\ cont \in SUBSET Steps
  /\ status \in [Steps -> {"Pending", "Succeeded", "Skipped", "Failed"}]
  /\ \A s \in Steps :
       status[s] # "Pending" => isStepDone(s) /\ deps[s] \subseteq completedSteps
  /\ completedSteps # {} => Executable(deps)
  /\ phase = IF completedSteps = {} THEN "Pending" ELSE "Running"
  /\ pc = "start"
  /\ batch = {}
  /\ executedAny = FALSE
  /\ iteration = 0
  /\ result = "none"

Return(ph, res) ==
  /\ phase' = ph
  /\ result' = res
  /\ pc' = "returned"

\* There are no steps, or BuildDAG refuses the graph: failBeforeSteps.
FailBeforeSteps ==
  /\ pc = "start"
  /\ ~Executable(deps)
  /\ Return("Failed", "error")
  /\ UNCHANGED <<graphVars, status, batch, executedAny, iteration>>

Begin ==
  /\ pc = "start"
  /\ Executable(deps)
  /\ pc' = "loop"
  /\ phase' = "Running"
  /\ UNCHANGED <<graphVars, status, batch, executedAny, iteration, result>>

\* An iteration with ready steps.
TakeReady ==
  /\ pc = "loop" /\ iteration < maxIterations
  /\ LET ready == GetReadySteps(deps, completedSteps)
         limit == IF MaxConcurrentSteps = 0 THEN Cardinality(ready)
                  ELSE MaxConcurrentSteps
     IN /\ ready # {}
        /\ batch' \in {B \in SUBSET ready :
             IF Cardinality(ready) <= limit THEN B = ready
             ELSE Cardinality(B) = limit}
  /\ executedAny' = FALSE
  /\ pc' = "batch"
  /\ UNCHANGED <<graphVars, status, phase, iteration, result>>

\* An iteration without ready steps, or no iteration left: the run has
\* succeeded if every step is done.  If not, and nothing is ready, a Failed
\* step is reported; otherwise ExecuteWorkflow returns nil.
LeaveLoop ==
  /\ pc = "loop"
  /\ iteration < maxIterations => GetReadySteps(deps, completedSteps) = {}
  /\ IF completedSteps = Steps THEN Return("Succeeded", "nil")
     ELSE IF /\ iteration < maxIterations
             /\ \E s \in Steps : status[s] = "Failed"
     THEN Return("Failed", "error")
     ELSE Return(phase, "nil")
  /\ UNCHANGED <<graphVars, status, batch, executedAny, iteration>>

\* The next ready step that is Pending.
Take(s) ==
  /\ pc = "batch"
  /\ s \in batch /\ status[s] = "Pending"
  /\ batch' = batch \ {s}
  /\ executedAny' = TRUE

\* A match condition is false.
SkipStep(s) ==
  /\ Take(s)
  /\ status' = [status EXCEPT ![s] = "Skipped"]
  /\ UNCHANGED <<graphVars, phase, pc, iteration, result>>

\* A step has failed: go on under Continue, otherwise record the failure.
Fails(s, next) ==
  /\ status' = [status EXCEPT ![s] = "Failed"]
  /\ IF s \in cont THEN pc' = next /\ UNCHANGED <<phase, result>>
     ELSE Return("Failed", "error")

\* A match condition cannot be evaluated.
MatchError(s) ==
  /\ Take(s)
  /\ Fails(s, "batch")
  /\ UNCHANGED <<graphVars, iteration>>

StartStep(s) ==
  /\ Take(s)
  /\ status' = [status EXCEPT ![s] = "Running"]
  /\ pc' = "step"
  /\ UNCHANGED <<graphVars, phase, iteration, result>>

StepSucceeds(s) ==
  /\ pc = "step" /\ status[s] = "Running"
  /\ status' = [status EXCEPT ![s] = "Succeeded"]
  /\ pc' = "batch"
  /\ UNCHANGED <<graphVars, phase, batch, executedAny, iteration, result>>

StepFails(s) ==
  /\ pc = "step" /\ status[s] = "Running"
  /\ Fails(s, "batch")
  /\ UNCHANGED <<graphVars, batch, executedAny, iteration>>

\* ErrAwaitingCallback: the step waits and the error is passed up.
StepAwaits(s) ==
  /\ pc = "step" /\ status[s] = "Running"
  /\ s \in Gates
  /\ status' = [status EXCEPT ![s] = "Waiting"]
  /\ Return(phase, "awaiting")
  /\ UNCHANGED <<graphVars, batch, executedAny, iteration>>

\* The ready list is used up: steps in it that are not Pending are passed
\* over.  An iteration that ran nothing ends the loop.
EndBatch ==
  /\ pc = "batch"
  /\ \A s \in batch : status[s] # "Pending"
  /\ batch' = {}
  /\ IF executedAny
     THEN /\ pc' = "loop" /\ iteration' = iteration + 1
          /\ UNCHANGED <<phase, result>>
     ELSE /\ IF completedSteps = Steps THEN Return("Succeeded", "nil")
             ELSE Return(phase, "nil")
          /\ UNCHANGED iteration
  /\ UNCHANGED <<graphVars, status, executedAny>>

StepAction(s) ==
  \/ SkipStep(s) \/ MatchError(s) \/ StartStep(s)
  \/ StepSucceeds(s) \/ StepFails(s) \/ StepAwaits(s)

Returned == pc = "returned" /\ UNCHANGED vars

Next ==
  \/ FailBeforeSteps \/ Begin
  \/ TakeReady \/ LeaveLoop \/ EndBatch
  \/ \E s \in Steps : StepAction(s)
  \/ Returned

Spec == Init /\ [][Next]_vars
FairSpec == Spec /\ WF_vars(Next)

---------------------------------------------------------------------------
\* Every variable of ExecuteWorkflow has its type; the iteration counter of the
\* step loop never leaves Nat.
TypeOK ==
  /\ deps \in [Steps -> SUBSET Steps] /\ cont \in SUBSET Steps
  /\ status \in [Steps -> StepPhases]
  /\ phase \in {"Pending", "Running", "Succeeded", "Failed"}
  /\ pc \in {"start", "loop", "batch", "step", "returned"}
  /\ batch \in SUBSET Steps
  /\ executedAny \in BOOLEAN
  /\ iteration \in Nat
  /\ result \in {"none", "nil", "error", "awaiting"}

\* ExecuteWorkflow never gives up on a run: when it returns nil the workflow
\* has succeeded, so neither the iteration budget, nor a cut ready list, nor
\* a stuck graph ends the loop with the run still Running.
NilMeansSucceeded == result = "nil" => phase = "Succeeded"

\* The promise in terms of the execution: a step that runs or waits has not
\* settled.
Settled(s) == IF status[s] \in {"Running", "Waiting"} THEN "Pending" ELSE status[s]
Outcome ==
  IF phase \in {"Succeeded", "Failed"} THEN phase
  ELSE IF result = "awaiting" THEN "Paused"
  ELSE "open"

Promise == INSTANCE WorkflowPromise
             WITH settled <- [s \in Steps |-> Settled(s)], outcome <- Outcome

\* ExecuteWorkflow implements the promise of a workflow: dependencies first,
\* every step settled at most once, success exactly when every step is done.
KeepsPromise == Promise!Spec

\* ExecuteWorkflow returns: the step loop cannot turn for ever.
Terminates == <>(pc = "returned")
===========================================================================
