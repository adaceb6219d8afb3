------------------------ MODULE StepExecutorProofs ------------------------
(***************************************************************************)
(* The step loop never gives up on a run, and keeps the promise of a       *)
(* workflow, for every graph, every batch limit and every order in which   *)
(* the ready steps come.                                                   *)
(*                                                                         *)
(* Two facts carry the argument.  Every iteration completes a step, so the *)
(* completed steps always outnumber the iterations and the budget of two   *)
(* iterations per step is never used up.  And in a graph without cycles    *)
(* there is a ready step as long as one is not completed, so a loop that   *)
(* finds none has completed them all.                                      *)
(***************************************************************************)
EXTENDS StepExecutor, FiniteSetTheorems, TLAPS

InLoop == pc \in {"loop", "batch", "step"}

\* Until ExecuteWorkflow returns, the outcome of the run is open.
OpenUntilReturned ==
  /\ pc # "returned" => result = "none" /\ phase \in {"Pending", "Running"}
  /\ pc = "start" => iteration = 0 /\ batch = {}
  /\ InLoop => Executable(deps)

\* A step that is not done is Pending, or it is the one that is running.
DoneOrPending ==
  /\ pc \in {"start", "loop", "batch"} =>
       \A s \in Steps : status[s] = "Pending" \/ isStepDone(s)
  /\ pc = "step" =>
       /\ \A s \in Steps : status[s] \in {"Pending", "Running"} \/ isStepDone(s)
       /\ \A s, t \in Steps :
            status[s] = "Running" /\ status[t] = "Running" => s = t
       /\ \A s \in Steps : status[s] = "Running" => deps[s] \subseteq completedSteps

\* The steps of a batch are ready, and the first of them will be run.
BatchIsReady ==
  /\ InLoop => \A s \in batch : deps[s] \subseteq completedSteps
  /\ pc = "batch" /\ ~executedAny =>
       \E s \in batch : status[s] = "Pending"
  /\ pc = "step" => executedAny

\* Every iteration that has ended has completed a step.
IterationsPaid ==
  /\ pc \in {"loop", "step"} \/ (pc = "batch" /\ ~executedAny)
       => iteration <= Cardinality(completedSteps)
  /\ pc = "batch" /\ executedAny
       => iteration + 1 <= Cardinality(completedSteps)

Inv ==
  /\ TypeOK
  /\ OpenUntilReturned
  /\ DoneOrPending
  /\ BatchIsReady
  /\ IterationsPaid
  /\ NilMeansSucceeded

---------------------------------------------------------------------------
\* The completed steps are a finite set of steps.
LEMMA CompletedFinite ==
  /\ completedSteps \subseteq Steps
  /\ IsFiniteSet(completedSteps)
  /\ Cardinality(completedSteps) \in Nat
  /\ Cardinality(Steps) \in Nat
  /\ Cardinality(completedSteps) <= Cardinality(Steps)
<1>1. completedSteps \in SUBSET Steps
  BY DEF completedSteps
<1>. QED
  BY <1>1, StepsAssumption, FS_Subset, FS_CardinalityType

\* A step that becomes done is added to the completed steps, and counts.
LEMMA CompletedGrows ==
  ASSUME status \in [Steps -> StepPhases], NEW s \in Steps, NEW x,
         status' = [status EXCEPT ![s] = x], cont' = cont,
         ~isStepDone(s), isStepDone(s)'
  PROVE  /\ completedSteps' = completedSteps \cup {s}
         /\ Cardinality(completedSteps') = Cardinality(completedSteps) + 1
<1>1. completedSteps' = completedSteps \cup {s}
  BY DEF completedSteps, isStepDone
<1>2. s \notin completedSteps
  BY DEF completedSteps
<1>. QED
  BY <1>1, <1>2, CompletedFinite, FS_AddElement

\* A step that does not become done leaves the completed steps alone.
LEMMA CompletedStays ==
  ASSUME status \in [Steps -> StepPhases], NEW s \in Steps, NEW x,
         status' = [status EXCEPT ![s] = x], cont' = cont,
         ~isStepDone(s), ~isStepDone(s)'
  PROVE  completedSteps' = completedSteps
BY DEF completedSteps, isStepDone

\* When no step of an executable graph is ready, every step is completed.
LEMMA NothingReady ==
  ASSUME deps \in [Steps -> SUBSET Steps], Executable(deps),
         GetReadySteps(deps, completedSteps) = {}
  PROVE  completedSteps = Steps
<1>. DEFINE S == Steps \ completedSteps
<1>1. S = {} => completedSteps = Steps
  BY DEF completedSteps
<1>2. S \in SUBSET DOMAIN deps
  OBVIOUS
<1>3. \A s \in S : deps[s] \cap S # {}
  BY DEF GetReadySteps
<1>4. ~Cyclic(deps)
  BY DEF Executable, BuildDAG
<1>. QED
  BY <1>1, <1>2, <1>3, <1>4 DEF Cyclic

\* The iteration budget is never used up.
LEMMA BudgetLeft ==
  ASSUME Inv, pc = "loop"
  PROVE  iteration < maxIterations
<1>1. Steps # {}
  BY DEF Inv, OpenUntilReturned, InLoop, Executable, TypeOK
<1>2. Cardinality(Steps) # 0
  BY <1>1, StepsAssumption, FS_EmptySet
<1>3. iteration <= Cardinality(completedSteps) /\ iteration \in Nat
  BY DEF Inv, IterationsPaid, TypeOK
<1>. QED
  BY <1>2, <1>3, CompletedFinite DEF maxIterations

LEMMA InitInv == Init => Inv
<1>. SUFFICES ASSUME Init PROVE Inv
  OBVIOUS
<1>1. TypeOK
  BY DEF Init, TypeOK, StepPhases
<1>2. OpenUntilReturned
  BY DEF Init, OpenUntilReturned, InLoop
<1>3. DoneOrPending
  BY DEF Init, DoneOrPending
<1>4. BatchIsReady /\ IterationsPaid /\ NilMeansSucceeded
  BY DEF Init, BatchIsReady, InLoop, IterationsPaid, NilMeansSucceeded
<1>. QED
  BY <1>1, <1>2, <1>3, <1>4 DEF Inv

\* Every action keeps the variables in their types.
LEMMA StepTypeOK == TypeOK /\ [Next]_vars => TypeOK'
<1>. SUFFICES ASSUME TypeOK, [Next]_vars PROVE TypeOK'
  OBVIOUS
<1>. USE DEF TypeOK
<1>1. CASE FailBeforeSteps
  BY <1>1 DEF FailBeforeSteps, Return, graphVars
<1>2. CASE Begin
  BY <1>2 DEF Begin, graphVars
<1>3. CASE TakeReady
  BY <1>3 DEF TakeReady, GetReadySteps, graphVars
<1>4. CASE LeaveLoop
  BY <1>4 DEF LeaveLoop, Return, graphVars
<1>5. CASE EndBatch
  BY <1>5 DEF EndBatch, Return, graphVars
<1>6. ASSUME NEW s \in Steps, StepAction(s) PROVE TypeOK'
  <2>1. CASE SkipStep(s)
    BY <2>1 DEF SkipStep, Take, StepPhases, graphVars
  <2>2. CASE MatchError(s)
    BY <2>2 DEF MatchError, Fails, Take, Return, StepPhases, graphVars
  <2>3. CASE StartStep(s)
    BY <2>3 DEF StartStep, Take, StepPhases, graphVars
  <2>4. CASE StepSucceeds(s)
    BY <2>4 DEF StepSucceeds, StepPhases, graphVars
  <2>5. CASE StepFails(s)
    BY <2>5 DEF StepFails, Fails, Return, StepPhases, graphVars
  <2>6. CASE StepAwaits(s)
    BY <2>6 DEF StepAwaits, Return, StepPhases, graphVars
  <2>. QED
    BY <1>6, <2>1, <2>2, <2>3, <2>4, <2>5, <2>6 DEF StepAction
<1>7. CASE UNCHANGED vars
  BY <1>7 DEF vars, graphVars
<1>. QED
  BY <1>1, <1>2, <1>3, <1>4, <1>5, <1>6, <1>7 DEF Next, Returned

---------------------------------------------------------------------------
\* Before the loop, and between iterations, no step changes its status.
LEMMA SameStatus ==
  ASSUME UNCHANGED <<status, cont>>
  PROVE  /\ completedSteps' = completedSteps
         /\ \A s \in Steps : isStepDone(s)' = isStepDone(s)
BY DEF completedSteps, isStepDone

\* A batch is a non-empty set of ready steps, all of them Pending.
LEMMA BatchTaken ==
  ASSUME Inv, TakeReady
  PROVE  /\ batch' # {}
         /\ batch' \subseteq GetReadySteps(deps, completedSteps)
         /\ \A s \in batch' : status[s] = "Pending"
<1>. DEFINE ready == GetReadySteps(deps, completedSteps)
            limit == IF MaxConcurrentSteps = 0 THEN Cardinality(ready)
                     ELSE MaxConcurrentSteps
<1>1. /\ ready # {} /\ batch' \in SUBSET ready
      /\ IF Cardinality(ready) <= limit THEN batch' = ready
         ELSE Cardinality(batch') = limit
  BY DEF TakeReady
<1>2. ready \in SUBSET Steps
  BY DEF Inv, TypeOK, GetReadySteps
<1>3. Cardinality(ready) \in Nat
  BY <1>2, StepsAssumption, FS_Subset, FS_CardinalityType
<1>4. limit # 0 \/ batch' = ready
  BY <1>1, <1>3, StepsAssumption
<1>5. batch' # {}
  BY <1>1, <1>4, FS_EmptySet
<1>6. \A s \in ready : status[s] = "Pending"
  BY <1>2 DEF Inv, DoneOrPending, TakeReady, GetReadySteps, completedSteps
<1>. QED
  BY <1>1, <1>5, <1>6

\* The actions outside a step preserve the invariant.
LEMMA LoopActionInv ==
  ASSUME Inv, TypeOK',
         FailBeforeSteps \/ Begin \/ TakeReady \/ LeaveLoop \/ EndBatch
  PROVE  Inv'
<1>. USE DEF Inv
<1>1. CASE FailBeforeSteps
  BY <1>1 DEF FailBeforeSteps, Return, OpenUntilReturned, InLoop,
       DoneOrPending, BatchIsReady, IterationsPaid, NilMeansSucceeded
<1>2. CASE Begin
  <2>. USE <1>2 DEF Begin, graphVars
  <2>1. OpenUntilReturned' /\ DoneOrPending'
    BY SameStatus DEF OpenUntilReturned, InLoop, DoneOrPending
  <2>2. BatchIsReady'
    BY DEF BatchIsReady, InLoop, OpenUntilReturned
  <2>3. IterationsPaid' /\ NilMeansSucceeded'
    BY SameStatus, CompletedFinite
       DEF IterationsPaid, OpenUntilReturned, NilMeansSucceeded
  <2>. QED
    BY <2>1, <2>2, <2>3
<1>3. CASE TakeReady
  <2>. USE <1>3
  <2>1. OpenUntilReturned' /\ DoneOrPending'
    BY SameStatus
       DEF TakeReady, graphVars, OpenUntilReturned, InLoop, DoneOrPending
  <2>2. BatchIsReady'
    BY SameStatus, BatchTaken
       DEF TakeReady, graphVars, BatchIsReady, InLoop, GetReadySteps
  <2>3. IterationsPaid' /\ NilMeansSucceeded'
    BY SameStatus DEF TakeReady, graphVars, IterationsPaid, NilMeansSucceeded
  <2>. QED
    BY <2>1, <2>2, <2>3
<1>4. CASE LeaveLoop
  <2>1. completedSteps = Steps
    BY <1>4, BudgetLeft, NothingReady
       DEF LeaveLoop, OpenUntilReturned, InLoop, TypeOK
  <2>. QED
    BY <1>4, <2>1
       DEF LeaveLoop, Return, OpenUntilReturned, InLoop, DoneOrPending,
           BatchIsReady, IterationsPaid, NilMeansSucceeded
<1>5. CASE EndBatch
  <2>. USE <1>5
  <2>1. executedAny
    BY DEF EndBatch, BatchIsReady
  <2>2. OpenUntilReturned' /\ DoneOrPending'
    BY <2>1, SameStatus
       DEF EndBatch, graphVars, OpenUntilReturned, InLoop, DoneOrPending
  <2>3. BatchIsReady' /\ IterationsPaid' /\ NilMeansSucceeded'
    BY <2>1, SameStatus
       DEF EndBatch, graphVars, BatchIsReady, InLoop, IterationsPaid,
           NilMeansSucceeded
  <2>. QED
    BY <2>2, <2>3
<1>. QED
  BY <1>1, <1>2, <1>3, <1>4, <1>5

\* A step that settles at once: it is skipped, or its match condition fails.
LEMMA TakenStepInv ==
  ASSUME Inv, TypeOK', NEW s \in Steps,
         SkipStep(s) \/ MatchError(s) \/ StartStep(s)
  PROVE  Inv'
<1>. USE DEF Inv
<1>1. /\ status[s] = "Pending" /\ ~isStepDone(s) /\ cont' = cont /\ deps' = deps
      /\ pc = "batch" /\ s \in batch /\ batch' = batch \ {s} /\ executedAny'
      /\ iteration' = iteration
  BY DEF SkipStep, MatchError, StartStep, Take, isStepDone, graphVars
<1>2. /\ iteration <= Cardinality(completedSteps)
      /\ executedAny => iteration + 1 <= Cardinality(completedSteps)
  BY <1>1, CompletedFinite DEF IterationsPaid, TypeOK
<1>3. CASE SkipStep(s) \/ (MatchError(s) /\ s \in cont)
  <2>1. /\ pc' = "batch" /\ UNCHANGED <<phase, result>>
        /\ \E x : status' = [status EXCEPT ![s] = x]
        /\ isStepDone(s)'
    BY <1>1, <1>3 DEF SkipStep, MatchError, Fails, isStepDone, TypeOK
  <2>2. /\ completedSteps' = completedSteps \cup {s}
        /\ Cardinality(completedSteps') = Cardinality(completedSteps) + 1
    BY <1>1, <2>1, CompletedGrows DEF TypeOK
  <2>3. OpenUntilReturned' /\ NilMeansSucceeded'
    BY <1>1, <2>1 DEF OpenUntilReturned, InLoop, NilMeansSucceeded
  <2>4. DoneOrPending'
    BY <1>1, <2>1 DEF DoneOrPending, isStepDone, TypeOK
  <2>5. BatchIsReady'
    BY <1>1, <2>1, <2>2 DEF BatchIsReady, InLoop
  <2>6. IterationsPaid'
    BY <1>1, <1>2, <2>1, <2>2, CompletedFinite DEF IterationsPaid, TypeOK
  <2>. QED
    BY <2>3, <2>4, <2>5, <2>6
<1>4. CASE MatchError(s) /\ s \notin cont
  BY <1>4 DEF MatchError, Fails, Return, OpenUntilReturned, InLoop,
       DoneOrPending, BatchIsReady, IterationsPaid, NilMeansSucceeded
<1>5. CASE StartStep(s)
  <2>1. /\ pc' = "step" /\ UNCHANGED <<phase, result>>
        /\ status' = [status EXCEPT ![s] = "Running"]
        /\ ~isStepDone(s)'
    BY <1>1, <1>5 DEF StartStep, isStepDone, TypeOK
  <2>2. completedSteps' = completedSteps
    BY <1>1, <2>1, CompletedStays DEF TypeOK
  <2>3. OpenUntilReturned' /\ NilMeansSucceeded'
    BY <1>1, <2>1 DEF OpenUntilReturned, InLoop, NilMeansSucceeded
  <2>4. DoneOrPending'
    BY <1>1, <2>1, <2>2
       DEF DoneOrPending, BatchIsReady, InLoop, isStepDone, TypeOK
  <2>5. BatchIsReady'
    BY <1>1, <2>1, <2>2 DEF BatchIsReady, InLoop
  <2>6. IterationsPaid'
    BY <1>1, <1>2, <2>1, <2>2 DEF IterationsPaid
  <2>. QED
    BY <2>3, <2>4, <2>5, <2>6
<1>. QED
  BY <1>3, <1>4, <1>5

\* A running step ends.
LEMMA RunningStepInv ==
  ASSUME Inv, TypeOK', NEW s \in Steps,
         StepSucceeds(s) \/ StepFails(s) \/ StepAwaits(s)
  PROVE  Inv'
<1>. USE DEF Inv
<1>1. CASE StepSucceeds(s) \/ (StepFails(s) /\ s \in cont)
  <2>1. /\ pc = "step" /\ status[s] = "Running" /\ ~isStepDone(s)
        /\ pc' = "batch" /\ UNCHANGED <<phase, result, batch, executedAny, iteration>>
        /\ deps' = deps /\ cont' = cont
        /\ \E x : status' = [status EXCEPT ![s] = x]
        /\ isStepDone(s)'
    BY <1>1 DEF StepSucceeds, StepFails, Fails, isStepDone, TypeOK, graphVars
  <2>2. /\ completedSteps' = completedSteps \cup {s}
        /\ Cardinality(completedSteps') = Cardinality(completedSteps) + 1
    BY <2>1, CompletedGrows DEF TypeOK
  <2>3. OpenUntilReturned' /\ NilMeansSucceeded'
    BY <2>1 DEF OpenUntilReturned, InLoop, NilMeansSucceeded
  <2>4. DoneOrPending'
    BY <2>1 DEF DoneOrPending, isStepDone, TypeOK
  <2>5. BatchIsReady'
    BY <2>1, <2>2 DEF BatchIsReady, InLoop
  <2>6. IterationsPaid'
    BY <2>1, <2>2, CompletedFinite DEF IterationsPaid, TypeOK
  <2>. QED
    BY <2>3, <2>4, <2>5, <2>6
<1>2. CASE (StepFails(s) /\ s \notin cont) \/ StepAwaits(s)
  BY <1>2 DEF StepFails, StepAwaits, Fails, Return, OpenUntilReturned, InLoop,
       DoneOrPending, BatchIsReady, IterationsPaid, NilMeansSucceeded
<1>. QED
  BY <1>1, <1>2

\* The invariant is inductive.
LEMMA StepInv == Inv /\ [Next]_vars => Inv'
<1>. SUFFICES ASSUME Inv, [Next]_vars PROVE Inv'
  OBVIOUS
<1>1. TypeOK'
  BY StepTypeOK DEF Inv
<1>2. CASE UNCHANGED vars
  BY <1>2 DEF vars, graphVars, Inv, TypeOK, OpenUntilReturned, InLoop,
       DoneOrPending, BatchIsReady, IterationsPaid, NilMeansSucceeded,
       completedSteps, isStepDone
<1>. QED
  BY <1>1, <1>2, LoopActionInv, TakenStepInv, RunningStepInv
     DEF Next, StepAction, Returned

---------------------------------------------------------------------------
\* Every variable of the step loop keeps its type.
THEOREM StepExecutorTypeOK == Spec => []TypeOK
<1>1. Init => TypeOK
  BY InitInv DEF Inv
<1>. QED
  BY <1>1, StepTypeOK, PTL DEF Spec

\* ExecuteWorkflow never returns nil with a run that has not succeeded: the
\* budget of two iterations per step always suffices, whatever the graph and
\* however maxConcurrentSteps cuts the ready list.
THEOREM NeverGivesUp == Spec => []NilMeansSucceeded
<1>1. Inv => NilMeansSucceeded
  BY DEF Inv
<1>. QED
  BY <1>1, InitInv, StepInv, PTL DEF Spec

---------------------------------------------------------------------------
(***************************************************************************)
(* The refinement.  A step is settled once its status is final; the        *)
(* outcome is open until the run is terminal or paused.                    *)
(***************************************************************************)
settledSteps == [s \in Steps |-> Settled(s)]

\* The promise counts the same steps as done.
LEMMA SameDone ==
  /\ \A s \in Steps : Promise!IsDone(s) <=> isStepDone(s)
  /\ Promise!Done = completedSteps
<1>1. \A s \in Steps : Promise!IsDone(s) <=> isStepDone(s)
  BY DEF Promise!IsDone, isStepDone, Settled
<1>. QED
  BY <1>1 DEF Promise!Done, completedSteps

\* The promise accepts the same graphs.
LEMMA SameGraphs == Promise!Executable(deps) <=> Executable(deps)
BY DEF Promise!Executable, Executable, Promise!BuildDAG, BuildDAG,
       Promise!Cyclic, Cyclic

\* The initial states of the loop are initial states of the promise.
LEMMA InitRefines == Init => Promise!Init
<1>. SUFFICES ASSUME Init PROVE Promise!Init
  OBVIOUS
<1>1. Outcome = "open"
  BY DEF Init, Outcome
<1>2. \A s \in Steps : Settled(s) = status[s]
  BY DEF Init, Settled
<1>3. settledSteps \in [Steps -> {"Pending", "Succeeded", "Skipped", "Failed"}]
  BY <1>2 DEF Init, settledSteps
<1>. QED
  BY <1>1, <1>2, <1>3, SameDone, SameGraphs
     DEF Init, Promise!Init, settledSteps

\* A step that settles in the loop settles in the promise.
LEMMA SettleRefines ==
  ASSUME Inv, NEW s \in Steps, NEW x \in {"Succeeded", "Skipped", "Failed"},
         pc \in {"batch", "step"}, status[s] \in {"Pending", "Running"},
         deps[s] \subseteq completedSteps,
         status' = [status EXCEPT ![s] = x], UNCHANGED <<deps, cont>>,
         IF x = "Failed" /\ s \notin cont
         THEN phase' = "Failed" ELSE UNCHANGED <<phase, result>>
  PROVE  Promise!Settle(s)
<1>1. Outcome = "open" /\ Executable(deps)
  BY DEF Inv, OpenUntilReturned, InLoop, Outcome
<1>2. settledSteps[s] = "Pending"
  BY DEF settledSteps, Settled
<1>3. settledSteps' = [settledSteps EXCEPT ![s] = x]
  BY DEF settledSteps, Settled, Inv, TypeOK
<1>4. Outcome' = IF x = "Failed" /\ s \notin cont THEN "Failed" ELSE "open"
  BY <1>1 DEF Outcome, Inv, OpenUntilReturned
<1>. QED
  BY <1>1, <1>2, <1>3, <1>4, SameDone, SameGraphs
     DEF Promise!Settle, settledSteps

\* Every step of the loop is a step of the promise or leaves it alone.
LEMMA StepRefines ==
  Inv /\ [Next]_vars => [Promise!Next]_Promise!vars
<1>. SUFFICES ASSUME Inv, [Next]_vars
              PROVE  [Promise!Next]_Promise!vars
  OBVIOUS
<1>0. ASSUME UNCHANGED <<deps, cont>>, Outcome' = Outcome,
             settledSteps' = settledSteps
      PROVE  UNCHANGED Promise!vars
  BY <1>0 DEF Promise!vars, settledSteps
<1>1. CASE FailBeforeSteps
  BY <1>1, SameGraphs
     DEF FailBeforeSteps, Return, graphVars, Promise!Next, Promise!Refuse,
       Outcome, Settled, Inv, OpenUntilReturned
<1>2. CASE Begin
  BY <1>0, <1>2 DEF Begin, graphVars, Outcome, Inv, OpenUntilReturned,
       settledSteps, Settled
<1>3. CASE TakeReady
  BY <1>0, <1>3 DEF TakeReady, graphVars, Outcome, settledSteps, Settled
<1>4. CASE LeaveLoop
  <2>1. completedSteps = Steps
    BY <1>4, BudgetLeft, NothingReady
       DEF LeaveLoop, Inv, OpenUntilReturned, InLoop, TypeOK
  <2>2. Promise!Succeed
    BY <1>4, <2>1, SameDone, SameGraphs
       DEF LeaveLoop, Return, graphVars, Promise!Succeed, Outcome, Settled, Inv,
           OpenUntilReturned, InLoop
  <2>. QED
    BY <2>2 DEF Promise!Next
<1>5. CASE EndBatch
  BY <1>0, <1>5 DEF EndBatch, Inv, BatchIsReady, graphVars, Outcome,
       settledSteps, Settled
<1>6. ASSUME NEW s \in Steps, StepAction(s)
      PROVE  [Promise!Next]_Promise!vars
  <2>1. CASE SkipStep(s) \/ MatchError(s)
    <3>1. \E x \in {"Skipped", "Failed"} :
            /\ status' = [status EXCEPT ![s] = x]
            /\ IF x = "Failed" /\ s \notin cont
               THEN phase' = "Failed" ELSE UNCHANGED <<phase, result>>
      BY <2>1 DEF SkipStep, MatchError, Fails, Return
    <3>2. Promise!Settle(s)
      BY <2>1, <3>1, SettleRefines
         DEF SkipStep, MatchError, Take, graphVars, Inv, BatchIsReady, InLoop
    <3>. QED
      BY <3>2 DEF Promise!Next
  <2>2. CASE StartStep(s)
    <3>1. settledSteps' = settledSteps
      BY <2>2 DEF StartStep, Take, settledSteps, Settled, Inv, TypeOK
    <3>. QED
      BY <1>0, <2>2, <3>1 DEF StartStep, graphVars, Outcome
  <2>3. CASE StepSucceeds(s) \/ StepFails(s)
    <3>1. \E x \in {"Succeeded", "Failed"} :
            /\ status' = [status EXCEPT ![s] = x]
            /\ IF x = "Failed" /\ s \notin cont
               THEN phase' = "Failed" ELSE UNCHANGED <<phase, result>>
      BY <2>3 DEF StepSucceeds, StepFails, Fails, Return
    <3>2. Promise!Settle(s)
      BY <2>3, <3>1, SettleRefines
         DEF StepSucceeds, StepFails, graphVars, Inv, DoneOrPending
    <3>. QED
      BY <3>2 DEF Promise!Next
  <2>4. CASE StepAwaits(s)
    <3>1. settledSteps' = settledSteps
      BY <2>4 DEF StepAwaits, settledSteps, Settled, Inv, TypeOK
    <3>2. Outcome = "open" /\ Outcome' = "Paused" /\ Executable(deps)
      BY <2>4 DEF StepAwaits, Return, Outcome, Inv, OpenUntilReturned, InLoop
    <3>3. settledSteps[s] = "Pending" /\ deps[s] \subseteq Promise!Done
      BY <2>4, SameDone
         DEF StepAwaits, settledSteps, Settled, Inv, DoneOrPending
    <3>4. Promise!Pause
      BY <2>4, <3>1, <3>2, <3>3, SameGraphs
         DEF StepAwaits, graphVars, Promise!Pause, settledSteps
    <3>. QED
      BY <3>4 DEF Promise!Next
  <2>. QED
    BY <1>6, <2>1, <2>2, <2>3, <2>4 DEF StepAction
<1>7. CASE UNCHANGED vars
  BY <1>0, <1>7 DEF vars, graphVars, Outcome, settledSteps, Settled
<1>. QED
  BY <1>1, <1>2, <1>3, <1>4, <1>5, <1>6, <1>7 DEF Next, Returned

\* The loop implements the promise of a workflow: a step settles once and
\* after its dependencies, the first failure without Continue fails the run,
\* and the run succeeds only when every step is done.
THEOREM ImplementsPromise == Spec => KeepsPromise
<1>. QED
  BY InitInv, StepInv, InitRefines, StepRefines, PTL
     DEF Spec, KeepsPromise, Promise!Spec
===========================================================================
