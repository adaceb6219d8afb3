-------------------------- MODULE WorkflowPromise --------------------------
(***************************************************************************)
(* What executing a workflow promises, whatever the loop that executes it: *)
(* a step settles once, after everything it depends on is done; the first  *)
(* step that fails without failurePolicy Continue ends the workflow as     *)
(* Failed; the workflow succeeds when, and only when, every step is done.  *)
(***************************************************************************)
EXTENDS Dag

CONSTANT Steps

VARIABLES
  deps,     \* the dependsOn of every step
  cont,     \* the steps with failurePolicy Continue
  settled,  \* what each step has come to
  outcome   \* what the execution has come to

vars == <<deps, cont, settled, outcome>>

\* A step whose dependents may run.
IsDone(s) ==
  settled[s] \in {"Succeeded", "Skipped"} \/ (settled[s] = "Failed" /\ s \in cont)

Done == {s \in Steps : IsDone(s)}

\* The execution starts afresh, or from a checkpoint: some steps are done,
\* and each of them was done after its dependencies.
Init ==
  /\ deps \in [Steps -> SUBSET Steps]
  /\ cont \in SUBSET Steps
  /\ settled \in [Steps -> {"Pending", "Succeeded", "Skipped", "Failed"}]
  /\ \A s \in Steps : settled[s] # "Pending" => IsDone(s) /\ deps[s] \subseteq Done
  /\ Done # {} => Executable(deps)
  /\ outcome = "open"

Settle(s) ==
  /\ outcome = "open" /\ Executable(deps)
  /\ settled[s] = "Pending" /\ deps[s] \subseteq Done
  /\ \E phase \in {"Succeeded", "Skipped", "Failed"} :
       /\ settled' = [settled EXCEPT ![s] = phase]
       /\ outcome' = IF phase = "Failed" /\ s \notin cont THEN "Failed" ELSE "open"
  /\ UNCHANGED <<deps, cont>>

\* A step asks to wait for a callback; the run will be resumed later.
Pause ==
  /\ outcome = "open" /\ Executable(deps)
  /\ \E s \in Steps : settled[s] = "Pending" /\ deps[s] \subseteq Done
  /\ outcome' = "Paused"
  /\ UNCHANGED <<deps, cont, settled>>

Succeed ==
  /\ outcome = "open" /\ Executable(deps)
  /\ Done = Steps
  /\ outcome' = "Succeeded"
  /\ UNCHANGED <<deps, cont, settled>>

\* An empty graph, or one with a cycle, is refused before any step.
Refuse ==
  /\ outcome = "open" /\ ~Executable(deps)
  /\ outcome' = "Failed"
  /\ UNCHANGED <<deps, cont, settled>>

Next == (\E s \in Steps : Settle(s)) \/ Pause \/ Succeed \/ Refuse

Spec == Init /\ [][Next]_vars
============================================================================
