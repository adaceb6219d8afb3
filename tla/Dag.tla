-------------------------------- MODULE Dag --------------------------------
(***************************************************************************)
(* The dependency graph of a workflow's steps (executor/dag.go).  A graph  *)
(* is the function that maps every step to the steps it depends on.        *)
(***************************************************************************)

\* node.Dependents: AddEdge(depName, step) for every entry of dependsOn.
Dependents(deps, s) == {t \in DOMAIN deps : s \in deps[t]}

\* A graph has a cycle when some steps each depend on one of them.
Cyclic(deps) ==
  \E S \in SUBSET DOMAIN deps :
    /\ S # {}
    /\ \A s \in S : deps[s] \cap S # {}

\* BuildDAG accepts a graph without unknown names and without cycles.
BuildDAG(deps) ==
  /\ \A s \in DOMAIN deps : deps[s] \subseteq DOMAIN deps
  /\ ~Cyclic(deps)

\* ExecuteWorkflow also refuses a workflow without steps.
Executable(deps) == DOMAIN deps # {} /\ BuildDAG(deps)

GetReadySteps_AnyDependency(deps, completed) ==
  {s \in DOMAIN deps \ completed :
     deps[s] = {} \/ deps[s] \cap completed # {}}

\* The steps that are not completed and whose dependencies all are.
GetReadySteps(deps, completed) ==
  {s \in DOMAIN deps \ completed : deps[s] \subseteq completed}
============================================================================
