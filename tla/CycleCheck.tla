---------------------------- MODULE CycleCheck ----------------------------
(***************************************************************************)
(* HasCycle: depth-first search for a cycle among the dependents of the    *)
(* steps.  The recursion of hasCycleDFS is the sequence of active calls;   *)
(* Go visits the nodes, a map, in any order.                               *)
(*                                                                         *)
(* A definition whose name has an underscore is a seeded fault: a variant  *)
(* of the definition that follows it with a plausible bug.                 *)
(***************************************************************************)
EXTENDS Dag, Naturals, Sequences

CONSTANT Steps

VARIABLES
  deps,      \* the graph
  visited,   \* the visited map
  recStack,  \* the recStack map
  calls,     \* the active calls of hasCycleDFS, outermost first
  todo,      \* for each visited node, dependents its loop has yet to see
  result     \* what HasCycle has returned

vars == <<deps, visited, recStack, calls, todo, result>>

Graphs == [Steps -> SUBSET Steps]

Init ==
  /\ deps \in Graphs
  /\ visited = {}
  /\ recStack = {}
  /\ calls = <<>>
  /\ todo = [s \in Steps |-> {}]
  /\ result = "searching"

Current == calls[Len(calls)]

\* Entering hasCycleDFS for s, with rest left to the loops of the callers.
Enter(s, rest) ==
  /\ visited' = visited \cup {s}
  /\ recStack' = recStack \cup {s}
  /\ calls' = Append(calls, s)
  /\ todo' = [rest EXCEPT ![s] = Dependents(deps, s)]

\* The loop of HasCycle picks a node that has not been visited.
StartAt(s) ==
  /\ result = "searching" /\ calls = <<>>
  /\ s \notin visited
  /\ Enter(s, todo)
  /\ UNCHANGED <<deps, result>>

\* A dependent that has not been visited: recurse.
Descend(s) ==
  /\ result = "searching" /\ calls # <<>>
  /\ s \in todo[Current] \ visited
  /\ Enter(s, [todo EXCEPT ![Current] = @ \ {s}])
  /\ UNCHANGED <<deps, result>>

Skip_AnyVisited(s) ==
  /\ result = "searching" /\ calls # <<>>
  /\ s \in todo[Current] \cap visited
  /\ todo' = [todo EXCEPT ![Current] = @ \ {s}]
  /\ UNCHANGED <<deps, visited, recStack, calls, result>>

\* A dependent that has been visited and is off the recursion stack.
Skip(s) ==
  /\ result = "searching" /\ calls # <<>>
  /\ s \in (todo[Current] \cap visited) \ recStack
  /\ todo' = [todo EXCEPT ![Current] = @ \ {s}]
  /\ UNCHANGED <<deps, visited, recStack, calls, result>>

\* A dependent on the recursion stack: every call returns true.
Found(s) ==
  /\ result = "searching" /\ calls # <<>>
  /\ s \in todo[Current] \cap recStack
  /\ result' = "cycle"
  /\ UNCHANGED <<deps, visited, recStack, calls, todo>>

Return_KeepsRecStack ==
  /\ result = "searching" /\ calls # <<>>
  /\ todo[Current] = {}
  /\ calls' = SubSeq(calls, 1, Len(calls) - 1)
  /\ UNCHANGED <<deps, visited, recStack, todo, result>>

\* The loop over the dependents is over: leave the recursion stack.
Return ==
  /\ result = "searching" /\ calls # <<>>
  /\ todo[Current] = {}
  /\ recStack' = recStack \ {Current}
  /\ calls' = SubSeq(calls, 1, Len(calls) - 1)
  /\ UNCHANGED <<deps, visited, todo, result>>

\* Every node has been visited.
Finish ==
  /\ result = "searching" /\ calls = <<>>
  /\ visited = Steps
  /\ result' = "acyclic"
  /\ UNCHANGED <<deps, visited, recStack, calls, todo>>

Done == result # "searching" /\ UNCHANGED vars

Next ==
  \/ \E s \in Steps : StartAt(s) \/ Descend(s) \/ Skip(s) \/ Found(s)
  \/ Return \/ Finish
  \/ Done

Spec == Init /\ [][Next]_vars

---------------------------------------------------------------------------
\* Every variable has its type, and hasCycleDFS never leaves a node on the
\* recursion stack without having marked it visited.
TypeOK ==
  /\ deps \in Graphs
  /\ visited \subseteq Steps
  /\ recStack \subseteq visited
  /\ calls \in Seq(Steps)
  /\ todo \in [Steps -> SUBSET Steps]
  /\ result \in {"searching", "cycle", "acyclic"}

\* HasCycle reports a cycle only when there is one, whatever the order in which
\* Go iterates over the node map.
CycleIsReal == result = "cycle" => Cyclic(deps)

\* HasCycle declares a graph free of cycles only when it is, whatever the
\* iteration order: sharing visited between the searches loses no cycle.
AcyclicIsReal == result = "acyclic" => ~Cyclic(deps)
===========================================================================
