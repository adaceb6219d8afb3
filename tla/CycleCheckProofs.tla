------------------------- MODULE CycleCheckProofs -------------------------
(***************************************************************************)
(* HasCycle is right about every graph, and for every visiting order.      *)
(*                                                                         *)
(* A node is finished once its call has returned.  The search keeps two    *)
(* facts: the active calls form a path of dependents, so a dependent found *)
(* on the recursion stack closes a cycle; and the finished nodes are       *)
(* closed under dependents and contain no cycle, so a search that has      *)
(* finished every node has found none.                                     *)
(***************************************************************************)
EXTENDS CycleCheck, Integers, SequenceTheorems, TLAPS

Finished == visited \ recStack

\* Every set of these steps has a member that depends on none of them.
AcyclicOn(F) ==
  \A S \in SUBSET F : S # {} => \E s \in S : deps[s] \cap S = {}

\* The recursion stack holds exactly the active calls, each once.
StackIsCalls ==
  /\ recStack = {calls[i] : i \in 1..Len(calls)}
  /\ \A i, j \in 1..Len(calls) : calls[i] = calls[j] => i = j

\* Every call was made for a dependent of its caller.
CallsArePath ==
  \A i \in 1..(Len(calls) - 1) : calls[i + 1] \in Dependents(deps, calls[i])

\* What the loop of an active call has passed is finished, except the
\* dependent it is busy with.
LoopProgress ==
  \A i \in 1..Len(calls) :
    /\ todo[calls[i]] \subseteq Dependents(deps, calls[i])
    /\ \A d \in Dependents(deps, calls[i]) \ todo[calls[i]] :
         d \in Finished \/ (i < Len(calls) /\ d = calls[i + 1])

FinishedClosed == \A s \in Finished : Dependents(deps, s) \subseteq Finished

Inv ==
  /\ TypeOK
  /\ StackIsCalls
  /\ CallsArePath
  /\ LoopProgress
  /\ FinishedClosed
  /\ AcyclicOn(Finished)
  /\ CycleIsReal
  /\ AcyclicIsReal

\* The dependents of a step are steps.
LEMMA DependentsType ==
  ASSUME deps \in Graphs, NEW s
  PROVE  Dependents(deps, s) \subseteq Steps
BY DEF Dependents, Graphs

\* A finished set stays free of cycles when a node joins it that is a
\* dependent neither of the set nor of itself.
LEMMA JoinAcyclic ==
  ASSUME deps \in Graphs, NEW F \in SUBSET Steps, NEW n \in Steps,
         AcyclicOn(F),
         \A s \in F \cup {n} : n \notin Dependents(deps, s)
  PROVE  AcyclicOn(F \cup {n})
<1> SUFFICES ASSUME NEW S \in SUBSET (F \cup {n}), S # {}
             PROVE  \E s \in S : deps[s] \cap S = {}
  BY DEF AcyclicOn
<1>1. CASE n \in S
  <2>1. deps[n] \cap S = {}
    BY DEF Dependents, Graphs
  <2> QED BY <1>1, <2>1
<1>2. CASE n \notin S
  BY <1>2 DEF AcyclicOn
<1> QED BY <1>1, <1>2

\* A sequence without its last element.
LEMMA ButLast ==
  ASSUME NEW S, NEW q \in Seq(S), q # <<>>
  PROVE  /\ SubSeq(q, 1, Len(q) - 1) \in Seq(S)
         /\ Len(SubSeq(q, 1, Len(q) - 1)) = Len(q) - 1
         /\ \A i \in 1..(Len(q) - 1) : SubSeq(q, 1, Len(q) - 1)[i] = q[i]
<1> DEFINE m == Len(q) - 1
<1>1. m \in Nat /\ Len(q) \in Nat
  OBVIOUS
<1>2. \A i \in 1..m : q[i] \in S
  BY <1>1
<1> HIDE DEF m
<1>3. 1 \in Int /\ m \in Int
  BY <1>1
<1>4. /\ SubSeq(q, 1, m) \in Seq(S)
      /\ Len(SubSeq(q, 1, m)) = IF 1 <= m THEN m - 1 + 1 ELSE 0
      /\ \A i \in 1..(m - 1 + 1) : SubSeq(q, 1, m)[i] = q[1 + i - 1]
  BY <1>2, <1>3, SubSeqProperties
<1>5. Len(SubSeq(q, 1, m)) = m
  BY <1>4, <1>1
<1>6. \A i \in 1..m : SubSeq(q, 1, m)[i] = q[i]
  <2> TAKE i \in 1..m
  <2>1. i \in 1..(m - 1 + 1) /\ 1 + i - 1 = i
    BY <1>1
  <2> QED BY <2>1, <1>4
<1> QED BY <1>4, <1>5, <1>6 DEF m

\* The search starts in a state that satisfies the invariant.
LEMMA InitInv == Init => Inv
<1> SUFFICES ASSUME Init PROVE Inv
  OBVIOUS
<1> USE DEF Init
<1>1. TypeOK
  BY DEF TypeOK, Graphs
<1>2. Len(calls) = 0 /\ Finished = {}
  BY DEF Finished
<1>3. StackIsCalls /\ CallsArePath /\ LoopProgress /\ FinishedClosed
  BY <1>2 DEF StackIsCalls, CallsArePath, LoopProgress, FinishedClosed
<1>4. AcyclicOn(Finished)
  BY <1>2 DEF AcyclicOn
<1>5. CycleIsReal /\ AcyclicIsReal
  BY DEF CycleIsReal, AcyclicIsReal
<1> QED BY <1>1, <1>3, <1>4, <1>5 DEF Inv

\* What the search has done so far survives a step that leaves it alone.
LEMMA StutterInv ==
  ASSUME StackIsCalls, CallsArePath, LoopProgress, FinishedClosed,
         AcyclicOn(Finished),
         UNCHANGED <<deps, visited, recStack, calls, todo>>
  PROVE  /\ StackIsCalls' /\ CallsArePath' /\ LoopProgress'
         /\ FinishedClosed' /\ AcyclicOn(Finished)'
<1>1. StackIsCalls'
  BY DEF StackIsCalls
<1>2. CallsArePath'
  BY DEF CallsArePath
<1>3. LoopProgress'
  BY DEF LoopProgress, Finished
<1>4. FinishedClosed'
  BY DEF FinishedClosed, Finished
<1>5. AcyclicOn(Finished)'
  BY DEF AcyclicOn, Finished
<1> QED BY <1>1, <1>2, <1>3, <1>4, <1>5

\* Entering a call for a node that has not been visited keeps the invariant,
\* from the loop of HasCycle or from the loop of a caller.
LEMMA EnterInv ==
  ASSUME Inv, NEW s \in Steps, s \notin visited, UNCHANGED <<deps, result>>,
         NEW rest, rest \in [Steps -> SUBSET Steps],
         result = "searching",
         Enter(s, rest),
         \/ calls = <<>> /\ rest = todo
         \/ /\ calls # <<>>
            /\ s \in todo[Current]
            /\ rest = [todo EXCEPT ![Current] = @ \ {s}]
  PROVE  Inv'
<1> USE DEF Enter
<1> DEFINE n == Len(calls)
<1>1. TypeOK /\ n \in Nat /\ s \notin recStack
  BY DEF Inv, TypeOK
<1>2. Dependents(deps, s) \subseteq Steps
  BY <1>1, DependentsType DEF TypeOK
<1>3. TypeOK'
  BY <1>1, <1>2 DEF TypeOK
<1>4. /\ Len(calls') = n + 1
      /\ calls'[n + 1] = s
      /\ \A i \in 1..n : calls'[i] = calls[i] /\ calls[i] # s
  BY <1>1 DEF Inv, TypeOK, StackIsCalls
<1>5. StackIsCalls'
  <2>1. recStack' = {calls'[i] : i \in 1..(n + 1)}
    BY <1>1, <1>4 DEF Inv, StackIsCalls
  <2>2. \A i, j \in 1..(n + 1) : calls'[i] = calls'[j] => i = j
    BY <1>1, <1>4 DEF Inv, StackIsCalls
  <2> QED BY <2>1, <2>2, <1>4 DEF StackIsCalls
<1>6. Finished' = Finished
  BY <1>1 DEF Finished
<1>7. CallsArePath'
  <2>1. n > 0 => s \in Dependents(deps, calls[n])
    BY <1>1 DEF Inv, LoopProgress, Current, TypeOK
  <2> QED BY <1>1, <1>4, <2>1 DEF Inv, CallsArePath
<1>8. LoopProgress'
  <2> SUFFICES ASSUME NEW i \in 1..(n + 1)
               PROVE  /\ todo'[calls'[i]] \subseteq Dependents(deps, calls'[i])
                      /\ \A d \in Dependents(deps, calls'[i]) \ todo'[calls'[i]] :
                           \/ d \in Finished
                           \/ i < n + 1 /\ d = calls'[i + 1]
    BY <1>4, <1>6 DEF LoopProgress, Dependents
  <2>1. CASE i = n + 1
    BY <2>1, <1>4, <1>1
  <2>2. CASE i \in 1..(n - 1)
    <3>1. calls[i] # Current /\ calls[i] \in Steps
      BY <2>2, <1>1 DEF Inv, StackIsCalls, Current, TypeOK
    <3>2. todo'[calls'[i]] = todo[calls[i]]
      BY <3>1, <2>2, <1>4, <1>1 DEF TypeOK, Current
    <3> QED BY <3>2, <2>2, <1>4, <1>1 DEF Inv, LoopProgress
  <2>3. CASE i = n
    <3>1. n > 0 /\ calls # <<>> /\ Current = calls[n] /\ Current \in Steps
      BY <2>3, <1>1 DEF Current, TypeOK
    <3>2. todo'[Current] = todo[Current] \ {s}
      BY <3>1, <1>4, <1>1 DEF TypeOK
    <3> QED BY <3>1, <3>2, <2>3, <1>4, <1>1 DEF Inv, LoopProgress
  <2> QED BY <2>1, <2>2, <2>3, <1>1
<1>9. FinishedClosed' /\ AcyclicOn(Finished)'
  BY <1>6 DEF Inv, FinishedClosed, AcyclicOn
<1>10. CycleIsReal' /\ AcyclicIsReal'
  BY DEF Inv, CycleIsReal, AcyclicIsReal
<1> QED BY <1>3, <1>5, <1>7, <1>8, <1>9, <1>10 DEF Inv

\* Passing over a visited dependent that is off the stack.
LEMMA SkipInv ==
  ASSUME Inv, NEW s \in Steps, Skip(s)
  PROVE  Inv'
<1> USE DEF Skip
<1> DEFINE n == Len(calls)
<1>1. TypeOK /\ n \in Nat \ {0} /\ Current = calls[n] /\ Current \in Steps
  BY DEF Inv, TypeOK, Current
<1>2. TypeOK'
  BY <1>1 DEF TypeOK
<1>3. StackIsCalls' /\ CallsArePath' /\ Finished' = Finished
  BY DEF Inv, StackIsCalls, CallsArePath, Finished, Dependents
<1>4. LoopProgress'
  <2> SUFFICES ASSUME NEW i \in 1..n
               PROVE  /\ todo'[calls[i]] \subseteq Dependents(deps, calls[i])
                      /\ \A d \in Dependents(deps, calls[i]) \ todo'[calls[i]] :
                           d \in Finished \/ (i < n /\ d = calls[i + 1])
    BY <1>3 DEF LoopProgress, Dependents
  <2>1. s \in Finished
    BY <1>1 DEF Finished
  <2>2. calls[i] \in Steps
    BY <1>1 DEF TypeOK
  <2>3. todo'[calls[i]] = IF calls[i] = Current THEN todo[Current] \ {s}
                          ELSE todo[calls[i]]
    BY <1>1, <2>2 DEF TypeOK
  <2> QED BY <2>1, <2>3 DEF Inv, LoopProgress
<1>5. FinishedClosed' /\ AcyclicOn(Finished)'
  BY <1>3 DEF Inv, FinishedClosed, AcyclicOn
<1>6. CycleIsReal' /\ AcyclicIsReal'
  BY DEF Inv, CycleIsReal, AcyclicIsReal
<1> QED BY <1>2, <1>3, <1>4, <1>5, <1>6 DEF Inv

\* A dependent on the recursion stack closes a cycle with the calls above it.
LEMMA FoundInv ==
  ASSUME Inv, NEW s \in Steps, Found(s)
  PROVE  Inv'
<1> USE DEF Found
<1> DEFINE n == Len(calls)
<1>1. TypeOK /\ n \in Nat \ {0} /\ Current = calls[n]
  BY DEF Inv, TypeOK, Current
<1>2. s \in Dependents(deps, calls[n])
  BY <1>1 DEF Inv, LoopProgress
<1>3. PICK k \in 1..n : s = calls[k]
  BY <1>1 DEF Inv, StackIsCalls
<1>4. Cyclic(deps)
  <2> DEFINE S == {calls[i] : i \in k..n}
  <2>1. S \in SUBSET Steps /\ S # {} /\ DOMAIN deps = Steps
    BY <1>1 DEF TypeOK, Graphs
  <2>2. ASSUME NEW x \in S PROVE deps[x] \cap S # {}
    <3>1. PICK i \in k..n : x = calls[i]
      BY <2>2
    <3>2. CASE i = k
      <4>1. calls[n] \in S /\ calls[n] \in deps[x]
        BY <3>1, <3>2, <1>1, <1>2, <1>3 DEF Dependents
      <4> QED BY <4>1
    <3>3. CASE i # k
      <4>1. i - 1 \in 1..(n - 1) /\ i - 1 \in k..n /\ (i - 1) + 1 = i
        BY <3>3, <1>1
      <4>2. calls[i - 1] \in S /\ x \in Dependents(deps, calls[i - 1])
        BY <4>1, <3>1 DEF Inv, CallsArePath
      <4> QED BY <4>2 DEF Dependents
    <3> QED BY <3>2, <3>3
  <2> QED BY <2>1, <2>2 DEF Cyclic
<1>5. CycleIsReal' /\ AcyclicIsReal'
  BY <1>4 DEF CycleIsReal, AcyclicIsReal
<1>6. TypeOK'
  BY <1>1 DEF TypeOK
<1>7. /\ StackIsCalls' /\ CallsArePath' /\ LoopProgress'
      /\ FinishedClosed' /\ AcyclicOn(Finished)'
  BY StutterInv DEF Inv
<1> QED BY <1>5, <1>6, <1>7 DEF Inv

\* A call returns: its node becomes finished, after all its dependents.
LEMMA ReturnInv ==
  ASSUME Inv, Return
  PROVE  Inv'
<1> USE DEF Return
<1> DEFINE n == Len(calls)
<1>1. TypeOK /\ n \in Nat \ {0} /\ Current = calls[n] /\ Current \in Steps
  BY DEF Inv, TypeOK, Current
<1>2. Current \in recStack /\ Current \in visited
  BY <1>1 DEF Inv, StackIsCalls, TypeOK
<1>3. /\ Len(calls') = n - 1
      /\ calls' \in Seq(Steps)
      /\ \A i \in 1..(n - 1) : calls'[i] = calls[i] /\ calls[i] # Current
  <2>1. calls \in Seq(Steps) /\ calls' = SubSeq(calls, 1, n - 1)
    BY <1>1 DEF TypeOK
  <2>2. /\ Len(calls') = n - 1
        /\ calls' \in Seq(Steps)
        /\ \A i \in 1..(n - 1) : calls'[i] = calls[i]
    BY <2>1, ButLast
  <2>3. \A i \in 1..(n - 1) : calls[i] # Current
    BY <1>1 DEF Inv, StackIsCalls
  <2> QED BY <2>2, <2>3
<1>4. TypeOK'
  BY <1>1, <1>3 DEF TypeOK
<1>5. StackIsCalls'
  <2>1. recStack' = {calls'[i] : i \in 1..(n - 1)}
    BY <1>1, <1>3 DEF Inv, StackIsCalls
  <2>2. \A i, j \in 1..(n - 1) : calls'[i] = calls'[j] => i = j
    BY <1>1, <1>3 DEF Inv, StackIsCalls
  <2> QED BY <2>1, <2>2, <1>3 DEF StackIsCalls
<1>6. CallsArePath'
  BY <1>1, <1>3 DEF Inv, CallsArePath, Dependents
<1>7. Finished' = Finished \cup {Current} /\ Current \notin Finished
  BY <1>2 DEF Finished
<1>8. Dependents(deps, Current) \subseteq Finished
  BY <1>1 DEF Inv, LoopProgress
<1>9. LoopProgress'
  <2> SUFFICES ASSUME NEW i \in 1..(n - 1)
               PROVE  /\ todo[calls[i]] \subseteq Dependents(deps, calls[i])
                      /\ \A d \in Dependents(deps, calls[i]) \ todo[calls[i]] :
                           \/ d \in Finished'
                           \/ i < n - 1 /\ d = calls'[i + 1]
    BY <1>3 DEF LoopProgress, Dependents
  <2>1. i \in 1..n /\ i + 1 \in 1..n
    BY <1>1
  <2>2. CASE i = n - 1
    BY <2>1, <2>2, <1>1, <1>7 DEF Inv, LoopProgress
  <2>3. CASE i # n - 1
    BY <2>1, <2>3, <1>1, <1>3, <1>7 DEF Inv, LoopProgress
  <2> QED BY <2>2, <2>3
<1>10. FinishedClosed'
  BY <1>7, <1>8 DEF Inv, FinishedClosed, Dependents
<1>11. AcyclicOn(Finished)'
  <2>1. AcyclicOn(Finished \cup {Current})
    <3>1. \A s \in Finished \cup {Current} : Current \notin Dependents(deps, s)
      BY <1>7, <1>8 DEF Inv, FinishedClosed
    <3>2. Finished \in SUBSET Steps /\ deps \in Graphs
      BY <1>1 DEF TypeOK, Finished
    <3> QED BY <3>1, <3>2, <1>1, JoinAcyclic DEF Inv
  <2> QED BY <2>1, <1>7 DEF AcyclicOn
<1>12. CycleIsReal' /\ AcyclicIsReal'
  BY DEF Inv, CycleIsReal, AcyclicIsReal
<1> QED BY <1>4, <1>5, <1>6, <1>9, <1>10, <1>11, <1>12 DEF Inv

\* Every node has been visited and none is on the stack: all are finished.
LEMMA FinishInv ==
  ASSUME Inv, Finish
  PROVE  Inv'
<1> USE DEF Finish
<1>1. TypeOK'
  BY DEF Inv, TypeOK
<1>2. recStack = {}
  BY DEF Inv, StackIsCalls
<1>3. ~Cyclic(deps)
  <2>1. Finished = Steps /\ DOMAIN deps = Steps
    BY <1>2 DEF Finished, Inv, TypeOK, Graphs
  <2> QED BY <2>1 DEF Inv, AcyclicOn, Cyclic
<1>4. CycleIsReal' /\ AcyclicIsReal'
  BY <1>3 DEF CycleIsReal, AcyclicIsReal
<1>5. /\ StackIsCalls' /\ CallsArePath' /\ LoopProgress'
      /\ FinishedClosed' /\ AcyclicOn(Finished)'
  BY StutterInv DEF Inv
<1> QED BY <1>1, <1>4, <1>5 DEF Inv

\* Every step of the search keeps the invariant.
LEMMA NextInv == Inv /\ [Next]_vars => Inv'
<1> SUFFICES ASSUME Inv, [Next]_vars PROVE Inv'
  OBVIOUS
<1>1. ASSUME NEW s \in Steps, StartAt(s) PROVE Inv'
  <2>1. todo \in [Steps -> SUBSET Steps]
    BY DEF Inv, TypeOK
  <2> QED BY <1>1, <2>1, EnterInv DEF StartAt
<1>2. ASSUME NEW s \in Steps, Descend(s) PROVE Inv'
  <2>1. [todo EXCEPT ![Current] = @ \ {s}] \in [Steps -> SUBSET Steps]
    BY DEF Inv, TypeOK
  <2> QED BY <1>2, <2>1, EnterInv DEF Descend
<1>3. ASSUME UNCHANGED vars PROVE Inv'
  BY <1>3 DEF vars, Inv, TypeOK, StackIsCalls, CallsArePath, LoopProgress,
              FinishedClosed, AcyclicOn, Finished, CycleIsReal, AcyclicIsReal
<1> QED BY <1>1, <1>2, <1>3, SkipInv, FoundInv, ReturnInv, FinishInv
        DEF Next, Done

\* The variables of the search keep their types.
THEOREM CycleCheckTypeOK == Spec => []TypeOK
<1>1. Inv => TypeOK
  BY DEF Inv
<1> QED BY <1>1, InitInv, NextInv, PTL DEF Spec

\* HasCycle returns true only for a graph that has a cycle.
THEOREM CycleSound == Spec => []CycleIsReal
<1>1. Inv => CycleIsReal
  BY DEF Inv
<1> QED BY <1>1, InitInv, NextInv, PTL DEF Spec

\* HasCycle returns false only for a graph that has none.
THEOREM CycleComplete == Spec => []AcyclicIsReal
<1>1. Inv => AcyclicIsReal
  BY DEF Inv
<1> QED BY <1>1, InitInv, NextInv, PTL DEF Spec
===========================================================================
