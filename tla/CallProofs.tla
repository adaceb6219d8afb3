---------------------------- MODULE CallProofs ----------------------------
(***************************************************************************)
(* What the steps of a run do one by one: an agent runs once for a step    *)
(* that calls it, and a forEach step reports what its items did.           *)
(*                                                                         *)
(* Each part has an inductive invariant, shown to hold at its start and to *)
(* be kept by every step; the promises follow from it.  The theorems about *)
(* the part alone hold of its own specification, and the last one of each  *)
(* section of the specification that MCProgress checks, where a behaviour  *)
(* is that of one part.                                                    *)
(***************************************************************************)
EXTENDS MCProgress, SequenceTheorems, FiniteSetTheorems, TLAPS
----------------------------------------------------------------------------
(* Agent calls (AgentCall).                                                *)

\* The agent-executor has begun on a request in these states.
Sent == {"running", "200", "500"}

\* Where the three ways to call an agent have got, and what each has set going by
\* then: before a call is on its way nothing runs, and a result is held only when
\* the agent gave one.
AgentInv ==
  /\ AC!TypeOK
  /\ kind = "local" => callAt \in {"prepare", "local", "write", "done"} /\ request = "none" /\ task = "none"
  /\ kind = "exec" => callAt \in {"prepare", "dial", "sent", "backoff", "write", "done"}
                      /\ task = "none"
  /\ kind = "external" => callAt \in {"prepare", "client", "card", "send", "poll", "reply", "write", "done"}
                          /\ request = "none"
  /\ callAt \in {"prepare", "local", "dial", "backoff", "client", "card", "send"} =>
       request = "none" /\ task = "none" /\ agentRuns = 0
  /\ callAt = "backoff" => attempt < MaxRetries
  /\ agentRuns <= 1
  /\ request = "received" => agentRuns = 0
  /\ request \in Sent => agentRuns = 1
  /\ callAt \in {"poll", "reply"} => agentRuns = 1
  /\ callAt = "reply" /\ reply \in {"completed", "message"} => task = reply
  /\ verdictOf = "ok" => callAt = "done"
  /\ callAt = "write" \/ verdictOf = "ok" =>
        /\ agentRuns = 1
        /\ kind = "exec" => request \in {"200", "dead"}
        /\ kind = "external" => task \in {"completed", "message"}

\* A step that is about to call has set nothing going.
LEMMA AgentInit == AC!Init => AgentInv
  BY RetriesAssumption DEF AC!Init, AgentInv, AC!TypeOK, AC!Kinds, AC!TaskStates, Sent

\* Every step of the caller, the agent-executor and the remote agent keeps it.
LEMMA AgentStep == AgentInv /\ [AC!Next]_agentVars => AgentInv'
<1> SUFFICES ASSUME AgentInv, [AC!Next]_agentVars PROVE AgentInv'
  OBVIOUS
<1> USE RetriesAssumption DEF AgentInv, AC!TypeOK, AC!Kinds, AC!TaskStates, Sent
<1>1. CASE AC!executeAgentStep
  BY <1>1 DEF AC!executeAgentStep, AC!Fail, AC!goTo
<1>2. CASE AC!executeExternalAgentStep
  BY <1>2 DEF AC!executeExternalAgentStep, AC!Fail, AC!goTo
<1>3. CASE AC!WriteOutputs
  BY <1>3 DEF AC!WriteOutputs, AC!Fail
<1>4. CASE AC!RunLocally
  BY <1>4 DEF AC!RunLocally
<1>5. CASE AC!Dial
  BY <1>5 DEF AC!Dial, AC!DoFails, AC!Fail, AC!goTo
<1>6. CASE AC!Backoff
  BY <1>6 DEF AC!Backoff, AC!Fail, AC!goTo
<1>7. CASE AC!GiveUp
  BY <1>7 DEF AC!GiveUp, AC!DoFails, AC!Fail, AC!goTo, AC!isRetryableExecErr
<1>8. CASE AC!Answered
  BY <1>8 DEF AC!Answered, AC!DoFails, AC!Fail, AC!goTo, AC!isRetryableExecErr
<1>9. CASE AC!newA2AClient
  BY <1>9 DEF AC!newA2AClient, AC!Fail, AC!goTo
<1>10. CASE AC!fetchAgentCard
  BY <1>10 DEF AC!fetchAgentCard, AC!Fail, AC!goTo
<1>11. CASE AC!sendTask
  BY <1>11 DEF AC!sendTask, AC!Fail, AC!doJSONRPC
<1>12. CASE AC!Resolve
  BY <1>12 DEF AC!Resolve, AC!Fail, AC!goTo, AC!resolveTaskState, AC!isPauseState,
       AC!isTerminalState, AC!isFailureState
<1>13. CASE AC!pollTask
  BY <1>13 DEF AC!pollTask, AC!Fail, AC!doJSONRPC
<1>14. CASE AC!Expire
  BY <1>14 DEF AC!Expire
<1>15. CASE AC!Refuse \/ AC!RunAgent \/ AC!AgentEnds \/ AC!ServiceDies
  BY <1>15 DEF AC!Refuse, AC!RunAgent, AC!AgentEnds, AC!ServiceDies, AC!serverOnly
<1>16. CASE AC!TaskMoves
  BY <1>16 DEF AC!TaskMoves
<1>17. CASE UNCHANGED agentVars
  BY <1>17 DEF agentVars
<1> QED
  BY <1>1, <1>2, <1>3, <1>4, <1>5, <1>6, <1>7, <1>8, <1>9, <1>10, <1>11, <1>12, <1>13, <1>14,
     <1>15, <1>16, <1>17 DEF AC!Next, AC!StepMoves

\* It says of retries and answers what the component promises.
LEMMA AgentImplies == AgentInv => AC!CallSound
  BY DEF AgentInv, AC!CallSound, AC!AgentRunsOnce, AC!AnswerEarned, AC!TypeOK

\* executeAgentStep and executeExternalAgentStep let an agent run at most once per
\* step, whatever is retried, times out or is cancelled, and a step that succeeds
\* has an answer the agent gave: for every number of retries.
THEOREM AgentCallSound == AC!Spec => []AC!CallSound
<1>1. [AC!Next]_agentVars <=> [AC!Next]_AC!callVars
  BY DEF agentVars, AC!callVars
<1> QED
  BY <1>1, AgentInit, AgentStep, AgentImplies, PTL DEF AC!Spec

\* Among the parts it is the steps of the agent call that move its variables.
LEMMA AgentPart ==
  [PartsNext]_allVars => part' = part /\ (part = "agent" => [AC!Next]_agentVars)
  BY DEF PartsNext, allVars, only

\* The same of the agent call as MCProgress runs it.
THEOREM CallsSound == PartsSpec => []CallSound
<1> DEFINE Inv == part = "agent" => AgentInv
<1>1. PartsInit => Inv
  BY AgentInit DEF PartsInit
<1>2. Inv /\ [PartsNext]_allVars => Inv'
  BY AgentStep, AgentPart
<1>3. Inv => CallSound
  BY AgentImplies DEF CallSound
<1> QED
  BY <1>1, <1>2, <1>3, PTL DEF PartsSpec

----------------------------------------------------------------------------
(* forEach (ForEach).  The lists grow at their end, so what is said of     *)
(* them is kept by one more entry; the counts that decide the answer are   *)
(* those of the lists.                                                     *)

\* Before answering, items are fed in order and only a stopped loop skips any.
Feeding ==
  \A i \in 1 .. MaxItems : /\ i >= feed => worker[i] = "none"
                           /\ i < feed /\ worker[i] = "none" => stopped

\* Results and failures, as sequences r and f.
OnePerItem(r) == \A k, l \in 1 .. Len(r) : r[k][1] = r[l][1] => k = l

\* The failed indices are those of the results with status failed.
FailedListed(r, f) ==
  /\ \A p \in 1 .. Len(r) : r[p][2] = "failed" => \E k \in 1 .. Len(f) : f[k] = r[p][1]
  /\ \A k \in 1 .. Len(f) : \E p \in 1 .. Len(r) : r[p][1] = f[k] /\ r[p][2] = "failed"

\* The failed indices stand in the order of their results.
SameOrder(r, f) ==
  \A k, l \in 1 .. Len(f) : k < l =>
    \E p, q \in 1 .. Len(r) : p < q /\ r[p][1] = f[k] /\ r[q][1] = f[l]

\* As many failed as there are results only when every result failed.
Tally(r, f) ==
  /\ Len(f) <= Len(r)
  /\ (\A p \in 1 .. Len(r) : r[p][2] = "failed") => Len(f) = Len(r)

\* What the collector holds: a result for workers that are gone, one for each.
Recorded ==
  /\ \A k \in 1 .. Len(results) : worker[results[k][1]] = "gone"
  /\ OnePerItem(results) /\ FailedListed(results, failed)
  /\ SameOrder(results, failed) /\ Tally(results, failed)

\* Under policy Fail the first failure stops the rest; until something stops them
\* every worker that is gone has left a result.
Stopping ==
  /\ stopped <=> loop.policy = "Fail" /\ failed # <<>>
  /\ ~stopped /\ ~cancelled =>
       \A i \in FE!Items : worker[i] = "gone" => \E k \in 1 .. Len(results) : results[k][1] = i

\* When the step answers no worker is left, what it wrote is what was collected,
\* and nil was earned.
Answered ==
  /\ answer # "none" => \A i \in 1 .. MaxItems : worker[i] \in {"none", "gone"}
  /\ \/ written = FE!Unwritten
     \/ answer # "none" /\ written = [results |-> results, failed |-> failed, present |-> TRUE]
  /\ answer = "nil" /\ loop.n > 0 =>
       /\ feed = loop.n + 1 /\ Len(results) # Len(failed)
       /\ loop.policy = "Fail" => failed = <<>>

\* The inductive invariant of the forEach executor.
ForEachInv == FE!TypeOK /\ Feeding /\ Recorded /\ Stopping /\ Answered

\* Nothing has started.
LEMMA ForEachInit == FE!Init => ForEachInv
<1> SUFFICES ASSUME FE!Init PROVE ForEachInv
  OBVIOUS
<1>1. results = <<>> /\ failed = <<>> /\ Len(results) = 0 /\ Len(failed) = 0
  BY DEF FE!Init
<1>2. loop.n \in 0 .. MaxItems /\ 1 \in 1 .. loop.n + 1
  BY ItemsAssumption DEF FE!Init
<1>3. FE!TypeOK
  <2>1. results \in Seq(FE!Items \X FE!Statuses) /\ failed \in Seq(FE!Items)
    BY <1>1
  <2>2. worker \in [1 .. MaxItems -> FE!WorkerStates] /\ feed \in 1 .. loop.n + 1
    BY <1>2 DEF FE!Init, FE!WorkerStates
  <2> QED
    BY <2>1, <2>2 DEF FE!Init, FE!TypeOK
<1>4. Feeding
  BY ItemsAssumption DEF Feeding, FE!Init
<1>5. Recorded
  BY <1>1 DEF Recorded, OnePerItem, FailedListed, SameOrder, Tally
<1>6. Stopping
  BY <1>1, <1>2, ItemsAssumption DEF Stopping, FE!Init, FE!Items
<1>7. Answered
  BY DEF Answered, FE!Init
<1> QED
  BY <1>3, <1>4, <1>5, <1>6, <1>7 DEF ForEachInv

\* A step that leaves the results alone keeps what is recorded of workers that stay gone.
LEMMA NothingRecorded ==
  ASSUME ForEachInv, results' = results, failed' = failed,
         \A i \in 1 .. MaxItems : worker[i] = "gone" => worker'[i] = "gone"
  PROVE  Recorded'
<1>1. \A k \in 1 .. Len(results) : results[k][1] \in 1 .. MaxItems
  BY ItemsAssumption DEF ForEachInv, FE!TypeOK, FE!Items
<1> QED
  BY <1>1 DEF ForEachInv, Recorded

\* A worker of item i moves on without a result.
LEMMA WorkerMoves ==
  ASSUME ForEachInv, NEW i \in 1 .. MaxItems,
         NEW from \in {"waiting", "held", "processing", "ok", "err"},
         NEW to \in {"held", "processing", "ok", "err", "gone"},
         FE!move(i, from, to), to = "gone" => stopped \/ cancelled
  PROVE  ForEachInv'
<1> USE DEF FE!move
<1>1. FE!TypeOK'
  BY DEF ForEachInv, FE!TypeOK, FE!WorkerStates, FE!Items
<1>2. Feeding'
  BY DEF ForEachInv, FE!TypeOK, Feeding
<1>3. Recorded'
  BY NothingRecorded DEF ForEachInv, FE!TypeOK
<1>4. Stopping'
  <2>1. (stopped <=> loop.policy = "Fail" /\ failed # <<>>)'
    BY DEF ForEachInv, Stopping
  <2>2. ASSUME ~stopped, ~cancelled, NEW j \in FE!Items, worker'[j] = "gone"
        PROVE  \E k \in 1 .. Len(results) : results[k][1] = j
    <3>1. worker[j] = "gone"
      BY <2>2, ItemsAssumption DEF ForEachInv, FE!TypeOK, FE!Items
    <3> QED
      BY <2>2, <3>1 DEF ForEachInv, Stopping
  <2> QED
    BY <2>1, <2>2 DEF Stopping, FE!Items
<1>5. Answered'
  BY DEF ForEachInv, FE!TypeOK, Answered
<1> QED
  BY <1>1, <1>2, <1>3, <1>4, <1>5 DEF ForEachInv

\* r2 is r and one more result, of item i with status st.
OneMore(r, r2, i, st) ==
  /\ Len(r) \in Nat /\ Len(r2) = Len(r) + 1
  /\ \A k \in 1 .. Len(r) : r2[k][1] = r[k][1] /\ r2[k][2] = r[k][2]
  /\ r2[Len(r) + 1][1] = i /\ r2[Len(r) + 1][2] = st

\* f2 is f and one more failed item.
OneMoreFailed(f, f2, i) ==
  /\ Len(f) \in Nat /\ Len(f2) = Len(f) + 1
  /\ \A k \in 1 .. Len(f) : f2[k] = f[k]
  /\ f2[Len(f) + 1] = i

\* The result of an item that had none leaves one result per item.
LEMMA OneMoreOnePerItem ==
  ASSUME NEW r, NEW r2, NEW i, NEW st, OneMore(r, r2, i, st), OnePerItem(r),
         \A k \in 1 .. Len(r) : r[k][1] # i
  PROVE  OnePerItem(r2)
<1> SUFFICES ASSUME NEW k \in 1 .. Len(r2), NEW l \in 1 .. Len(r2), r2[k][1] = r2[l][1]
             PROVE  k = l
  BY DEF OnePerItem
<1>1. \A j \in 1 .. Len(r2) : j \in 1 .. Len(r) \/ j = Len(r) + 1
  BY DEF OneMore
<1>2. CASE k \in 1 .. Len(r) /\ l \in 1 .. Len(r)
  BY <1>2 DEF OneMore, OnePerItem
<1>3. CASE k = Len(r) + 1 \/ l = Len(r) + 1
  BY <1>1, <1>3 DEF OneMore
<1> QED BY <1>1, <1>2, <1>3

\* A result that is recorded keeps the failed indices those of the failed results.
LEMMA OneMoreListed ==
  ASSUME NEW r, NEW r2, NEW i, NEW st, OneMore(r, r2, i, st), NEW f, NEW f2,
         FailedListed(r, f),
         \/ st = "failed" /\ OneMoreFailed(f, f2, i)
         \/ st = "succeeded" /\ f2 = f
  PROVE  FailedListed(r2, f2)
<1>0. \A j \in 1 .. Len(r2) : j \in 1 .. Len(r) \/ j = Len(r) + 1
  BY DEF OneMore
<1>1. \A j \in 1 .. Len(r) : j \in 1 .. Len(r2)
  BY DEF OneMore
<1>2. Len(r) + 1 \in 1 .. Len(r2)
  BY DEF OneMore
<1>3. CASE st = "failed" /\ OneMoreFailed(f, f2, i)
  <2>1. \A j \in 1 .. Len(f2) : j \in 1 .. Len(f) \/ j = Len(f) + 1
    BY <1>3 DEF OneMoreFailed
  <2>2. Len(f) + 1 \in 1 .. Len(f2) /\ \A j \in 1 .. Len(f) : j \in 1 .. Len(f2)
    BY <1>3 DEF OneMoreFailed
  <2>3. ASSUME NEW p \in 1 .. Len(r2), r2[p][2] = "failed"
        PROVE  \E k \in 1 .. Len(f2) : f2[k] = r2[p][1]
    <3>1. CASE p = Len(r) + 1
      BY <1>3, <2>2, <3>1 DEF OneMore, OneMoreFailed
    <3>2. CASE p \in 1 .. Len(r)
      <4>1. PICK k \in 1 .. Len(f) : f[k] = r[p][1]
        BY <2>3, <3>2 DEF FailedListed, OneMore
      <4> QED
        BY <1>3, <2>2, <3>2, <4>1 DEF OneMore, OneMoreFailed
    <3> QED BY <1>0, <3>1, <3>2
  <2>4. ASSUME NEW k \in 1 .. Len(f2)
        PROVE  \E p \in 1 .. Len(r2) : r2[p][1] = f2[k] /\ r2[p][2] = "failed"
    <3>1. CASE k = Len(f) + 1
      BY <1>2, <1>3, <3>1 DEF OneMore, OneMoreFailed
    <3>2. CASE k \in 1 .. Len(f)
      <4>1. PICK p \in 1 .. Len(r) : r[p][1] = f[k] /\ r[p][2] = "failed"
        BY <3>2 DEF FailedListed
      <4> QED
        BY <1>1, <1>3, <3>2, <4>1 DEF OneMore, OneMoreFailed
    <3> QED BY <2>1, <3>1, <3>2
  <2> QED
    BY <2>3, <2>4 DEF FailedListed
<1>4. CASE st = "succeeded" /\ f2 = f
  <2>1. ASSUME NEW p \in 1 .. Len(r2), r2[p][2] = "failed"
        PROVE  \E k \in 1 .. Len(f2) : f2[k] = r2[p][1]
    BY <1>0, <1>4, <2>1 DEF OneMore, FailedListed
  <2>2. ASSUME NEW k \in 1 .. Len(f2)
        PROVE  \E p \in 1 .. Len(r2) : r2[p][1] = f2[k] /\ r2[p][2] = "failed"
    <3>1. PICK p \in 1 .. Len(r) : r[p][1] = f[k] /\ r[p][2] = "failed"
      BY <1>4, <2>2 DEF FailedListed
    <3> QED
      BY <1>1, <1>4, <3>1 DEF OneMore
  <2> QED
    BY <2>1, <2>2 DEF FailedListed
<1> QED BY <1>3, <1>4

\* A result that is recorded keeps the failed indices in the order of the results.
LEMMA OneMoreOrdered ==
  ASSUME NEW r, NEW r2, NEW i, NEW st, OneMore(r, r2, i, st), NEW f, NEW f2,
         FailedListed(r, f), SameOrder(r, f),
         \/ st = "failed" /\ OneMoreFailed(f, f2, i)
         \/ st = "succeeded" /\ f2 = f
  PROVE  SameOrder(r2, f2)
<1> SUFFICES ASSUME NEW k \in 1 .. Len(f2), NEW l \in 1 .. Len(f2), k < l
             PROVE  \E p, q \in 1 .. Len(r2) : p < q /\ r2[p][1] = f2[k] /\ r2[q][1] = f2[l]
  BY DEF SameOrder
<1>1. \A j \in 1 .. Len(r) : j \in 1 .. Len(r2) /\ j < Len(r) + 1
  BY DEF OneMore
<1>2. Len(r) + 1 \in 1 .. Len(r2)
  BY DEF OneMore
<1>3. CASE k \in 1 .. Len(f) /\ l \in 1 .. Len(f) /\ f2[k] = f[k] /\ f2[l] = f[l]
  <2>1. PICK p \in 1 .. Len(r), q \in 1 .. Len(r) : p < q /\ r[p][1] = f[k] /\ r[q][1] = f[l]
    BY <1>3 DEF SameOrder
  <2> QED
    BY <1>1, <1>3, <2>1 DEF OneMore
<1>4. CASE k \in 1 .. Len(f) /\ f2[k] = f[k] /\ f2[l] = i
  <2>1. PICK p \in 1 .. Len(r) : r[p][1] = f[k]
    BY <1>4 DEF FailedListed
  <2>2. p \in 1 .. Len(r2) /\ p < Len(r) + 1 /\ r2[p][1] = f2[k] /\ r2[Len(r) + 1][1] = f2[l]
    BY <1>1, <1>4, <2>1 DEF OneMore
  <2> QED
    BY <1>2, <2>2
<1>5. \/ k \in 1 .. Len(f) /\ l \in 1 .. Len(f) /\ f2[k] = f[k] /\ f2[l] = f[l]
      \/ k \in 1 .. Len(f) /\ f2[k] = f[k] /\ f2[l] = i
  BY DEF OneMoreFailed
<1> QED BY <1>3, <1>4, <1>5

\* A result that is recorded keeps the counts comparable.
LEMMA OneMoreTally ==
  ASSUME NEW r, NEW r2, NEW i, NEW st, OneMore(r, r2, i, st), NEW f, NEW f2,
         Len(f) \in Nat, Tally(r, f),
         \/ st = "failed" /\ OneMoreFailed(f, f2, i)
         \/ st = "succeeded" /\ f2 = f
  PROVE  Tally(r2, f2)
<1>1. Len(r) + 1 \in 1 .. Len(r2) /\ \A j \in 1 .. Len(r) : j \in 1 .. Len(r2)
  BY DEF OneMore
<1>2. CASE st = "failed" /\ OneMoreFailed(f, f2, i)
  BY <1>1, <1>2 DEF OneMore, OneMoreFailed, Tally
<1>3. CASE st = "succeeded" /\ f2 = f
  BY <1>1, <1>3 DEF OneMore, Tally
<1> QED BY <1>2, <1>3

\* The section under resultsMutex appends one result, and one failure if it is one.
LEMMA RecordKeeps ==
  ASSUME ForEachInv, NEW i \in 1 .. MaxItems, FE!Record(i)
  PROVE  ForEachInv'
<1> DEFINE n == Len(results)
           m == Len(failed)
           st == IF worker[i] = "err" THEN "failed" ELSE "succeeded"
<1>0. /\ results \in Seq(FE!Items \X FE!Statuses) /\ failed \in Seq(FE!Items) /\ n \in Nat /\ m \in Nat
      /\ loop.n \in Nat /\ i \in FE!Items /\ worker[i] # "gone" /\ worker[i] # "none"
      /\ feed \in Nat
  <2>1. FE!TypeOK /\ Feeding /\ worker[i] \in {"ok", "err"}
    BY DEF ForEachInv, FE!Record
  <2>2. feed \in 1 .. loop.n + 1 /\ loop.n \in Nat
    BY <2>1 DEF FE!TypeOK
  <2>3. i < feed
    BY <2>1, <2>2 DEF Feeding
  <2> QED
    BY <2>1, <2>2, <2>3 DEF FE!TypeOK, FE!Items
<1>1. /\ results' = Append(results, <<i, st>>)
      /\ failed' = IF worker[i] = "err" THEN Append(failed, i) ELSE failed
      /\ stopped' <=> stopped \/ (worker[i] = "err" /\ loop.policy = "Fail")
      /\ ~cancelled /\ worker' = [worker EXCEPT ![i] = "gone"]
      /\ loop' = loop /\ feed' = feed /\ cancelled' = cancelled /\ written' = written /\ answer' = answer
  BY DEF FE!Record
<1>2. <<i, st>> \in FE!Items \X FE!Statuses /\ <<i, st>>[1] = i /\ <<i, st>>[2] = st
  BY <1>0 DEF FE!Statuses
<1>3. /\ results' \in Seq(FE!Items \X FE!Statuses) /\ Len(results') = n + 1
      /\ \A k \in 1 .. n : results'[k] = results[k]
      /\ results'[n + 1][1] = i /\ results'[n + 1][2] = st
  BY <1>0, <1>1, <1>2
<1>4. worker[i] = "err" => /\ failed' \in Seq(FE!Items) /\ Len(failed') = m + 1 /\ failed' # <<>>
                           /\ \A k \in 1 .. m : failed'[k] = failed[k]
                           /\ failed'[m + 1] = i
  BY <1>0, <1>1
<1>5. worker[i] # "err" => failed' = failed /\ st = "succeeded"
  BY <1>1
<1>6. answer = "none"
  BY <1>0 DEF ForEachInv, Answered
<1>7. FE!TypeOK'
  <2>1. FE!Items' = FE!Items
    BY <1>1 DEF FE!Items
  <2>2. results' \in Seq(FE!Items' \X FE!Statuses) /\ failed' \in Seq(FE!Items')
    BY <1>0, <1>3, <1>4, <1>5, <2>1
  <2>3. worker' \in [1 .. MaxItems -> FE!WorkerStates]
    BY <1>1 DEF ForEachInv, FE!TypeOK, FE!WorkerStates
  <2>4. stopped' \in BOOLEAN
    BY DEF FE!Record
  <2> QED
    BY <1>1, <2>2, <2>3, <2>4 DEF ForEachInv, FE!TypeOK
<1>8. Feeding'
  BY <1>0, <1>1 DEF ForEachInv, FE!TypeOK, Feeding
<1>9. Recorded'
  <2>0. /\ \A k \in 1 .. n : worker[results[k][1]] = "gone"
        /\ OnePerItem(results) /\ FailedListed(results, failed)
        /\ SameOrder(results, failed) /\ Tally(results, failed)
        /\ \A k \in 1 .. n : results[k][1] \in 1 .. MaxItems
    BY <1>0, ItemsAssumption DEF ForEachInv, Recorded, FE!TypeOK, FE!Items
  <2>1. \A k \in 1 .. Len(results') : worker'[results'[k][1]] = "gone"
    BY <1>0, <1>1, <1>3, <2>0 DEF ForEachInv, FE!TypeOK
  <2>2. \A k \in 1 .. n : results[k][1] # i
    BY <1>0, <2>0
  <2>a. OneMore(results, results', i, st)
    BY <1>0, <1>3 DEF OneMore
  <2>b. \/ st = "failed" /\ OneMoreFailed(failed, failed', i)
        \/ st = "succeeded" /\ failed' = failed
    BY <1>0, <1>4, <1>5 DEF OneMoreFailed
  <2>3. OnePerItem(results')
    BY <2>0, <2>2, <2>a, OneMoreOnePerItem
  <2>4. FailedListed(results', failed')
    BY <2>0, <2>a, <2>b, OneMoreListed
  <2>5. SameOrder(results', failed')
    BY <2>0, <2>a, <2>b, OneMoreOrdered
  <2>6. Tally(results', failed')
    BY <1>0, <2>0, <2>a, <2>b, OneMoreTally
  <2> QED
    BY <2>1, <2>3, <2>4, <2>5, <2>6 DEF Recorded
<1>10. Stopping'
  <2>1. (stopped <=> loop.policy = "Fail" /\ failed # <<>>)'
    BY <1>1, <1>4, <1>5 DEF ForEachInv, Stopping
  <2>2. ASSUME ~stopped', NEW j \in FE!Items, worker'[j] = "gone"
        PROVE  \E k \in 1 .. Len(results') : results'[k][1] = j
    <3>1. CASE j = i
      BY <1>0, <1>3, <3>1
    <3>2. CASE j # i
      <4>1. worker[j] = "gone" /\ ~stopped /\ ~cancelled
        BY <1>1, <2>2, <3>2, ItemsAssumption DEF ForEachInv, FE!TypeOK, FE!Items
      <4>2. PICK k \in 1 .. n : results[k][1] = j
        BY <2>2, <4>1 DEF ForEachInv, Stopping
      <4> QED
        BY <1>0, <1>3, <4>2
    <3> QED BY <3>1, <3>2
  <2> QED
    BY <1>1, <2>1, <2>2 DEF Stopping, FE!Items
<1>11. Answered'
  BY <1>1, <1>6 DEF ForEachInv, Answered
<1> QED
  BY <1>7, <1>8, <1>9, <1>10, <1>11 DEF ForEachInv

\* Feeding, working, recording, stopping and answering keep the invariant.
LEMMA ForEachStep == ForEachInv /\ [FE!Next]_forEachVars => ForEachInv'
<1> SUFFICES ASSUME ForEachInv, [FE!Next]_forEachVars PROVE ForEachInv'
  OBVIOUS
<1>0. loop.n \in Nat /\ loop.n <= MaxItems /\ feed \in 1 .. loop.n + 1
  BY ItemsAssumption DEF ForEachInv, FE!TypeOK
<1>1. CASE FE!Cancel
  <2> USE <1>1 DEF FE!Cancel
  <2>1. FE!TypeOK' BY DEF ForEachInv, FE!TypeOK, FE!Items
  <2>2. Feeding' BY DEF ForEachInv, Feeding
  <2>3. Recorded' BY NothingRecorded
  <2>4. Stopping' BY DEF ForEachInv, Stopping
  <2>5. Answered' BY DEF ForEachInv, Answered
  <2> QED BY <2>1, <2>2, <2>3, <2>4, <2>5 DEF ForEachInv
<1>2. CASE FE!ItemsError
  <2> USE <1>2 DEF FE!ItemsError
  <2>1. FE!TypeOK' BY DEF ForEachInv, FE!TypeOK, FE!Items
  <2>2. Feeding' BY DEF ForEachInv, Feeding
  <2>3. Recorded' BY NothingRecorded
  <2>4. Stopping' BY DEF ForEachInv, Stopping, FE!Items
  <2>5. \A i \in 1 .. MaxItems : worker[i] = "none"
    BY DEF ForEachInv, Feeding
  <2>6. Answered' BY <2>5 DEF ForEachInv, Answered
  <2> QED BY <2>1, <2>2, <2>3, <2>4, <2>6 DEF ForEachInv
<1>3. CASE FE!NoItems
  <2> USE <1>3 DEF FE!NoItems
  <2>1. FE!TypeOK' BY DEF ForEachInv, FE!TypeOK, FE!Items
  <2>2. Feeding' BY DEF ForEachInv, Feeding
  <2>3. Recorded' BY NothingRecorded
  <2>4. Stopping' BY DEF ForEachInv, Stopping, FE!Items
  <2>5. \A i \in 1 .. MaxItems : worker[i] = "none"
    BY <1>0 DEF ForEachInv, Feeding
  <2>6. results = <<>> /\ failed = <<>>
    <3>1. FE!Items = {}
      BY <1>0 DEF FE!Items
    <3> QED
      BY <3>1 DEF ForEachInv, FE!TypeOK
  <2>7. written' = [results |-> <<>>, failed |-> <<>>, present |-> TRUE]
    BY DEF FE!Unwritten
  <2>8. Answered'
    <3>1. written' = [results |-> results', failed |-> failed', present |-> TRUE]
      BY <2>6, <2>7
    <3>2. answer' = "nil" /\ loop' = loop /\ worker' = worker /\ ~(loop.n > 0)
      BY <1>0
    <3> QED
      BY <2>5, <3>1, <3>2 DEF Answered
  <2> QED BY <2>1, <2>2, <2>3, <2>4, <2>8 DEF ForEachInv
<1>4. CASE FE!Feed
  <2>0. /\ feed \in 1 .. MaxItems /\ feed <= loop.n /\ answer = "none"
        /\ loop' = loop /\ stopped' = stopped /\ cancelled' = cancelled /\ results' = results
        /\ failed' = failed /\ written' = written /\ answer' = answer
    BY <1>0, <1>4, ItemsAssumption DEF FE!Feed, FE!Items
  <2>1. worker[feed] = "none" /\ worker \in [1 .. MaxItems -> FE!WorkerStates]
    BY <1>0, <2>0 DEF ForEachInv, Feeding, FE!TypeOK
  <2>2. \/ stopped /\ feed' = loop.n + 1 /\ worker' = worker
        \/ ~stopped /\ feed' = feed + 1 /\ worker' = [worker EXCEPT ![feed] = "waiting"]
    BY <1>4 DEF FE!Feed
  <2>3. feed' \in 1 .. loop.n + 1 /\ worker' \in [1 .. MaxItems -> FE!WorkerStates]
    BY <1>0, <2>0, <2>1, <2>2 DEF FE!WorkerStates
  <2>4. FE!TypeOK'
    BY <2>0, <2>3 DEF ForEachInv, FE!TypeOK, FE!Items
  <2>5. Feeding'
    <3>1. CASE stopped
      BY <1>0, <2>0, <2>2, <3>1 DEF ForEachInv, Feeding
    <3>2. CASE ~stopped
      <4>1. feed' = feed + 1 /\ worker' = [worker EXCEPT ![feed] = "waiting"] /\ ~stopped'
        BY <2>0, <2>2, <3>2
      <4>2. ASSUME NEW i \in 1 .. MaxItems
            PROVE  /\ i >= feed + 1 => worker'[i] = "none"
                   /\ i < feed + 1 => worker'[i] # "none"
        <5>1. CASE i = feed
          BY <1>0, <2>0, <2>1, <4>1, <5>1
        <5>2. CASE i # feed
          BY <1>0, <2>0, <2>1, <3>2, <4>1, <5>2 DEF ForEachInv, Feeding
        <5> QED BY <5>1, <5>2
      <4> QED
        BY <4>1, <4>2 DEF Feeding
    <3> QED BY <3>1, <3>2
  <2>6. \A i \in 1 .. MaxItems : worker'[i] = "gone" <=> worker[i] = "gone"
    BY <2>0, <2>1, <2>2
  <2>7. Recorded'
    BY <2>0, <2>6, NothingRecorded
  <2>8. FE!Items \subseteq 1 .. MaxItems
    BY <1>0, ItemsAssumption DEF FE!Items
  <2>9. Stopping'
    BY <2>0, <2>6, <2>8 DEF ForEachInv, Stopping, FE!Items
  <2>10. Answered'
    BY <2>0 DEF ForEachInv, Answered
  <2> QED BY <2>4, <2>5, <2>7, <2>9, <2>10 DEF ForEachInv
<1>5. ASSUME NEW i \in 1 .. MaxItems, FE!WorkerStep(i) PROVE ForEachInv'
  <2>1. CASE FE!Record(i)
    BY <2>1, RecordKeeps
  <2>2. CASE FE!Acquire(i) \/ FE!GiveUp(i) \/ FE!StopSeen(i) \/ FE!Start(i)
    BY <2>2, WorkerMoves DEF FE!Acquire, FE!GiveUp, FE!StopSeen, FE!Start
  <2>3. CASE FE!InstantiateFails(i) \/ FE!ChildReturns(i) \/ FE!Drop(i)
    BY <2>3, WorkerMoves DEF FE!InstantiateFails, FE!ChildReturns, FE!Drop
  <2> QED BY <1>5, <2>1, <2>2, <2>3 DEF FE!WorkerStep
<1>6. CASE FE!Return
  <2> USE <1>6 DEF FE!Return
  <2>1. FE!TypeOK' BY DEF ForEachInv, FE!TypeOK, FE!Items, FE!verdict
  <2>2. Feeding' BY DEF ForEachInv, Feeding
  <2>3. Recorded' BY NothingRecorded
  <2>4. Stopping' BY DEF ForEachInv, Stopping, FE!Items
  <2>5. \A i \in 1 .. MaxItems : worker[i] \in {"none", "gone"}
    BY <1>0 DEF ForEachInv, Feeding, FE!Items
  <2>6. answer' = "nil" => /\ Len(results) - Len(failed) # 0
                           /\ loop.policy = "Fail" => failed = <<>>
    BY DEF FE!verdict
  <2>7. Len(results) \in Nat /\ Len(failed) \in Nat
    BY DEF ForEachInv, FE!TypeOK
  <2>8. Len(results) - Len(failed) # 0 => Len(results) # Len(failed)
    BY <2>7
  <2>9. Answered'
    <3>1. written' = [results |-> results', failed |-> failed', present |-> TRUE]
      OBVIOUS
    <3>2. answer' # "none"
      BY DEF FE!verdict
    <3> QED
      BY <2>5, <2>6, <2>8, <3>1, <3>2 DEF Answered
  <2> QED BY <2>1, <2>2, <2>3, <2>4, <2>9 DEF ForEachInv
<1>7. CASE UNCHANGED forEachVars
  <2> USE <1>7 DEF forEachVars
  <2>1. FE!TypeOK' BY DEF ForEachInv, FE!TypeOK, FE!Items
  <2>2. Feeding' BY DEF ForEachInv, Feeding
  <2>3. Recorded' BY NothingRecorded
  <2>4. Stopping' BY DEF ForEachInv, Stopping, FE!Items
  <2>5. Answered' BY DEF ForEachInv, Answered
  <2> QED BY <2>1, <2>2, <2>3, <2>4, <2>5 DEF ForEachInv
<1> QED
  BY <1>1, <1>2, <1>3, <1>4, <1>5, <1>6, <1>7 DEF FE!Next, FE!Progress

\* Every result is of an item and says succeeded or failed.
LEMMA ResultsTyped ==
  ASSUME FE!TypeOK
  PROVE  /\ DOMAIN results = 1 .. Len(results) /\ DOMAIN failed = 1 .. Len(failed)
         /\ Len(results) \in Nat /\ Len(failed) \in Nat
         /\ \A k \in 1 .. Len(results) :
              results[k][1] \in FE!Items /\ results[k][2] \in {"succeeded", "failed"}
         /\ \A k \in 1 .. Len(failed) : failed[k] \in FE!Items
<1>1. results \in Seq(FE!Items \X FE!Statuses) /\ failed \in Seq(FE!Items)
  BY DEF FE!TypeOK
<1>2. \A k \in 1 .. Len(results) : results[k] \in FE!Items \X FE!Statuses
  BY <1>1
<1> QED
  BY <1>1, <1>2 DEF FE!Statuses

\* Nil is earned: the counts that the executor compares tell that an item succeeded.
LEMMA ForEachNil == ForEachInv => FE!NilIsEarned
<1> SUFFICES ASSUME ForEachInv, answer = "nil", loop.n > 0
             PROVE  /\ \E i \in FE!Items : FE!resultOf(i) = {"succeeded"}
                    /\ loop.policy = "Fail" => \A i \in FE!Items : "failed" \notin FE!resultOf(i)
                    /\ ~cancelled => \A i \in FE!Items : FE!resultOf(i) # {}
  BY DEF FE!NilIsEarned
<1>0. FE!TypeOK
  BY DEF ForEachInv
<1>1. \A i \in FE!Items : \A x : x \in FE!resultOf(i) <=>
         \E k \in 1 .. Len(results) : results[k][1] = i /\ results[k][2] = x
  BY <1>0, ResultsTyped DEF FE!resultOf
<1>2. Len(results) # Len(failed) /\ feed = loop.n + 1 /\ (loop.policy = "Fail" => failed = <<>>)
  BY DEF ForEachInv, Answered
<1>3. \E i \in FE!Items : FE!resultOf(i) = {"succeeded"}
  <2>1. PICK k \in 1 .. Len(results) : results[k][2] # "failed"
    BY <1>2 DEF ForEachInv, Recorded, Tally
  <2> DEFINE i == results[k][1]
  <2>2. i \in FE!Items /\ results[k][2] = "succeeded"
    BY <1>0, <2>1, ResultsTyped
  <2>3. \A l \in 1 .. Len(results) : results[l][1] = i => l = k
    BY DEF ForEachInv, Recorded, OnePerItem
  <2>4. FE!resultOf(i) = {"succeeded"}
    BY <1>1, <2>2, <2>3
  <2> QED BY <2>2, <2>4
<1>4. ASSUME loop.policy = "Fail", NEW i \in FE!Items PROVE "failed" \notin FE!resultOf(i)
  <2>1. Len(failed) = 0
    BY <1>2, <1>4
  <2> QED
    BY <1>1, <2>1 DEF ForEachInv, Recorded, FailedListed
<1>5. ASSUME ~cancelled, NEW i \in FE!Items PROVE FE!resultOf(i) # {}
  <2>1. ~stopped
    BY <1>2 DEF ForEachInv, Stopping
  <2>2. i \in 1 .. MaxItems /\ i < feed
    BY <1>0, <1>2, ItemsAssumption DEF FE!TypeOK, FE!Items
  <2>3. worker[i] = "gone"
    BY <2>1, <2>2 DEF ForEachInv, Feeding, Answered
  <2> QED
    BY <1>1, <1>5, <2>1, <2>3 DEF ForEachInv, Stopping
<1> QED BY <1>3, <1>4, <1>5

\* The lists that it publishes agree item by item.
LEMMA ForEachAgree == ForEachInv => FE!ResultsAgree
<1> SUFFICES ASSUME ForEachInv PROVE FE!ResultsAgree
  OBVIOUS
<1>0. FE!TypeOK
  BY DEF ForEachInv
<1>1. \A k, l \in DOMAIN results : results[k][1] = results[l][1] => k = l
  BY <1>0, ResultsTyped DEF ForEachInv, Recorded, OnePerItem
<1>2. ASSUME NEW i \in FE!Items
      PROVE  (\E k \in DOMAIN failed : failed[k] = i) <=> "failed" \in FE!resultOf(i)
  <2>1. "failed" \in FE!resultOf(i) <=>
           \E k \in 1 .. Len(results) : results[k][1] = i /\ results[k][2] = "failed"
    BY <1>0, ResultsTyped DEF FE!resultOf
  <2>2. FailedListed(results, failed) /\ DOMAIN failed = 1 .. Len(failed)
    BY <1>0, ResultsTyped DEF ForEachInv, Recorded
  <2>3. \A p \in 1 .. Len(results) :
          results[p][2] = "failed" => \E k \in 1 .. Len(failed) : failed[k] = results[p][1]
    BY <2>2 DEF FailedListed
  <2>4. \A k \in 1 .. Len(failed) :
          \E p \in 1 .. Len(results) : results[p][1] = failed[k] /\ results[p][2] = "failed"
    BY <2>2 DEF FailedListed
  <2>5. ASSUME NEW k \in DOMAIN failed, failed[k] = i PROVE "failed" \in FE!resultOf(i)
    <3>1. PICK p \in 1 .. Len(results) : results[p][1] = failed[k] /\ results[p][2] = "failed"
      BY <2>2, <2>4, <2>5
    <3> QED BY <2>1, <2>5, <3>1
  <2>6. ASSUME "failed" \in FE!resultOf(i) PROVE \E k \in DOMAIN failed : failed[k] = i
    <3>1. PICK p \in 1 .. Len(results) : results[p][1] = i /\ results[p][2] = "failed"
      BY <2>1, <2>6
    <3>2. PICK k \in 1 .. Len(failed) : failed[k] = results[p][1]
      BY <2>3, <3>1
    <3> QED BY <2>2, <3>1, <3>2
  <2> QED BY <2>5, <2>6
<1>3. ASSUME NEW k \in DOMAIN failed, NEW l \in DOMAIN failed, k < l
      PROVE  FE!resultAt(failed[k]) < FE!resultAt(failed[l])
  <2>0. SameOrder(results, failed) /\ DOMAIN failed = 1 .. Len(failed)
    BY <1>0, ResultsTyped DEF ForEachInv, Recorded
  <2>k. k \in 1 .. Len(failed) /\ l \in 1 .. Len(failed)
    BY <2>0
  <2>o. \A x, y \in 1 .. Len(failed) : x < y =>
          \E p, q \in 1 .. Len(results) : p < q /\ results[p][1] = failed[x] /\ results[q][1] = failed[y]
    BY <2>0 DEF SameOrder
  <2>1. PICK p \in 1 .. Len(results), q \in 1 .. Len(results) :
           p < q /\ results[p][1] = failed[k] /\ results[q][1] = failed[l]
    BY <1>3, <2>k, <2>o
  <2>2. p \in DOMAIN results /\ q \in DOMAIN results
    BY <1>0, ResultsTyped
  <2>3. FE!resultAt(failed[k]) = p
    BY <1>1, <2>1, <2>2 DEF FE!resultAt
  <2>4. FE!resultAt(failed[l]) = q
    BY <1>1, <2>1, <2>2 DEF FE!resultAt
  <2> QED BY <2>1, <2>3, <2>4
<1>4. written.present => written.results = results /\ written.failed = failed
  BY DEF ForEachInv, Answered, FE!Unwritten
<1> QED
  BY <1>1, <1>2, <1>3, <1>4 DEF FE!ResultsAgree

\* A worker that was queued when an item failed does not start.
LEMMA ForEachStops ==
  ForEachInv /\ [FE!Next]_forEachVars => [FE!NothingStartsAfterFailure]_forEachVars
<1> SUFFICES ASSUME ForEachInv, FE!Next, loop.policy = "Fail", failed # <<>>,
                    NEW i \in 1 .. MaxItems, worker[i] # "processing"
             PROVE  worker'[i] # "processing"
  BY DEF FE!NothingStartsAfterFailure
<1>1. stopped /\ worker \in [1 .. MaxItems -> FE!WorkerStates]
  BY DEF ForEachInv, Stopping, FE!TypeOK
<1>2. ASSUME NEW j \in 1 .. MaxItems, FE!WorkerStep(j) PROVE worker'[i] # "processing"
  BY <1>1, <1>2 DEF FE!WorkerStep, FE!Acquire, FE!GiveUp, FE!StopSeen, FE!Start, FE!InstantiateFails,
     FE!ChildReturns, FE!Drop, FE!Record, FE!move
<1>3. CASE FE!Feed
  BY <1>1, <1>3 DEF FE!Feed
<1>4. CASE FE!NoItems \/ FE!Return \/ FE!Cancel \/ FE!ItemsError
  BY <1>4 DEF FE!NoItems, FE!Return, FE!Cancel, FE!ItemsError
<1> QED
  BY <1>2, <1>3, <1>4 DEF FE!Next, FE!Progress

\* executeForEach: a forEach step that returns nil earned it, the lists it publishes
\* agree, and under policy Fail no queued worker starts after a failure: for every
\* number of items and every limit on workers.
THEOREM ForEachEarned == FE!Spec => FE!ForEachSound
<1>1. /\ [FE!Next]_forEachVars <=> [FE!Next]_FE!feVars
      /\ [FE!NothingStartsAfterFailure]_forEachVars <=> [FE!NothingStartsAfterFailure]_FE!feVars
  BY DEF forEachVars, FE!feVars
<1> QED
  BY <1>1, ForEachInit, ForEachStep, ForEachNil, ForEachAgree, ForEachStops, PTL
     DEF FE!Spec, FE!ForEachSound

\* The same of forEach as MCProgress runs it.
THEOREM ForEachPart == PartsSpec => ForEachSound
<1> DEFINE Inv == part = "forEach" => ForEachInv
           OK == part = "forEach" => FE!NilIsEarned /\ FE!ResultsAgree
           Quiet == part = "forEach" => FE!NothingStartsAfterFailure
<1>1. PartsInit => Inv
  BY ForEachInit DEF PartsInit
<1>2. [PartsNext]_allVars => part' = part /\ (part = "forEach" => [FE!Next]_forEachVars)
  BY DEF PartsNext, allVars, only
<1>3. Inv /\ [PartsNext]_allVars => Inv'
  BY <1>2, ForEachStep
<1>4. Inv => OK
  BY ForEachNil, ForEachAgree
<1>5. Inv /\ [PartsNext]_allVars => [Quiet]_allVars
  <2> SUFFICES ASSUME Inv, PartsNext, part = "forEach" PROVE FE!NothingStartsAfterFailure \/ UNCHANGED allVars
    OBVIOUS
  <2>1. ForEachInv /\ only("forEach") /\ FE!Next
    BY DEF PartsNext, only
  <2>2. FE!NothingStartsAfterFailure \/ UNCHANGED forEachVars
    BY <2>1, ForEachStops
  <2>3. UNCHANGED forEachVars => UNCHANGED allVars
    BY <2>1 DEF only, allVars
  <2> QED BY <2>2, <2>3
<1> HIDE DEF Inv, OK, Quiet
<1>6. PartsSpec => []OK /\ [][Quiet]_allVars
  BY <1>1, <1>3, <1>4, <1>5, PTL DEF PartsSpec
<1> QED
  BY <1>6 DEF ForEachSound, OK, Quiet
============================================================================
