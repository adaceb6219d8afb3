------------------------------ MODULE ForEach ------------------------------
(***************************************************************************)
(* executeForEach: one child step per item, run by goroutines that share a *)
(* semaphore, a stop channel and the result slices.  The context of the    *)
(* step may be cancelled at any time (the CLI runs it under a timeout); a  *)
(* child is an arbitrary step, and one that pauses for a callback counts   *)
(* as failed.                                                              *)
(***************************************************************************)
EXTENDS Naturals, Sequences, FiniteSets

CONSTANTS
  MaxItems,      \* length of the longest list the items expression yields
  Limits         \* the values of maxConcurrency after defaulting

VARIABLES
  loop,          \* inputs: number of items, policy, limit
  feed,          \* the item the feeding loop looks at next
  worker,        \* worker[i]: where the goroutine of item i is
  stopped,       \* stopChan is closed
  cancelled,     \* ctx is done
  results,       \* results.Results, in completion order
  failed,        \* results.Failed, in completion order
  written,       \* steps.<name> in the shared context
  answer         \* what executeForEach returned

feVars == <<loop, feed, worker, stopped, cancelled, results, failed, written, answer>>

Items == 1 .. loop.n
Statuses == {"succeeded", "failed"}
WorkerStates == {"none", "waiting", "held", "processing", "ok", "err", "gone"}
InFlight(i) == worker[i] \in {"held", "processing", "ok", "err"}
Unwritten == [results |-> <<>>, failed |-> <<>>, present |-> FALSE]

\* The items expression may yield any list, nil and [] included; an error in
\* evaluating it ends the step at once (ItemsError).
Init ==
  /\ loop \in [n : 0 .. MaxItems, policy : {"Continue", "Fail"}, limit : Limits,
               outputs : BOOLEAN]
  /\ feed = 1
  /\ worker = [i \in 1 .. MaxItems |-> "none"]
  /\ stopped = FALSE /\ cancelled = FALSE
  /\ results = <<>> /\ failed = <<>>
  /\ written = Unwritten /\ answer = "none"

Cancel ==
  /\ answer = "none" /\ ~cancelled
  /\ cancelled' = TRUE
  /\ UNCHANGED <<loop, feed, worker, stopped, results, failed, written, answer>>

ItemsError ==
  /\ answer = "none" /\ feed = 1 /\ worker[1] = "none"
  /\ answer' = "error"
  /\ UNCHANGED <<loop, feed, worker, stopped, cancelled, results, failed, written>>

NoItems ==
  /\ answer = "none" /\ loop.n = 0
  /\ written' = [Unwritten EXCEPT !.present = TRUE]
  /\ answer' = "nil"
  /\ UNCHANGED <<loop, feed, worker, stopped, cancelled, results, failed>>

\* One turn of the feeding loop: leave it when stopChan is closed, otherwise
\* start the goroutine of the item.
Feed ==
  /\ answer = "none" /\ feed \in Items
  /\ IF stopped
     THEN /\ feed' = loop.n + 1
          /\ UNCHANGED worker
     ELSE /\ feed' = feed + 1
          /\ worker' = [worker EXCEPT ![feed] = "waiting"]
  /\ UNCHANGED <<loop, stopped, cancelled, results, failed, written, answer>>

move(i, from, to) ==
  /\ worker[i] = from
  /\ worker' = [worker EXCEPT ![i] = to]
  /\ UNCHANGED <<loop, feed, stopped, cancelled, results, failed, written, answer>>

\* select picks any case that is ready, so a worker may take a slot although
\* stopChan is closed or ctx is done.
Acquire(i) ==
  /\ Cardinality({j \in Items : InFlight(j)}) < loop.limit
  /\ move(i, "waiting", "held")

GiveUp(i) == (stopped \/ cancelled) /\ move(i, "waiting", "gone")

StopSeen_KeepsSlot(i) == stopped /\ move(i, "held", "held")

StopSeen(i) == stopped /\ move(i, "held", "gone")

Start_Unchecked(i) == move(i, "held", "processing")

Start(i) == ~stopped /\ move(i, "held", "processing")

\* processForEachItem fails before the child runs: the template cannot be read,
\* an argument cannot be evaluated, a required parameter is missing.
InstantiateFails(i) == move(i, "processing", "err")

ChildReturns(i) == \E to \in {"ok", "err"} : move(i, "processing", to)

\* A result that comes after cancellation is dropped.
Drop(i) == cancelled /\ \E from \in {"ok", "err"} : move(i, from, "gone")

\* The section under resultsMutex.  Cancellation between the check of ctx.Done
\* and the lock changes nothing the section reads, so the two are one step.
Record(i) ==
  /\ ~cancelled /\ worker[i] \in {"ok", "err"}
  /\ LET bad == worker[i] = "err"
     IN /\ failed' = IF bad THEN Append(failed, i) ELSE failed
        /\ results' = Append(results, <<i, IF bad THEN "failed" ELSE "succeeded">>)
        /\ stopped' = (stopped \/ (bad /\ loop.policy = "Fail"))
  /\ worker' = [worker EXCEPT ![i] = "gone"]
  /\ UNCHANGED <<loop, feed, cancelled, written, answer>>

\* The error executeForEach returns once all goroutines are gone, or nil.
verdict(outputsOK) ==
  IF \/ failed # <<>> /\ loop.policy = "Fail"
     \/ loop.outputs /\ ~outputsOK
     \/ Len(results) - Len(failed) = 0
  THEN "error" ELSE "nil"

\* wg.Wait, writeForEachResults, the policy, the declared outputs, the tally.
Return ==
  /\ answer = "none" /\ loop.n > 0 /\ feed = loop.n + 1
  /\ \A i \in Items : worker[i] \in {"none", "gone"}
  /\ written' = [results |-> results, failed |-> failed, present |-> TRUE]
  /\ \E outputsOK \in BOOLEAN : answer' = verdict(outputsOK)
  /\ UNCHANGED <<loop, feed, worker, stopped, cancelled, results, failed>>

WorkerStep(i) ==
  \/ Acquire(i) \/ GiveUp(i) \/ StopSeen(i) \/ Start(i)
  \/ InstantiateFails(i) \/ ChildReturns(i) \/ Drop(i) \/ Record(i)

Progress == NoItems \/ Feed \/ Return \/ \E i \in 1 .. MaxItems : WorkerStep(i)

Next == Progress \/ Cancel \/ ItemsError

\* Goroutines are scheduled and a child step returns: every child has its own
\* deadline or ends with ctx.
Fairness ==
  /\ WF_feVars(NoItems) /\ WF_feVars(Feed) /\ WF_feVars(Return)
  /\ \A i \in 1 .. MaxItems : WF_feVars(WorkerStep(i))

Spec == Init /\ [][Next]_feVars /\ Fairness
----------------------------------------------------------------------------
TypeOK ==
  /\ loop \in [n : 0 .. MaxItems, policy : {"Continue", "Fail"}, limit : Limits,
               outputs : BOOLEAN]
  /\ feed \in 1 .. loop.n + 1
  /\ worker \in [1 .. MaxItems -> WorkerStates]
  /\ stopped \in BOOLEAN /\ cancelled \in BOOLEAN
  /\ results \in Seq(Items \X Statuses) /\ failed \in Seq(Items)
  /\ answer \in {"none", "nil", "error"}

resultOf(i) == {results[k][2] : k \in {k \in DOMAIN results : results[k][1] = i}}

\* Where the result of an item is among the results.
resultAt(i) == CHOOSE k \in DOMAIN results : results[k][1] = i

(* A forEach step that returns nil earned it, in every interleaving of its  *)
(* workers: at least one item succeeded, under policy Fail none failed, and *)
(* unless ctx was cancelled every item has a result.                        *)
NilIsEarned ==
  answer = "nil" /\ loop.n > 0 =>
    /\ \E i \in Items : resultOf(i) = {"succeeded"}
    /\ loop.policy = "Fail" => \A i \in Items : "failed" \notin resultOf(i)
    /\ ~cancelled => \A i \in Items : resultOf(i) # {}

(* steps.<name> always tells one story: an item has one result, and the     *)
(* failed list is the failed results in the order in which they completed.  *)
ResultsAgree ==
  /\ \A k, l \in DOMAIN results : results[k][1] = results[l][1] => k = l
  /\ \A i \in Items : (\E k \in DOMAIN failed : failed[k] = i) <=> "failed" \in resultOf(i)
  /\ \A k, l \in DOMAIN failed : k < l => resultAt(failed[k]) < resultAt(failed[l])
  /\ written.present => written.results = results /\ written.failed = failed

(* Under itemFailurePolicy Fail a worker that was still queued when an item *)
(* failed never starts its child, even when it is the failing worker's slot *)
(* that lets it through the semaphore.                                      *)
NothingStartsAfterFailure ==
  loop.policy = "Fail" /\ failed # <<>> =>
    \A i \in 1 .. MaxItems : worker[i] # "processing" => worker'[i] # "processing"

(* The loop ends: whatever fails, stops or is cancelled, no worker waits    *)
(* for a slot or the feeder for a worker for ever.                          *)
LoopReturns == <>[](answer # "none")

(* What executeForEach reports is what happened, and a failure under policy *)
(* Fail stops what has not started.                                         *)
ForEachSound == [](NilIsEarned /\ ResultsAgree) /\ [][NothingStartsAfterFailure]_feVars

============================================================================
