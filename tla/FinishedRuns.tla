---------------------------- MODULE FinishedRuns ----------------------------
(***************************************************************************)
(* What happens to the WorkflowRuns of one Workflow once they end: the     *)
(* reconciler's run policy (spec.run.retentionMinutes and maxAllowed), and *)
(* the metrics counted from the informer's updates.                        *)
(*                                                                         *)
(* A run that failed in a step has no completion time.  The policy lists   *)
(* the informer cache, which may still show what it has just deleted.      *)
(***************************************************************************)
EXTENDS Naturals, FiniteSets

CONSTANTS
  Runs,        \* the runs that ever exist
  MaxAllowed,  \* spec.run.maxAllowed, at least 1
  Retention,   \* spec.run.retentionMinutes, at least 1
  Rewrites,    \* whose status may be written again and how: <<run, "again" or "revive">>
  MaxClock, MaxFaults   \* bounds

VARIABLES
  wfRun,     \* each run at the API server; time 0 is no completion time
  wfCache,   \* each run in the informer cache
  clock,
  counted,   \* how often the metrics have counted each run
  ends,      \* history: how often each run has ended
  queue,     \* the reconciler's work queue
  policy,    \* the policy being applied
  late,      \* some run's status was written again after it had ended
  faults

finishedVars == <<wfRun, wfCache, clock, counted, ends, queue, policy, late, faults>>

Run == [phase : {"absent", "active", "done", "deleted"}, time : 0 .. MaxClock]
\* current: the run it is called for; todo: the runs to delete, with the completion times they were listed with.
Idle == [pc |-> "idle", current |-> {}, todo |-> <<>>]

\* The informer may not have seen them yet.
Init ==
  /\ wfRun = [r \in Runs |-> [phase |-> "active", time |-> 0]]
  /\ \E seen \in {"absent", "active"} : wfCache = [r \in Runs |-> [phase |-> seen, time |-> 0]]
  /\ clock = 1 /\ counted = [r \in Runs |-> 0] /\ ends = [r \in Runs |-> 0]
  /\ queue = {} /\ policy = Idle /\ late = FALSE /\ faults = 0

\* A run ends; one that failed in a step has no completion time.  No two runs
\* end in the same second.
EndRun(r) ==
  /\ wfRun[r].phase = "active"
  /\ \/ wfRun' = [wfRun EXCEPT ![r] = [phase |-> "done", time |-> 0]] /\ UNCHANGED clock
     \/ /\ clock < MaxClock /\ clock' = clock + 1
        /\ wfRun' = [wfRun EXCEPT ![r] = [phase |-> "done", time |-> clock]]
  /\ ends' = [ends EXCEPT ![r] = @ + 1]
  /\ UNCHANGED <<wfCache, counted, queue, policy, faults, late>>

\* A run that cron's Replace marked Failed; its runner then persists Succeeded.
EndAgain(r) ==
  /\ <<r, "again">> \in Rewrites /\ wfRun[r].phase = "done" /\ wfRun[r].time = 0 /\ clock < MaxClock /\ ~late
  /\ wfRun' = [wfRun EXCEPT ![r].time = clock] /\ late' = TRUE /\ clock' = clock + 1
  /\ UNCHANGED <<wfCache, counted, ends, queue, policy, faults>>

\* A run that was cancelled or failed under its runner, which writes its own copy
\* of the status back and runs on.
Revive(r) ==
  /\ <<r, "revive">> \in Rewrites /\ wfRun[r].phase = "done" /\ ~late
  /\ wfRun' = [wfRun EXCEPT ![r] = [phase |-> "active", time |-> 0]] /\ late' = TRUE
  /\ UNCHANGED <<wfCache, clock, counted, ends, queue, policy, faults>>

\* recordRunTransition: the update that takes a run into a terminal phase.
transitions(old, new) == IF old.phase = "active" /\ new.phase = "done" THEN 1 ELSE 0

\* The informer catches up: the reconciler is told of every change, the metrics
\* of updates only.
Deliver ==
  /\ wfCache # wfRun
  /\ wfCache' = wfRun
  /\ counted' = [r \in Runs |-> counted[r] + IF wfCache[r].phase = "absent" THEN 0
                                             ELSE transitions(wfCache[r], wfRun[r])]
  /\ queue' = queue \cup {r \in Runs : wfCache[r] # wfRun[r]}
  /\ UNCHANGED <<wfRun, clock, ends, policy, faults, late>>

\* listCompletedRunsForWorkflow reads the cache.
completed == {r \in Runs : wfCache[r].phase = "done"}
listed(S) == [r \in S |-> wfCache[r].time]
expired == {r \in completed : wfCache[r].time # 0 /\ wfCache[r].time + Retention < clock}

\* Reconcile of a run that is over; of any other it applies no policy.
Begin(r) ==
  /\ policy.pc = "idle" /\ r \in queue
  /\ queue' = queue \ {r}
  /\ IF wfCache[r].phase = "done"
     THEN policy' = [pc |-> "retention", current |-> {r}, todo |-> listed(expired)]
     ELSE UNCHANGED policy
  /\ UNCHANGED <<wfRun, wfCache, clock, counted, ends, faults, late>>

\* A run that is gone already is no error.  Having deleted the run it was called
\* for, the policy returns.
deleteRun(r) ==
  /\ wfRun' = [wfRun EXCEPT ![r].phase = "deleted"]
  /\ policy' = IF r \in policy.current THEN Idle
               ELSE [policy EXCEPT !.todo = [s \in DOMAIN policy.todo \ {r} |-> policy.todo[s]]]

\* Retention goes through the runs in the order of the list.
DeleteExpired ==
  /\ policy.pc = "retention" /\ \E r \in DOMAIN policy.todo : deleteRun(r)
  /\ UNCHANGED <<wfCache, clock, counted, ends, queue, faults, late>>

\* maxAllowed: list again, sort by completion time (none is oldest), and take
\* the first ones.
tooMany_AnyOrder == {S \in SUBSET completed : Cardinality(S) = Cardinality(completed) - MaxAllowed}

tooMany ==
  {S \in SUBSET completed :
     /\ Cardinality(S) = Cardinality(completed) - MaxAllowed
     /\ \A x \in S, y \in completed \ S : wfCache[x].time <= wfCache[y].time}

Recount ==
  /\ policy.pc = "retention" /\ DOMAIN policy.todo = {}
  /\ IF Cardinality(completed) <= MaxAllowed THEN policy' = Idle
     ELSE \E S \in tooMany : policy' = [policy EXCEPT !.pc = "excess", !.todo = listed(S)]
  /\ UNCHANGED <<wfRun, wfCache, clock, counted, ends, queue, faults, late>>

DeleteExcess ==
  /\ policy.pc = "excess"
  /\ IF DOMAIN policy.todo = {} THEN policy' = Idle /\ UNCHANGED wfRun
     ELSE \E r \in DOMAIN policy.todo :
            (\A s \in DOMAIN policy.todo : policy.todo[r] <= policy.todo[s]) /\ deleteRun(r)
  /\ UNCHANGED <<wfCache, clock, counted, ends, queue, faults, late>>

\* An API error ends the reconcile; it is queued again.
DeleteFails_Forgets ==
  /\ DOMAIN policy.todo # {} /\ faults < MaxFaults
  /\ policy' = Idle /\ faults' = faults + 1
  /\ UNCHANGED <<wfRun, wfCache, clock, counted, ends, queue, late>>

DeleteFails ==
  /\ DOMAIN policy.todo # {} /\ faults < MaxFaults
  /\ policy' = Idle /\ queue' = queue \cup policy.current /\ faults' = faults + 1
  /\ UNCHANGED <<wfRun, wfCache, clock, counted, ends, late>>

\* Another replica takes the lead: its informer lists everything, as additions.
NewLeader ==
  /\ faults < MaxFaults
  /\ wfCache' = wfRun /\ policy' = Idle /\ faults' = faults + 1
  /\ queue' = {r \in Runs : wfRun[r].phase \in {"active", "done"}}
  /\ UNCHANGED <<wfRun, clock, counted, ends, late>>

Reconcile == DeleteExpired \/ Recount \/ DeleteExcess \/ \E r \in Runs : Begin(r)

Next ==
  \/ Reconcile \/ DeleteFails \/ NewLeader \/ Deliver
  \/ \E r \in Runs : EndRun(r) \/ EndAgain(r) \/ Revive(r)

Fairness == WF_finishedVars(Reconcile) /\ WF_finishedVars(Deliver)

Spec == Init /\ [][Next]_finishedVars /\ Fairness
----------------------------------------------------------------------------
TypeOK ==
  /\ wfRun \in [Runs -> Run] /\ wfCache \in [Runs -> Run]
  /\ counted \in [Runs -> Nat] /\ ends \in [Runs -> Nat] /\ queue \subseteq Runs
  /\ DOMAIN policy.todo \subseteq Runs /\ policy.current \subseteq Runs

Done == {r \in Runs : wfRun[r].phase = "done"}

(* A run is counted in ottoflow_workflow_runs_total at most once for each     *)
(* time it ended, however the informer merges its updates, whatever terminal  *)
(* phases it passes through, and across the replicas that lead in turn.  Only *)
(* one that its runner wrote back to Running ends, and is counted, again.     *)
CountedOnce == \A r \in Runs : counted[r] <= ends[r] /\ (~late => ends[r] <= 1)

(* A run that was listed with a completion time is deleted only when          *)
(* retentionMinutes have passed, or when maxAllowed finished runs remain that *)
(* are newer, though the cache may show runs that are gone and not show newer *)
(* ones.  (Without a time, or in the same second, the sort may pick another   *)
(* run from a stale list each time, and fewer than maxAllowed remain; and it  *)
(* goes by what a run's status said before it was written again.)             *)
DeletedForCause ==
  \A r \in Runs :
    wfRun[r].phase = "done" /\ wfRun'[r].phase = "deleted" /\ ~late /\ policy.todo[r] # 0
    => \/ wfRun[r].time + Retention < clock
       \/ Cardinality({s \in Done : wfRun[s].time > wfRun[r].time}) >= MaxAllowed

(* Once runs stop ending, no more than maxAllowed finished ones are left,     *)
(* though an application of the policy stops at the run it was called for and *)
(* leaves what is in excess beyond it.                                        *)
underCap == Cardinality(Done) <= MaxAllowed
CapReached == <>[]underCap

(* A finished run is counted once for each end at most, and kept until there  *)
(* is a reason to delete it.                                                  *)
FinishedSound == []CountedOnce /\ [][DeletedForCause]_finishedVars

============================================================================
