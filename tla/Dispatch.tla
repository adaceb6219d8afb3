----------------------------- MODULE Dispatch -----------------------------
(***************************************************************************)
(* How the triggers of one Workflow create WorkflowRuns.                   *)
(*                                                                         *)
(* Watch goroutines, cron fires and webhook requests run concurrently.     *)
(* Each checks its own condition (deduplication, concurrency policy), then *)
(* spec.run.maxConcurrentRuns, then creates a run.  The checks read the    *)
(* informer cache or a map whose lock is not held until the run exists, so *)
(* two dispatchers may pass the same check.  What limits the damage is     *)
(* that a watch goroutine and a cron fire do not take up their next event  *)
(* before the cache shows the run they created: they set its status, and   *)
(* for that they get it from the cache.                                    *)
(***************************************************************************)
EXTENDS Naturals, FiniteSets

CONSTANTS
  Watchers,   \* watch goroutines of the event trigger
  Fires,      \* cron fires that may be in progress at the same time
  Requests,   \* webhook requests that may be in progress at the same time
  Objects,    \* what deduplication tells apart: watched objects, payload keys
  Keys,       \* revisions (dedup keys) of a watched object
  NoKey,      \* no revision could be determined
  Runs,       \* bound: names for the runs that exist at the same time
  NoRun,
  Limit,      \* spec.run.maxConcurrentRuns in effect; 0 is no limit
  SlowCache,  \* the cache may lag more than the five attempts of a trigger
  EndsEarly   \* a run may end before its trigger has set its status

Dispatchers == Watchers \cup Fires \cup Requests

ASSUME DispatchAssumption ==
  /\ Watchers \cap Fires = {} /\ Watchers \cap Requests = {}
  /\ Fires \cap Requests = {}
  /\ IsFiniteSet(Dispatchers) /\ IsFiniteSet(Runs)
  /\ Objects # {} /\ NoKey \notin Keys /\ NoRun \notin Runs
  /\ Limit \in Nat
  /\ SlowCache \in BOOLEAN /\ EndsEarly \in BOOLEAN

VARIABLES
  policy,  \* concurrencyPolicy of the cron trigger
  run,     \* each run at the API server
  cache,   \* each run in the informer cache
  by,      \* the trigger label of each run
  dedup,   \* dedupState of the event and of the webhook trigger
  disp,    \* what each dispatcher is doing
  made     \* history: what watchers and requests created runs for

vars == <<policy, run, cache, by, dedup, disp, made>>

---------------------------------------------------------------------------
Policies == {"Allow", "Forbid", "Replace"}
Triggers == {"event", "cron", "webhook"}

\* IsActive: the phase is empty, Pending or Running.  A run that is not Active
\* has Succeeded or Failed, or does not exist.
RunStates == {"None", "Active", "Done"}

\* dedupEntry: recent says that createdAt is within the window.
Entry   == [key : Keys \cup {NoKey}, recent : BOOLEAN]
NoEntry == [key |-> NoKey, recent |-> FALSE]

\* skip: the runs that a Replace fire has cancelled.
Activity == [pc : {"idle", "count", "create", "record", "status"},
             obj : Objects, key : Keys \cup {NoKey},
             run : Runs \cup {NoRun}, skip : SUBSET Runs]
AnyObject == CHOOSE o \in Objects : TRUE
Idle == [pc |-> "idle", obj |-> AnyObject, key |-> NoKey,
         run |-> NoRun, skip |-> {}]

trigger(d) == IF d \in Watchers THEN "event"
              ELSE IF d \in Fires THEN "cron" ELSE "webhook"

Init ==
  /\ policy \in Policies
  /\ run = [r \in Runs |-> "None"]
  /\ cache = [r \in Runs |-> "None"]
  /\ by = [r \in Runs |-> "event"]
  /\ dedup = [t \in {"event", "webhook"} |-> [o \in Objects |-> NoEntry]]
  /\ disp = [d \in Dispatchers |-> Idle]
  /\ made = {}

Goto(d, act) == disp' = [disp EXCEPT ![d] = act]

cachedActive == {r \in Runs : cache[r] = "Active"}
cachedCron   == {r \in cachedActive : by[r] = "cron"}

---------------------------------------------------------------------------
(***************************************************************************)
(* A dispatcher begins.                                                    *)
(***************************************************************************)

\* The deduplication gate.  A revision is compared with the last one that
\* created a run; without one the time window decides.
Duplicate(t, o, k) ==
  IF k # NoKey THEN dedup[t][o].key = k ELSE dedup[t][o].recent

\* CreateWorkflowRunFromEvent up to the release of dedupMu.  Events that the
\* filters reject, and duplicates, change nothing.
ReceiveEvent(d, o, k) ==
  /\ d \in Watchers /\ disp[d].pc = "idle"
  /\ ~Duplicate("event", o, k)
  /\ Goto(d, [Idle EXCEPT !.pc = "count", !.obj = o, !.key = k])
  /\ UNCHANGED <<policy, run, cache, by, dedup, made>>

\* CreateWorkflowRunFromWebhook up to the release of dedupMu, for a request
\* that handleWebhook admits.
ReceiveRequest(d, o) ==
  /\ d \in Requests /\ disp[d].pc = "idle"
  /\ ~Duplicate("webhook", o, NoKey)
  /\ Goto(d, [Idle EXCEPT !.pc = "count", !.obj = o])
  /\ UNCHANGED <<policy, run, cache, by, dedup, made>>

\* handleCronFire under Allow, or under Forbid when the cache shows no active
\* cron run.
Fire(d) ==
  /\ d \in Fires /\ disp[d].pc = "idle"
  /\ \/ policy = "Allow"
     \/ policy = "Forbid" /\ cachedCron = {}
  /\ Goto(d, [Idle EXCEPT !.pc = "count"])
  /\ UNCHANGED <<policy, run, cache, by, dedup, made>>

\* handleCronFire under Replace: fail the active cron runs the cache shows,
\* one after the other.  A conflict ends the fire with some of them failed.
FireReplace(d) ==
  /\ d \in Fires /\ disp[d].pc = "idle"
  /\ policy = "Replace"
  /\ \E S \in SUBSET cachedCron :
       /\ \A r \in S : run[r] = "Active"
       /\ run' = [r \in Runs |-> IF r \in S THEN "Done" ELSE run[r]]
       /\ Goto(d, IF S = cachedCron
                  THEN [Idle EXCEPT !.pc = "count", !.skip = S] ELSE Idle)
  /\ UNCHANGED <<policy, cache, by, dedup, made>>

---------------------------------------------------------------------------
(***************************************************************************)
(* A dispatcher creates a run.                                             *)
(***************************************************************************)

Count_OffByOne(d) ==
  /\ disp[d].pc = "count"
  /\ IF Limit > 0 /\ Cardinality(cachedActive \ disp[d].skip) > Limit
     THEN Goto(d, Idle)
     ELSE Goto(d, [disp[d] EXCEPT !.pc = "create", !.skip = {}])
  /\ UNCHANGED <<policy, run, cache, by, dedup, made>>

\* The maxConcurrentRuns gate over countActiveWorkflowRuns.
Count(d) ==
  /\ disp[d].pc = "count"
  /\ IF Limit > 0 /\ Cardinality(cachedActive \ disp[d].skip) >= Limit
     THEN Goto(d, Idle)
     ELSE Goto(d, [disp[d] EXCEPT !.pc = "create", !.skip = {}])
  /\ UNCHANGED <<policy, run, cache, by, dedup, made>>

\* Create with a name of its own; when it fails the event is dropped.
Create(d) ==
  /\ disp[d].pc = "create"
  /\ \E r \in Runs :
       /\ run[r] = "None" /\ cache[r] = "None"
       /\ \A e \in Dispatchers : disp[e].run # r /\ r \notin disp[e].skip
       /\ run' = [run EXCEPT ![r] = "Active"]
       /\ by' = [by EXCEPT ![r] = trigger(d)]
       /\ Goto(d, [disp[d] EXCEPT !.run = r,
                     !.pc = IF d \in Fires THEN "status" ELSE "record"])
  /\ made' = IF d \in Fires THEN made
             ELSE made \cup {<<trigger(d), disp[d].obj, disp[d].key>>}
  /\ UNCHANGED <<policy, cache, dedup>>

CreateFails_Records(d) ==
  /\ disp[d].pc = "create"
  /\ dedup' = IF d \in Fires THEN dedup
              ELSE [dedup EXCEPT ![trigger(d)][disp[d].obj] =
                      [key |-> disp[d].key, recent |-> TRUE]]
  /\ Goto(d, Idle)
  /\ UNCHANGED <<policy, run, cache, by, made>>

CreateFails(d) ==
  /\ disp[d].pc = "create"
  /\ Goto(d, Idle)
  /\ UNCHANGED <<policy, run, cache, by, dedup, made>>

\* The dedup entry is written once the run exists.
Record(d) ==
  /\ disp[d].pc = "record"
  /\ dedup' = [dedup EXCEPT ![trigger(d)][disp[d].obj] =
                 [key |-> disp[d].key, recent |-> TRUE]]
  /\ Goto(d, [disp[d] EXCEPT !.pc = "status"])
  /\ UNCHANGED <<policy, run, cache, by, made>>

SetStatus_KeepsRun(d) ==
  /\ disp[d].pc = "status"
  /\ LET r == disp[d].run IN
       /\ cache[r] # "None"
       /\ run' = IF cache[r] = run[r] THEN [run EXCEPT ![r] = "Active"] ELSE run
  /\ Goto(d, [disp[d] EXCEPT !.pc = "idle"])
  /\ UNCHANGED <<policy, cache, by, dedup, made>>

\* The status loop: get the run from the cache and replace its status by a
\* Pending one, which is rejected when the cached copy is not current.  A retry
\* that succeeds is this step taken later; five rejections leave the run alone.
SetStatus(d) ==
  /\ disp[d].pc = "status"
  /\ LET r == disp[d].run IN
       /\ cache[r] # "None"
       /\ run' = IF cache[r] = run[r] THEN [run EXCEPT ![r] = "Active"] ELSE run
  /\ Goto(d, Idle)
  /\ UNCHANGED <<policy, cache, by, dedup, made>>

NotFound_Leaves(d) ==
  /\ disp[d].pc = "status"
  /\ cache[disp[d].run] = "None"
  /\ Goto(d, Idle)
  /\ UNCHANGED <<policy, run, cache, by, dedup, made>>

\* The status loop ends with a run that is not in the cache: a webhook request
\* leaves it at the first NotFound, the others after five attempts.
NotFound(d) ==
  /\ disp[d].pc = "status"
  /\ cache[disp[d].run] = "None"
  /\ d \in Requests \/ SlowCache
  /\ Goto(d, Idle)
  /\ UNCHANGED <<policy, run, cache, by, dedup, made>>

---------------------------------------------------------------------------
(***************************************************************************)
(* Around the dispatchers: runs end and are removed, the cache follows,    *)
(* time passes.                                                            *)
(***************************************************************************)
Finish(r) ==
  /\ run[r] = "Active"
  /\ EndsEarly \/ \A d \in Dispatchers : disp[d].run # r
  /\ run' = [run EXCEPT ![r] = "Done"]
  /\ UNCHANGED <<policy, cache, by, dedup, disp, made>>

\* A run that is no longer active is removed; its name is used again only once
\* the cache has seen it go.
Remove(r) ==
  /\ run[r] = "Done" /\ cache[r] = "Done"
  /\ run' = [run EXCEPT ![r] = "None"]
  /\ cache' = [cache EXCEPT ![r] = "None"]
  /\ by' = [by EXCEPT ![r] = "event"]
  /\ UNCHANGED <<policy, dedup, disp, made>>

SyncCache(r) ==
  /\ cache[r] # run[r]
  /\ cache' = [cache EXCEPT ![r] = run[r]]
  /\ UNCHANGED <<policy, run, by, dedup, disp, made>>

\* At once, when no window is configured.
WindowPasses(t, o) ==
  /\ dedup[t][o].recent
  /\ dedup' = [dedup EXCEPT ![t][o].recent = FALSE]
  /\ UNCHANGED <<policy, run, cache, by, disp, made>>

Next ==
  \/ \E d \in Dispatchers :
       \/ \E o \in Objects, k \in Keys \cup {NoKey} : ReceiveEvent(d, o, k)
       \/ \E o \in Objects : ReceiveRequest(d, o)
       \/ Fire(d) \/ FireReplace(d)
       \/ Count(d) \/ Create(d) \/ CreateFails(d) \/ Record(d)
       \/ SetStatus(d) \/ NotFound(d)
  \/ \E r \in Runs : Finish(r) \/ Remove(r) \/ SyncCache(r)
  \/ \E t \in {"event", "webhook"}, o \in Objects : WindowPasses(t, o)

Spec == Init /\ [][Next]_vars

---------------------------------------------------------------------------
(***************************************************************************)
(* Properties.                                                             *)
(***************************************************************************)
activeBy(T) == {r \in Runs : run[r] = "Active" /\ by[r] \in T}

\* Every variable has its type, and a dispatcher that is setting a status
\* knows of which run.
TypeOK ==
  /\ policy \in Policies
  /\ run \in [Runs -> RunStates] /\ cache \in [Runs -> RunStates]
  /\ by \in [Runs -> Triggers]
  /\ dedup \in [{"event", "webhook"} -> [Objects -> Entry]]
  /\ disp \in [Dispatchers -> Activity]
  /\ \A d \in Dispatchers :
       disp[d].pc \in {"record", "status"} <=> disp[d].run \in Runs
  /\ made \subseteq Triggers \X Objects \X (Keys \cup {NoKey})

\* The runs of cron and event triggers exceed maxConcurrentRuns by at most the
\* number of other dispatchers: countActiveWorkflowRuns misses no run but the
\* one that each of them is creating.
LimitNearlyKept ==
  Limit > 0 =>
    Cardinality(activeBy({"event", "cron"}))
      < Limit + Cardinality(Watchers \cup Fires)

\* Under Forbid and Replace as many cron runs are active as fires can be in
\* progress: one, when fires do not overlap.
PolicyKept ==
  policy # "Allow" =>
    Cardinality(activeBy({"cron"})) <= Cardinality(Fires)

\* A dedup entry stands for a run: a Create that failed never makes a later
\* event or request a duplicate.
RecordedMeansMade ==
  \A t \in {"event", "webhook"}, o \in Objects :
    /\ dedup[t][o].key # NoKey => <<t, o, dedup[t][o].key>> \in made
    /\ dedup[t][o].recent => \E k \in Keys \cup {NoKey} : <<t, o, k>> \in made
===========================================================================
