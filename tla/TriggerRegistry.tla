-------------------------- MODULE TriggerRegistry --------------------------
(***************************************************************************)
(* How the triggers of one Workflow are registered: the Workflow           *)
(* reconciler, the trigger manager's watches and the scheduler's entries.  *)
(*                                                                         *)
(* Every reconcile registers everything anew.  A watch is read by a        *)
(* goroutine of its own, which opens the watch again when the API server   *)
(* closes it, and which must end when its trigger is replaced or removed.  *)
(***************************************************************************)
EXTENDS Naturals, FiniteSets

CONSTANTS
  Triggers,    \* positions in spec.triggers, 1 .. n
  Specs,       \* the values of spec.triggers, functions from Triggers to Kinds
  Slots,       \* bound: goroutines that exist at the same time
  MaxEdits,    \* bound on changes of the Workflow
  MaxRefusals  \* bound on watches the API server refuses to open

VARIABLES
  wanted,      \* spec.triggers of the Workflow
  edition,     \* how often the Workflow has changed
  exists,      \* the Workflow exists
  pending,     \* the reconciler has not yet handled the latest change
  schedule,    \* the scheduler's entries: the edition each was made from, or 0
  watcher,     \* the trigger manager's watch of each trigger: a slot, or 0
  goroutine,   \* the watch goroutines
  refusals

registryVars == <<wanted, edition, exists, pending, schedule, watcher, goroutine, refusals>>

\* badCron: a schedule that does not parse.  outOfScope: an event trigger that
\* EventResourceInScope refuses.  badEvent: one whose apiVersion or selector
\* watchResource cannot parse, so that every attempt to watch it fails.
Kinds == {"cron", "badCron", "event", "badEvent", "outOfScope", "webhook"}
cronKinds == {"cron", "badCron"}
eventKinds == {"event", "badEvent", "outOfScope"}
badKinds == {"badCron", "badEvent"}

Unused == [pc |-> "ended", edition |-> 0, trigger |-> 0, stop |-> FALSE, open |-> FALSE]
Goroutine == [pc : {"select", "creating", "reopen", "ended"}, edition : 0 .. MaxEdits,
              trigger : {0} \cup Triggers, stop : BOOLEAN, open : BOOLEAN]

Init ==
  /\ wanted \in Specs /\ edition = 1 /\ exists = TRUE /\ pending = TRUE
  /\ schedule = [i \in Triggers |-> 0] /\ watcher = [i \in Triggers |-> 0]
  /\ goroutine = [s \in Slots |-> Unused] /\ refusals = 0

\* The Workflow is edited, deleted or created anew.
Edit ==
  /\ edition < MaxEdits
  /\ wanted' \in Specs /\ exists' \in BOOLEAN
  /\ edition' = edition + 1 /\ pending' = TRUE
  /\ UNCHANGED <<schedule, watcher, goroutine, refusals>>

\* stopWatchersForKey: cancel the goroutines' context and stop their watches.
stopped(old, S) ==
  [s \in Slots |-> IF s \in {watcher[i] : i \in S} THEN [old[s] EXCEPT !.stop = TRUE] ELSE old[s]]

\* pruneTriggers, staleTriggerKey: the keys that are no trigger of their kind.
stale_ByPosition ==
  [cron |-> IF exists THEN {} ELSE Triggers, event |-> IF exists THEN {} ELSE Triggers]

stale ==
  IF exists THEN [cron |-> {i \in Triggers : wanted[i] \notin cronKinds},
                  event |-> {i \in Triggers : wanted[i] \notin eventKinds}]
  ELSE [cron |-> Triggers, event |-> Triggers]

free == {s \in Slots : goroutine[s].pc = "ended"}

\* Slots for new watches, the lowest free one first.
slotOf(i, starts) ==
  CHOOSE s \in free : Cardinality({t \in free : t < s}) = Cardinality({j \in starts : j < i})

register_KeepsWatch(last, ok) ==
  LET done(i) == i < last \/ (i = last /\ ok)
      starts == {i \in Triggers : wanted[i] = "event" /\ done(i)}
  IN /\ Cardinality(starts) <= Cardinality(free)
     /\ UNCHANGED schedule
     /\ watcher' = [i \in Triggers |-> IF i \in starts THEN slotOf(i, starts) ELSE watcher[i]]
     /\ goroutine' = [s \in Slots |->
          IF \E i \in starts : slotOf(i, starts) = s
          THEN [pc |-> "select", edition |-> edition, stop |-> FALSE, open |-> TRUE,
                trigger |-> CHOOSE i \in starts : slotOf(i, starts) = s]
          ELSE goroutine[s]]

\* RegisterWorkflow, in the order of spec.triggers, up to the trigger that fails.
register(last, ok) ==
  LET done(i) == i < last \/ (i = last /\ ok)
      reached(i) == i <= last
      starts == {i \in Triggers : wanted[i] = "event" /\ done(i)}
      ends == stale.event \cup {i \in Triggers : wanted[i] \in eventKinds /\ reached(i)}
  IN /\ Cardinality(starts) <= Cardinality(free)
     /\ schedule' = [i \in Triggers |->
          IF i \in stale.cron \/ (wanted[i] = "badCron" /\ reached(i)) THEN 0
          ELSE IF wanted[i] = "cron" /\ done(i) THEN edition ELSE schedule[i]]
     /\ watcher' = [i \in Triggers |->
          IF i \in starts THEN slotOf(i, starts) ELSE IF i \in ends THEN 0 ELSE watcher[i]]
     /\ goroutine' = [s \in Slots |->
          IF \E i \in starts : slotOf(i, starts) = s
          THEN [pc |-> "select", edition |-> edition, stop |-> FALSE, open |-> TRUE,
                trigger |-> CHOOSE i \in starts : slotOf(i, starts) = s]
          ELSE stopped(goroutine, ends)[s]]

badOnes == {i \in Triggers : wanted[i] \in badKinds}
firstBad == CHOOSE i \in badOnes : \A j \in badOnes : i <= j
lastTrigger == Cardinality(Triggers)

\* Reconcile of an existing Workflow.  A schedule, apiVersion or selector that
\* does not parse fails it every time; it is retried.
Register ==
  /\ pending /\ exists
  /\ IF badOnes = {} THEN register(lastTrigger, TRUE) /\ pending' = FALSE
     ELSE register(firstBad, FALSE) /\ UNCHANGED pending
  /\ UNCHANGED <<wanted, edition, exists, refusals>>

\* The API server refuses a watch for once; the reconcile is retried.
RegisterRefused(i) ==
  /\ pending /\ exists /\ wanted[i] = "event" /\ refusals < MaxRefusals
  /\ \A j \in badOnes : i < j
  /\ register(i, FALSE) /\ refusals' = refusals + 1
  /\ UNCHANGED <<wanted, edition, exists, pending>>

\* Reconcile of a Workflow that is gone, or is being deleted.
Unregister ==
  /\ pending /\ ~exists
  /\ schedule' = [i \in Triggers |-> IF i \in stale.cron THEN 0 ELSE schedule[i]]
  /\ watcher' = [i \in Triggers |-> IF i \in stale.event THEN 0 ELSE watcher[i]]
  /\ goroutine' = stopped(goroutine, stale.event) /\ pending' = FALSE
  /\ UNCHANGED <<wanted, edition, exists, refusals>>

step(s, g) == goroutine' = [goroutine EXCEPT ![s] = g]
                /\ UNCHANGED <<wanted, edition, exists, pending, schedule, watcher, refusals>>

\* watchEvents takes an event, even if it could take the stop: select chooses.
TakeEvent(s) ==
  goroutine[s].pc = "select" /\ goroutine[s].open /\ step(s, [goroutine[s] EXCEPT !.pc = "creating"])

RunCreated(s) == goroutine[s].pc = "creating" /\ step(s, [goroutine[s] EXCEPT !.pc = "select"])

\* The API server ends the watch, or its context was cancelled.
WatchCloses(s) ==
  goroutine[s].pc # "ended" /\ goroutine[s].open /\ step(s, [goroutine[s] EXCEPT !.open = FALSE])

SeeClosed(s) ==
  goroutine[s].pc = "select" /\ ~goroutine[s].open /\ step(s, [goroutine[s] EXCEPT !.pc = "reopen"])

\* reopenWatch: with its context cancelled, no watch can be opened.
Reopen(s) ==
  /\ goroutine[s].pc = "reopen" /\ ~goroutine[s].stop
  /\ step(s, [goroutine[s] EXCEPT !.pc = "select", !.open = TRUE])

SeeStop(s) == goroutine[s].pc \in {"select", "reopen"} /\ goroutine[s].stop /\ step(s, Unused)

Next ==
  \/ Edit \/ Register \/ Unregister \/ \E i \in Triggers : RegisterRefused(i)
  \/ \E s \in Slots : \/ TakeEvent(s) \/ RunCreated(s) \/ WatchCloses(s) \/ SeeClosed(s)
                      \/ Reopen(s) \/ SeeStop(s)

\* What a goroutine does next, and a watch whose context is cancelled closes.
ReaderStep(s) == RunCreated(s) \/ SeeClosed(s) \/ Reopen(s) \/ SeeStop(s)
EndsWithContext(s) == goroutine[s].stop /\ WatchCloses(s)

\* The work queue retries, goroutines run and calls return.
Fairness ==
  /\ WF_registryVars(Register \/ Unregister)
  /\ \A s \in Slots : WF_registryVars(ReaderStep(s)) /\ WF_registryVars(EndsWithContext(s))

Spec == Init /\ [][Next]_registryVars /\ Fairness
----------------------------------------------------------------------------
TypeOK ==
  /\ wanted \in [Triggers -> Kinds] /\ goroutine \in [Slots -> Goroutine]
  /\ schedule \in [Triggers -> 0 .. MaxEdits] /\ watcher \in [Triggers -> {0} \cup Slots]

(* At any time one trigger is read by at most one goroutine that has not been *)
(* told to stop, the one the manager knows and can stop: no event is taken    *)
(* twice, and none for a trigger that nobody can remove any more.             *)
OneReader ==
  \A s \in Slots : LET g == goroutine[s]
                   IN g.pc # "ended" /\ ~g.stop => watcher[g.trigger] = s

(* A goroutine whose trigger was replaced or removed ends, even one that is   *)
(* waiting to open its watch again, and one with events to take.              *)
replaced(s) == goroutine[s].pc # "ended" /\ watcher[goroutine[s].trigger] # s
StoppedReadersEnd == \A s \in Slots : []<>~replaced(s)

(* When the Workflow no longer changes, its triggers are in the end exactly   *)
(* the registered ones, as they are in its latest edition, and none is left   *)
(* once it is gone.  A trigger whose schedule, apiVersion or selector does not *)
(* parse is registered at no time, and those that follow it are exempt: they  *)
(* stay as they were, for RegisterWorkflow returns at the first that fails.   *)
(* And the goroutines that were replaced on the way there end.                *)
registered ==
  \A i \in Triggers :
    (\A j \in badOnes : i <= j) \/ ~exists =>
      /\ schedule[i] = IF exists /\ wanted[i] = "cron" THEN edition ELSE 0
      /\ IF exists /\ wanted[i] = "event"
         THEN watcher[i] # 0 /\ goroutine[watcher[i]].edition = edition
         ELSE watcher[i] = 0
TriggersConverge == <>[]registered /\ StoppedReadersEnd
============================================================================
