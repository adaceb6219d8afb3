-------------------------- MODULE DispatchProofs --------------------------
(***************************************************************************)
(* Theorems about the creation of runs, for any number of dispatchers,     *)
(* objects, revisions and runs and every limit.                            *)
(***************************************************************************)
EXTENDS Dispatch, FiniteSetTheorems, TLAPS

\* What a dispatcher can be doing.
LEMMA ActivityTypes ==
  /\ Idle \in Activity /\ Idle.pc = "idle" /\ Idle.run = NoRun /\ Idle.skip = {}
  /\ \A o \in Objects, k \in Keys \cup {NoKey}, S \in SUBSET Runs :
       /\ [Idle EXCEPT !.pc = "count", !.obj = o, !.key = k] \in Activity
       /\ [Idle EXCEPT !.pc = "count", !.obj = o] \in Activity
       /\ [Idle EXCEPT !.pc = "count", !.skip = S] \in Activity
       /\ [Idle EXCEPT !.pc = "count"] \in Activity
  /\ \A a \in Activity :
       /\ [a EXCEPT !.pc = "create", !.skip = {}] \in Activity
       /\ [a EXCEPT !.pc = "status"] \in Activity
       /\ \A r \in Runs, p \in {"status", "record"} :
            [a EXCEPT !.run = r, !.pc = p] \in Activity
<1>1. AnyObject \in Objects
  BY DispatchAssumption DEF AnyObject
<1>2. Idle \in Activity /\ Idle.pc = "idle" /\ Idle.run = NoRun /\ Idle.skip = {}
  BY <1>1 DEF Idle, Activity
<1>. QED
  BY <1>2 DEF Activity

LEMMA InitTypeOK == Init => TypeOK
<1>. SUFFICES ASSUME Init PROVE TypeOK
  OBVIOUS
<1>1. NoEntry \in Entry
  BY DEF NoEntry, Entry
<1>2. disp \in [Dispatchers -> Activity]
  BY ActivityTypes DEF Init
<1>3. \A d \in Dispatchers : disp[d].pc = "idle" /\ disp[d].run \notin Runs
  BY ActivityTypes, DispatchAssumption DEF Init
<1>. QED
  BY <1>1, <1>2, <1>3 DEF Init, TypeOK, RunStates, Triggers

\* The part of the type invariant that is about the dispatchers.
DispTypeOK ==
  /\ disp \in [Dispatchers -> Activity]
  /\ \A d \in Dispatchers :
       disp[d].pc \in {"record", "status"} <=> disp[d].run \in Runs

LEMMA GotoType ==
  ASSUME DispTypeOK, NEW d \in Dispatchers, NEW a \in Activity, Goto(d, a),
         a.pc \in {"record", "status"} <=> a.run \in Runs
  PROVE  DispTypeOK'
BY DEF DispTypeOK, Goto

LEMMA StepTypeOK == TypeOK /\ [Next]_vars => TypeOK'
<1>. SUFFICES ASSUME TypeOK, [Next]_vars PROVE TypeOK'
  OBVIOUS
<1>0. /\ DispTypeOK /\ NoRun \notin Runs
      /\ \A d \in Dispatchers : trigger(d) \in Triggers
      /\ {"None", "Active", "Done"} = RunStates
  BY DispatchAssumption DEF TypeOK, DispTypeOK, trigger, Triggers, RunStates
<1>i. ASSUME NEW d \in Dispatchers, Goto(d, Idle) PROVE DispTypeOK'
  BY <1>0, <1>i, ActivityTypes, GotoType
<1>1. ASSUME NEW d \in Dispatchers, NEW o \in Objects, NEW k \in Keys \cup {NoKey},
             ReceiveEvent(d, o, k)
      PROVE  TypeOK'
  <2>. DEFINE a == [Idle EXCEPT !.pc = "count", !.obj = o, !.key = k]
  <2>1. a \in Activity /\ a.pc = "count" /\ a.run = NoRun
    BY ActivityTypes DEF Idle
  <2>2. DispTypeOK'
    BY <1>0, <1>1, <2>1, GotoType DEF ReceiveEvent
  <2>. QED
    BY <1>1, <2>2 DEF ReceiveEvent, TypeOK, DispTypeOK
<1>2. ASSUME NEW d \in Dispatchers, NEW o \in Objects, ReceiveRequest(d, o)
      PROVE  TypeOK'
  <2>. DEFINE a == [Idle EXCEPT !.pc = "count", !.obj = o]
  <2>1. a \in Activity /\ a.pc = "count" /\ a.run = NoRun
    BY ActivityTypes DEF Idle, Activity
  <2>2. DispTypeOK'
    BY <1>0, <1>2, <2>1, GotoType DEF ReceiveRequest
  <2>. QED
    BY <1>2, <2>2 DEF ReceiveRequest, TypeOK, DispTypeOK
<1>3. ASSUME NEW d \in Dispatchers, Fire(d) PROVE TypeOK'
  <2>. DEFINE a == [Idle EXCEPT !.pc = "count"]
  <2>1. a \in Activity /\ a.pc = "count" /\ a.run = NoRun
    BY ActivityTypes DEF Idle, Activity
  <2>2. DispTypeOK'
    BY <1>0, <1>3, <2>1, GotoType DEF Fire
  <2>. QED
    BY <1>3, <2>2 DEF Fire, TypeOK, DispTypeOK
<1>4. ASSUME NEW d \in Dispatchers, FireReplace(d) PROVE TypeOK'
  <2>. PICK S \in SUBSET cachedCron :
         /\ run' = [r \in Runs |-> IF r \in S THEN "Done" ELSE run[r]]
         /\ Goto(d, IF S = cachedCron
                    THEN [Idle EXCEPT !.pc = "count", !.skip = S] ELSE Idle)
    BY <1>4 DEF FireReplace
  <2>. DEFINE a == [Idle EXCEPT !.pc = "count", !.skip = S]
  <2>1. S \in SUBSET Runs
    BY DEF cachedCron, cachedActive
  <2>2. a \in Activity /\ a.pc = "count" /\ a.run = NoRun
    BY <2>1, ActivityTypes DEF Idle, Activity
  <2>3. DispTypeOK'
    BY <1>0, <1>i, <2>2, GotoType
  <2>4. run' \in [Runs -> RunStates]
    BY <1>0 DEF TypeOK
  <2>. QED
    BY <1>4, <2>3, <2>4 DEF FireReplace, TypeOK, DispTypeOK
<1>5. ASSUME NEW d \in Dispatchers, Count(d) PROVE TypeOK'
  <2>. DEFINE a == [disp[d] EXCEPT !.pc = "create", !.skip = {}]
  <2>1. disp[d] \in Activity /\ disp[d].run \notin Runs
    BY <1>5 DEF Count, TypeOK
  <2>2. a \in Activity /\ a.pc = "create" /\ a.run = disp[d].run
    BY <2>1, ActivityTypes DEF Activity
  <2>3. DispTypeOK'
    BY <1>0, <1>5, <1>i, <2>1, <2>2, GotoType DEF Count
  <2>. QED
    BY <1>5, <2>3 DEF Count, TypeOK, DispTypeOK
<1>6. ASSUME NEW d \in Dispatchers, Create(d) PROVE TypeOK'
  <2>. PICK r \in Runs :
         /\ run' = [run EXCEPT ![r] = "Active"]
         /\ by' = [by EXCEPT ![r] = trigger(d)]
         /\ Goto(d, [disp[d] EXCEPT !.run = r,
                       !.pc = IF d \in Fires THEN "status" ELSE "record"])
    BY <1>6 DEF Create
  <2>. DEFINE p == IF d \in Fires THEN "status" ELSE "record"
  <2>. DEFINE a == [disp[d] EXCEPT !.run = r, !.pc = p]
  <2>1. disp[d] \in Activity
    BY DEF TypeOK
  <2>2. a \in Activity /\ a.pc \in {"record", "status"} /\ a.run = r
    <3>1. p \in {"status", "record"}
      OBVIOUS
    <3>. HIDE DEF p
    <3>. QED
      BY <2>1, <3>1, ActivityTypes DEF Activity
  <2>3. DispTypeOK'
    BY <1>0, <2>2, GotoType
  <2>4. run' \in [Runs -> RunStates] /\ by' \in [Runs -> Triggers]
    BY <1>0 DEF TypeOK
  <2>5. made' \subseteq Triggers \X Objects \X (Keys \cup {NoKey})
    <3>1. /\ disp[d].obj \in Objects /\ disp[d].key \in Keys \cup {NoKey}
          /\ trigger(d) \in Triggers
      BY <1>0, <2>1 DEF Activity
    <3>2. \/ made' = made
          \/ made' = made \cup {<<trigger(d), disp[d].obj, disp[d].key>>}
      BY <1>6 DEF Create
    <3>. QED
      BY <3>1, <3>2 DEF TypeOK
  <2>. QED
    BY <1>6, <2>3, <2>4, <2>5 DEF Create, TypeOK, DispTypeOK
<1>7. ASSUME NEW d \in Dispatchers, CreateFails(d) \/ NotFound(d) PROVE TypeOK'
  BY <1>7, <1>i DEF CreateFails, NotFound, TypeOK, DispTypeOK
<1>8. ASSUME NEW d \in Dispatchers, Record(d) PROVE TypeOK'
  <2>. DEFINE a == [disp[d] EXCEPT !.pc = "status"]
  <2>1. disp[d] \in Activity /\ disp[d].run \in Runs
    BY <1>8 DEF Record, TypeOK
  <2>2. a \in Activity /\ a.pc = "status" /\ a.run = disp[d].run
    BY <2>1, ActivityTypes DEF Activity
  <2>3. DispTypeOK'
    BY <1>0, <1>8, <2>1, <2>2, GotoType DEF Record
  <2>4. [key |-> disp[d].key, recent |-> TRUE] \in Entry
    BY <2>1 DEF Activity, Entry
  <2>5. dedup' \in [{"event", "webhook"} -> [Objects -> Entry]]
    BY <1>8, <2>1, <2>4 DEF Record, TypeOK, Activity
  <2>. QED
    BY <1>8, <2>3, <2>5 DEF Record, TypeOK, DispTypeOK
<1>9. ASSUME NEW d \in Dispatchers, SetStatus(d) PROVE TypeOK'
  <2>1. run' \in [Runs -> RunStates]
    BY <1>0, <1>9 DEF SetStatus, TypeOK
  <2>. QED
    BY <1>9, <1>i, <2>1 DEF SetStatus, TypeOK, DispTypeOK
<1>10. ASSUME NEW r \in Runs, Finish(r) \/ Remove(r) \/ SyncCache(r)
       PROVE  TypeOK'
  BY <1>0, <1>10 DEF Finish, Remove, SyncCache, TypeOK, Triggers
<1>11. ASSUME NEW t \in {"event", "webhook"}, NEW o \in Objects, WindowPasses(t, o)
       PROVE  TypeOK'
  <2>1. [dedup[t][o] EXCEPT !.recent = FALSE] \in Entry
    <3>1. dedup[t][o] \in Entry /\ FALSE \in BOOLEAN
      BY DEF TypeOK
    <3>. QED
      BY <3>1, Zenon DEF Entry
  <2>2. dedup' = [dedup EXCEPT ![t] = [dedup[t] EXCEPT ![o] =
                    [dedup[t][o] EXCEPT !.recent = FALSE]]]
    BY <1>11 DEF WindowPasses
  <2>3. [dedup[t] EXCEPT ![o] = [dedup[t][o] EXCEPT !.recent = FALSE]]
          \in [Objects -> Entry]
    BY <2>1 DEF TypeOK
  <2>4. dedup' \in [{"event", "webhook"} -> [Objects -> Entry]]
    BY <2>2, <2>3 DEF TypeOK
  <2>. QED
    BY <1>11, <2>4 DEF WindowPasses, TypeOK
<1>12. CASE UNCHANGED vars
  BY <1>12 DEF vars, TypeOK
<1>. QED
  BY <1>1, <1>2, <1>3, <1>4, <1>5, <1>6, <1>7, <1>8, <1>9, <1>10, <1>11, <1>12
     DEF Next

\* Every variable keeps its type, and a dispatcher past its Create knows the run
\* whose status it sets.
THEOREM DispatchTypeOK == Spec => []TypeOK
BY InitTypeOK, StepTypeOK, PTL DEF Spec

---------------------------------------------------------------------------
(***************************************************************************)
(* Deduplication.  RecordedMeansMade alone is not inductive: a dispatcher  *)
(* about to write its entry must have created the run.                     *)
(***************************************************************************)
RecordersMade ==
  \A d \in Dispatchers :
    disp[d].pc = "record" =>
      /\ d \notin Fires
      /\ <<trigger(d), disp[d].obj, disp[d].key>> \in made

\* A dispatcher moves on without reaching the record step.
LEMMA RecordersKept ==
  ASSUME TypeOK, RecordersMade, NEW d \in Dispatchers, NEW a, Goto(d, a),
         a.pc # "record", made \subseteq made'
  PROVE  RecordersMade'
BY DEF TypeOK, RecordersMade, Goto, trigger

LEMMA DedupStep ==
  TypeOK /\ RecordersMade /\ RecordedMeansMade /\ [Next]_vars
    => RecordersMade' /\ RecordedMeansMade'
<1>. SUFFICES ASSUME TypeOK, RecordersMade, RecordedMeansMade, [Next]_vars
              PROVE  RecordersMade' /\ RecordedMeansMade'
  OBVIOUS
<1>0. Idle.pc = "idle" /\ \A o, k, S :
        /\ [Idle EXCEPT !.pc = "count", !.obj = o, !.key = k].pc = "count"
        /\ [Idle EXCEPT !.pc = "count", !.obj = o].pc = "count"
        /\ [Idle EXCEPT !.pc = "count", !.skip = S].pc = "count"
        /\ [Idle EXCEPT !.pc = "count"].pc = "count"
  BY DEF Idle
<1>1. ASSUME UNCHANGED dedup, made \subseteq made' PROVE RecordedMeansMade'
  BY <1>1 DEF RecordedMeansMade
<1>2. ASSUME NEW d \in Dispatchers, NEW o \in Objects, NEW k \in Keys \cup {NoKey},
             ReceiveEvent(d, o, k) \/ ReceiveRequest(d, o)
      PROVE  RecordersMade' /\ RecordedMeansMade'
  BY <1>0, <1>1, <1>2, RecordersKept DEF ReceiveEvent, ReceiveRequest
<1>3. ASSUME NEW d \in Dispatchers, Fire(d) \/ FireReplace(d)
      PROVE  RecordersMade' /\ RecordedMeansMade'
  BY <1>0, <1>1, <1>3, RecordersKept DEF Fire, FireReplace
<1>4. ASSUME NEW d \in Dispatchers,
             Count(d) \/ CreateFails(d) \/ SetStatus(d) \/ NotFound(d)
      PROVE  RecordersMade' /\ RecordedMeansMade'
  <2>1. [disp[d] EXCEPT !.pc = "create", !.skip = {}].pc = "create"
    BY DEF TypeOK, Activity
  <2>. QED
    BY <1>0, <1>1, <1>4, <2>1, RecordersKept
       DEF Count, CreateFails, SetStatus, NotFound
<1>5. ASSUME NEW d \in Dispatchers, Create(d)
      PROVE  RecordersMade' /\ RecordedMeansMade'
  <2>. PICK r \in Runs :
         Goto(d, [disp[d] EXCEPT !.run = r,
                    !.pc = IF d \in Fires THEN "status" ELSE "record"])
    BY <1>5 DEF Create
  <2>1. /\ disp'[d].obj = disp[d].obj /\ disp'[d].key = disp[d].key
        /\ disp'[d].pc = "record" => d \notin Fires
        /\ \A e \in Dispatchers \ {d} : disp'[e] = disp[e]
    BY DEF Goto, TypeOK, Activity
  <2>2. /\ made \subseteq made' /\ UNCHANGED dedup
        /\ d \notin Fires => <<trigger(d), disp[d].obj, disp[d].key>> \in made'
    BY <1>5 DEF Create
  <2>3. RecordersMade'
    BY <2>1, <2>2 DEF RecordersMade, trigger
  <2>. QED
    BY <1>1, <2>2, <2>3
<1>6. ASSUME NEW d \in Dispatchers, Record(d)
      PROVE  RecordersMade' /\ RecordedMeansMade'
  <2>1. [disp[d] EXCEPT !.pc = "status"].pc = "status"
    BY DEF TypeOK, Activity
  <2>2. RecordersMade'
    BY <1>6, <2>1, RecordersKept DEF Record
  <2>3. /\ <<trigger(d), disp[d].obj, disp[d].key>> \in made
        /\ trigger(d) \in {"event", "webhook"}
        /\ disp[d].obj \in Objects /\ disp[d].key \in Keys \cup {NoKey}
    BY <1>6 DEF Record, RecordersMade, trigger, TypeOK, Activity
  <2>4. /\ made' = made
        /\ dedup' = [dedup EXCEPT ![trigger(d)][disp[d].obj] =
                       [key |-> disp[d].key, recent |-> TRUE]]
    BY <1>6 DEF Record
  <2>5. ASSUME NEW t \in {"event", "webhook"}, NEW o \in Objects
        PROVE  \/ dedup'[t][o] = dedup[t][o]
               \/ /\ t = trigger(d) /\ o = disp[d].obj
                  /\ dedup'[t][o] = [key |-> disp[d].key, recent |-> TRUE]
    BY <2>3, <2>4 DEF TypeOK
  <2>6. ASSUME NEW t \in {"event", "webhook"}, NEW o \in Objects
        PROVE  /\ dedup'[t][o].key # NoKey => <<t, o, dedup'[t][o].key>> \in made
               /\ \/ ~dedup'[t][o].recent
                  \/ \E k \in Keys \cup {NoKey} : <<t, o, k>> \in made
    <3>1. CASE dedup'[t][o] = dedup[t][o]
      BY <3>1 DEF RecordedMeansMade
    <3>2. CASE /\ t = trigger(d) /\ o = disp[d].obj
               /\ dedup'[t][o] = [key |-> disp[d].key, recent |-> TRUE]
      <4>1. dedup'[t][o].key = disp[d].key
        BY <3>2
      <4>. QED
        BY <2>3, <3>2, <4>1
    <3>. QED
      BY <2>5, <3>1, <3>2
  <2>7. RecordedMeansMade'
    BY <2>4, <2>6 DEF RecordedMeansMade
  <2>. QED
    BY <2>2, <2>7
<1>7. ASSUME NEW r \in Runs, Finish(r) \/ Remove(r) \/ SyncCache(r)
      PROVE  RecordersMade' /\ RecordedMeansMade'
  BY <1>1, <1>7 DEF Finish, Remove, SyncCache, RecordersMade, trigger
<1>8. ASSUME NEW t \in {"event", "webhook"}, NEW o \in Objects, WindowPasses(t, o)
      PROVE  RecordersMade' /\ RecordedMeansMade'
  <2>1. \A u \in {"event", "webhook"}, x \in Objects :
          /\ dedup'[u][x].key = dedup[u][x].key
          /\ dedup'[u][x].recent => dedup[u][x].recent
    BY <1>8 DEF WindowPasses, TypeOK, Entry
  <2>. QED
    BY <1>8, <2>1 DEF WindowPasses, RecordersMade, RecordedMeansMade, trigger
<1>9. CASE UNCHANGED vars
  BY <1>9 DEF vars, RecordersMade, RecordedMeansMade, trigger
<1>. QED
  BY <1>2, <1>3, <1>4, <1>5, <1>6, <1>7, <1>8, <1>9 DEF Next

\* A dedup entry stands for a run that was created: a Create that failed never
\* turns a later event or request into a duplicate.
THEOREM DedupSound == Spec => []RecordedMeansMade
<1>1. Init => RecordersMade /\ RecordedMeansMade
  <2>. SUFFICES ASSUME Init PROVE RecordersMade /\ RecordedMeansMade
    OBVIOUS
  <2>1. RecordersMade
    BY DEF Init, RecordersMade, Idle
  <2>2. \A t \in {"event", "webhook"}, o \in Objects :
          dedup[t][o].key = NoKey /\ ~dedup[t][o].recent
    BY DEF Init, NoEntry
  <2>. QED
    BY <2>1, <2>2 DEF RecordedMeansMade
<1>. QED
  BY <1>1, DedupStep, DispatchTypeOK, PTL DEF Spec

---------------------------------------------------------------------------
(***************************************************************************)
(* maxConcurrentRuns.  The count a dispatcher reads misses only runs that  *)
(* other watch goroutines and fires are still making.                      *)
(***************************************************************************)
Triggering == Watchers \cup Fires
Making     == {d \in Triggering : disp[d].run \in Runs}
Permitted  == {d \in Triggering : disp[d].pc = "create"}
Counted    == activeBy({"event", "cron"})

\* The run that a dispatcher is making is active and its own.
RunIsOwn ==
  \A d \in Dispatchers :
    disp[d].run \in Runs =>
      run[disp[d].run] = "Active" /\ by[disp[d].run] = trigger(d)

\* The cache never shows the end of a run before it has ended.
CacheFollows == \A r \in Runs : cache[r] = "Done" => run[r] = "Done"

\* An active run that the cache does not show is still being made.
SeenOrMaking ==
  \A r \in Counted :
    cache[r] = "Active" \/ \E d \in Triggering : disp[d].run = r

\* The runs that a Replace fire leaves out of its count have ended.
SkipIsDone ==
  \A d \in Dispatchers : \A r \in disp[d].skip : run[r] # "Active"

RunsInv == RunIsOwn /\ CacheFollows /\ SeenOrMaking /\ SkipIsDone

\* A dispatcher past the gate is counted as if its run existed.
Bound ==
  Cardinality(Counted) + Cardinality(Permitted) < Limit + Cardinality(Triggering)

\* What the theorem assumes: the cache shows a new run within the five attempts
\* of its trigger, no run ends before its trigger has set its status, and the
\* fires of the schedule do not overlap.
Timely == ~SlowCache /\ ~EndsEarly /\ \A c, e \in Fires : c = e

LEMMA RunsInit == Init => RunsInv
BY DispatchAssumption, ActivityTypes
   DEF Init, RunsInv, RunIsOwn, CacheFollows, SeenOrMaking, SkipIsDone,
       Counted, activeBy

\* A dispatcher takes up, or drops, an event, a request or a fire, or goes on
\* with the run it has.
LEMMA RunsMove ==
  ASSUME TypeOK, RunsInv, NEW d \in Dispatchers, NEW a, Goto(d, a),
         a.run = disp[d].run,
         \A r \in a.skip : run[r] # "Active",
         UNCHANGED <<run, cache, by>>
  PROVE  RunsInv'
<1>1. /\ \A e \in Dispatchers : disp'[e].run = disp[e].run
      /\ \A e \in Dispatchers : \A r \in disp'[e].skip : run[r] # "Active"
  BY DEF Goto, TypeOK, RunsInv, SkipIsDone
<1>2. RunIsOwn' /\ CacheFollows' /\ SkipIsDone'
  BY <1>1 DEF RunsInv, RunIsOwn, CacheFollows, SkipIsDone, trigger
<1>3. SeenOrMaking'
  BY <1>1 DEF RunsInv, SeenOrMaking, Counted, activeBy, Triggering, Dispatchers
<1>. QED
  BY <1>2, <1>3 DEF RunsInv

\* Before Create a dispatcher has no run.
LEMMA NoRunYet ==
  ASSUME TypeOK, NEW d \in Dispatchers
  PROVE  /\ NoRun \notin Runs /\ disp[d] \in Activity
         /\ Idle.run = NoRun /\ Idle.skip = {}
         /\ disp[d].pc \in {"idle", "count", "create"} => disp[d].run = NoRun
<1>1. /\ disp[d] \in Activity
      /\ disp[d].pc \in {"record", "status"} <=> disp[d].run \in Runs
  BY DEF TypeOK
<1>2. disp[d].run \in Runs \cup {NoRun}
  BY <1>1 DEF Activity
<1>. QED
  BY <1>1, <1>2, DispatchAssumption, ActivityTypes

\* The steps that leave the runs and the cache alone, but for NotFound.
LEMMA RunsQuiet ==
  ASSUME TypeOK, RunsInv, NEW d \in Dispatchers,
         \/ \E o \in Objects, k \in Keys \cup {NoKey} : ReceiveEvent(d, o, k)
         \/ \E o \in Objects : ReceiveRequest(d, o)
         \/ Fire(d) \/ Count(d) \/ CreateFails(d) \/ Record(d)
  PROVE  RunsInv'
<1>0. /\ NoRun \notin Runs /\ disp[d] \in Activity /\ Idle.run = NoRun /\ Idle.skip = {}
      /\ disp[d].pc \in {"idle", "count", "create"} => disp[d].run = NoRun
  BY NoRunYet
<1>1. ASSUME NEW o \in Objects, NEW k \in Keys \cup {NoKey},
             ReceiveEvent(d, o, k) \/ ReceiveRequest(d, o)
      PROVE  RunsInv'
  <2>1. /\ [Idle EXCEPT !.pc = "count", !.obj = o, !.key = k].run = NoRun
        /\ [Idle EXCEPT !.pc = "count", !.obj = o, !.key = k].skip = {}
        /\ [Idle EXCEPT !.pc = "count", !.obj = o].run = NoRun
        /\ [Idle EXCEPT !.pc = "count", !.obj = o].skip = {}
    BY DEF Idle
  <2>. QED
    BY <1>0, <1>1, <2>1, RunsMove DEF ReceiveEvent, ReceiveRequest
<1>2. ASSUME Fire(d) \/ CreateFails(d) PROVE RunsInv'
  <2>1. /\ [Idle EXCEPT !.pc = "count"].run = NoRun
        /\ [Idle EXCEPT !.pc = "count"].skip = {}
    BY DEF Idle
  <2>. QED
    BY <1>0, <1>2, <2>1, RunsMove DEF Fire, CreateFails
<1>3. ASSUME Count(d) PROVE RunsInv'
  <2>1. /\ [disp[d] EXCEPT !.pc = "create", !.skip = {}].run = disp[d].run
        /\ [disp[d] EXCEPT !.pc = "create", !.skip = {}].skip = {}
    BY <1>0 DEF Activity
  <2>. QED
    BY <1>0, <1>3, <2>1, RunsMove DEF Count
<1>4. ASSUME Record(d) PROVE RunsInv'
  <2>1. /\ [disp[d] EXCEPT !.pc = "status"].run = disp[d].run
        /\ [disp[d] EXCEPT !.pc = "status"].skip = disp[d].skip
    BY <1>0 DEF Activity
  <2>. QED
    BY <1>4, <2>1, RunsMove DEF Record, RunsInv, SkipIsDone
<1>. QED
  BY <1>1, <1>2, <1>3, <1>4

LEMMA RunsReplace ==
  ASSUME TypeOK, RunsInv, Timely, NEW d \in Dispatchers, FireReplace(d)
  PROVE  RunsInv'
<1>0. /\ NoRun \notin Runs /\ disp[d] \in Activity /\ Idle.run = NoRun /\ Idle.skip = {}
      /\ disp[d].run = NoRun
      /\ \A S : LET a == [Idle EXCEPT !.pc = "count", !.skip = S]
                IN  a.run = NoRun /\ a.skip = S
  BY NoRunYet DEF FireReplace, Idle
<1>1. PICK S \in SUBSET cachedCron :
        /\ \A r \in S : run[r] = "Active"
        /\ run' = [r \in Runs |-> IF r \in S THEN "Done" ELSE run[r]]
        /\ Goto(d, IF S = cachedCron
                   THEN [Idle EXCEPT !.pc = "count", !.skip = S] ELSE Idle)
  BY DEF FireReplace
<1>2. /\ \A e \in Dispatchers : disp'[e].run = disp[e].run
      /\ \A e \in Dispatchers : disp'[e].skip \in {{}, S, disp[e].skip}
      /\ UNCHANGED <<cache, by>> /\ S \subseteq Runs
  BY <1>0, <1>1 DEF Goto, TypeOK, FireReplace, cachedCron, cachedActive
<1>3. ASSUME NEW e \in Dispatchers, disp[e].run \in Runs PROVE disp[e].run \notin S
  <2>1. SUFFICES ASSUME by[disp[e].run] = "cron" PROVE FALSE
    BY <1>1 DEF cachedCron
  <2>2. e \in Fires
    BY <1>3, <2>1 DEF RunsInv, RunIsOwn, trigger
  <2>. QED
    BY <1>0, <1>3, <2>2 DEF Timely, FireReplace
<1>4. RunIsOwn'
  BY <1>1, <1>2, <1>3 DEF RunsInv, RunIsOwn, trigger
<1>5. CacheFollows'
  BY <1>1, <1>2 DEF RunsInv, CacheFollows
<1>6. SeenOrMaking'
  BY <1>1, <1>2 DEF RunsInv, SeenOrMaking, Counted, activeBy, Triggering, Dispatchers
<1>7. SkipIsDone'
  BY <1>1, <1>2 DEF RunsInv, SkipIsDone, TypeOK, Activity
<1>. QED
  BY <1>4, <1>5, <1>6, <1>7 DEF RunsInv

LEMMA RunsCreate ==
  ASSUME TypeOK, RunsInv, NEW d \in Dispatchers, Create(d)
  PROVE  RunsInv'
<1>1. PICK r \in Runs :
        /\ run[r] = "None" /\ cache[r] = "None"
        /\ \A e \in Dispatchers : disp[e].run # r /\ r \notin disp[e].skip
        /\ run' = [run EXCEPT ![r] = "Active"]
        /\ by' = [by EXCEPT ![r] = trigger(d)]
        /\ Goto(d, [disp[d] EXCEPT !.run = r,
                      !.pc = IF d \in Fires THEN "status" ELSE "record"])
  BY DEF Create
<1>2. /\ disp'[d].run = r /\ disp'[d].skip = disp[d].skip
      /\ \A e \in Dispatchers \ {d} : disp'[e] = disp[e]
      /\ UNCHANGED cache
  BY <1>1 DEF Goto, TypeOK, Activity, Create
<1>3. /\ run'[r] = "Active" /\ by'[r] = trigger(d)
      /\ \A q \in Runs \ {r} : run'[q] = run[q] /\ by'[q] = by[q]
  BY <1>1 DEF TypeOK
<1>4. RunIsOwn'
  BY <1>1, <1>2, <1>3 DEF RunsInv, RunIsOwn, trigger
<1>5. CacheFollows'
  BY <1>1, <1>2, <1>3 DEF RunsInv, CacheFollows
<1>6. SeenOrMaking'
  <2>1. trigger(d) \in {"event", "cron"} => d \in Triggering
    BY DEF trigger, Triggering
  <2>2. disp[d].run \notin Runs
    BY DEF Create, TypeOK
  <2>. QED
    BY <1>2, <1>3, <2>1, <2>2
       DEF RunsInv, SeenOrMaking, Counted, activeBy, Triggering, Dispatchers
<1>7. SkipIsDone'
  BY <1>1, <1>2, <1>3 DEF RunsInv, SkipIsDone, TypeOK, Activity
<1>. QED
  BY <1>4, <1>5, <1>6, <1>7 DEF RunsInv

LEMMA RunsStatus ==
  ASSUME TypeOK, RunsInv, Timely, NEW d \in Dispatchers,
         SetStatus(d) \/ NotFound(d)
  PROVE  RunsInv' /\ run' = run
<1>0. disp[d].run \in Runs /\ Idle.run = NoRun /\ Idle.skip = {} /\ NoRun \notin Runs
  BY NoRunYet DEF TypeOK, SetStatus, NotFound
<1>. DEFINE r == disp[d].run
<1>1. run[r] = "Active" /\ by[r] = trigger(d) /\ cache[r] # "Done"
  BY <1>0 DEF RunsInv, RunIsOwn, CacheFollows
<1>2. /\ run' = run /\ UNCHANGED <<cache, by>> /\ Goto(d, Idle)
      /\ d \notin Requests => cache[r] # "None"
  BY <1>1 DEF SetStatus, NotFound, TypeOK, Timely
<1>3. /\ disp'[d].run = NoRun /\ disp'[d].skip = {}
      /\ \A e \in Dispatchers \ {d} : disp'[e] = disp[e]
  BY <1>0, <1>2 DEF Goto, TypeOK
<1>4. RunIsOwn' /\ CacheFollows' /\ SkipIsDone'
  BY <1>0, <1>2, <1>3 DEF RunsInv, RunIsOwn, CacheFollows, SkipIsDone, trigger
<1>5. by[r] \in {"event", "cron"} => cache[r] = "Active"
  <2>1. by[r] \in {"event", "cron"} => d \notin Requests
    BY <1>1, DispatchAssumption DEF trigger
  <2>2. cache[r] \in {"None", "Active", "Done"}
    BY <1>0 DEF TypeOK, RunStates
  <2>. QED
    BY <1>1, <1>2, <2>1, <2>2
<1>6. SeenOrMaking'
  BY <1>2, <1>3, <1>5
     DEF RunsInv, SeenOrMaking, Counted, activeBy, Triggering, Dispatchers
<1>. QED
  BY <1>2, <1>4, <1>6 DEF RunsInv

LEMMA RunsAround ==
  ASSUME TypeOK, RunsInv, Timely, NEW r \in Runs,
         Finish(r) \/ Remove(r) \/ SyncCache(r)
  PROVE  RunsInv' /\ Counted' \subseteq Counted
<1>1. CASE Finish(r)
  BY <1>1 DEF Finish, Timely, TypeOK, RunsInv, RunIsOwn, CacheFollows, SeenOrMaking,
              SkipIsDone, Counted, activeBy, trigger, Triggering, Dispatchers, Activity
<1>2. CASE Remove(r)
  BY <1>2 DEF Remove, TypeOK, RunsInv, RunIsOwn, CacheFollows, SeenOrMaking,
              SkipIsDone, Counted, activeBy, trigger, Triggering, Dispatchers, Activity
<1>3. CASE SyncCache(r)
  BY <1>3 DEF SyncCache, TypeOK, RunsInv, RunIsOwn, CacheFollows, SeenOrMaking,
              SkipIsDone, Counted, activeBy, trigger, Triggering, Dispatchers, Activity
<1>. QED
  BY <1>1, <1>2, <1>3

LEMMA RunsStep == TypeOK /\ RunsInv /\ Timely /\ [Next]_vars => RunsInv'
<1>. SUFFICES ASSUME TypeOK, RunsInv, Timely, [Next]_vars PROVE RunsInv'
  OBVIOUS
<1>1. ASSUME UNCHANGED <<run, cache, by, disp>> PROVE RunsInv'
  BY <1>1 DEF RunsInv, RunIsOwn, CacheFollows, SeenOrMaking, SkipIsDone,
              Counted, activeBy, trigger
<1>2. CASE UNCHANGED vars
  BY <1>1, <1>2 DEF vars
<1>3. ASSUME NEW t \in {"event", "webhook"}, NEW o \in Objects, WindowPasses(t, o)
      PROVE  RunsInv'
  BY <1>1, <1>3 DEF WindowPasses
<1>. QED
  BY <1>2, <1>3, RunsQuiet, RunsReplace, RunsCreate, RunsStatus, RunsAround DEF Next

\* The counting argument.  A is counted by C but for its members in U, each of
\* which a member of M accounts for; M, P and d are different members of T.
LEMMA Room ==
  ASSUME NEW A, NEW C, NEW U, NEW M, NEW P, NEW T, NEW d, NEW L \in Nat,
         IsFiniteSet(C), IsFiniteSet(T), A \subseteq C \cup U,
         NEW f \in Injection(U, M), M \subseteq T, P \subseteq T,
         M \cap P = {}, d \in T \ (M \cup P), Cardinality(C) < L
  PROVE  Cardinality(A) + Cardinality(P \cup {d}) < L + Cardinality(T)
<1>1. /\ IsFiniteSet(M) /\ IsFiniteSet(P) /\ IsFiniteSet(P \cup {d})
      /\ M \cap (P \cup {d}) = {} /\ M \cup (P \cup {d}) \in SUBSET T
  BY FS_Subset, FS_AddElement
<1>2. IsFiniteSet(U) /\ Cardinality(U) <= Cardinality(M)
  BY <1>1, FS_Injection
<1>3. /\ Cardinality(A) <= Cardinality(C) + Cardinality(U)
      /\ Cardinality(A) \in Nat
  <2>1. IsFiniteSet(C \cup U) /\ IsFiniteSet(C \cap U)
    BY <1>2, FS_Union, FS_Intersection
  <2>2. Cardinality(C \cup U) <= Cardinality(C) + Cardinality(U)
    <3>1. Cardinality(C \cup U)
            = Cardinality(C) + Cardinality(U) - Cardinality(C \cap U)
      BY <1>2, FS_Union
    <3>2. /\ Cardinality(C) \in Nat /\ Cardinality(U) \in Nat
          /\ Cardinality(C \cap U) \in Nat
      BY <1>2, <2>1, FS_CardinalityType
    <3>. QED
      BY <3>1, <3>2
  <2>. QED
    BY <1>2, <2>1, <2>2, FS_Subset, FS_CardinalityType
<1>4. Cardinality(M) + Cardinality(P \cup {d}) <= Cardinality(T)
  <2>1. Cardinality(M \cup (P \cup {d})) <= Cardinality(T)
    BY <1>1, FS_Subset
  <2>2. Cardinality(M \cup (P \cup {d})) = Cardinality(M) + Cardinality(P \cup {d})
                                             - Cardinality(M \cap (P \cup {d}))
    BY <1>1, FS_Union
  <2>3. Cardinality(M \cap (P \cup {d})) = 0
    BY <1>1, FS_EmptySet
  <2>4. Cardinality(M) \in Nat /\ Cardinality(P \cup {d}) \in Nat
    BY <1>1, FS_CardinalityType
  <2>. QED
    BY <2>1, <2>2, <2>3, <2>4
<1>. QED
  BY <1>1, <1>2, <1>3, <1>4, FS_CardinalityType

\* What a step may add to the counted runs and to the permitted dispatchers.
LEMMA BoundShrinks ==
  ASSUME TypeOK, Bound, Counted' \subseteq Counted, Permitted' \subseteq Permitted
  PROVE  Bound'
<1>1. /\ IsFiniteSet(Triggering) /\ IsFiniteSet(Counted) /\ IsFiniteSet(Permitted)
  <2>1. /\ Triggering \in SUBSET Dispatchers /\ Counted \in SUBSET Runs
        /\ Permitted \in SUBSET Dispatchers
    BY DEF Triggering, Dispatchers, Counted, activeBy, Permitted
  <2>. QED
    BY <2>1, FS_Subset, DispatchAssumption
<1>2. /\ Cardinality(Counted') <= Cardinality(Counted)
      /\ Cardinality(Permitted') <= Cardinality(Permitted)
      /\ IsFiniteSet(Counted') /\ IsFiniteSet(Permitted')
  BY <1>1, FS_Subset
<1>3. /\ Cardinality(Counted) \in Nat /\ Cardinality(Permitted) \in Nat
      /\ Cardinality(Counted') \in Nat /\ Cardinality(Permitted') \in Nat
      /\ Cardinality(Triggering) \in Nat /\ Limit \in Nat
  BY <1>1, <1>2, FS_CardinalityType, DispatchAssumption
<1>. QED
  BY <1>2, <1>3 DEF Bound, Triggering

LEMMA BoundCount ==
  ASSUME TypeOK, RunsInv, Bound, Limit > 0, NEW d \in Dispatchers, Count(d)
  PROVE  Bound'
<1>0. Counted' = Counted /\ disp[d] \in Activity
  BY DEF Count, Counted, activeBy, TypeOK
<1>1. CASE Permitted' \subseteq Permitted
  BY <1>0, <1>1, BoundShrinks
<1>2. CASE ~(Permitted' \subseteq Permitted)
  <2>1. /\ d \in Triggering /\ Permitted' = Permitted \cup {d}
        /\ Cardinality(cachedActive \ disp[d].skip) < Limit
    <3>1. Goto(d, Idle) => Permitted' \subseteq Permitted
      BY ActivityTypes DEF Goto, Permitted, TypeOK, Triggering, Dispatchers
    <3>2. /\ Goto(d, [disp[d] EXCEPT !.pc = "create", !.skip = {}])
          /\ ~(Cardinality(cachedActive \ disp[d].skip) >= Limit)
      BY <1>2, <3>1 DEF Count
    <3>3. disp'[d].pc = "create" /\ \A e \in Dispatchers \ {d} : disp'[e] = disp[e]
      BY <1>0, <3>2 DEF Goto, TypeOK, Activity
    <3>4. d \in Triggering /\ Permitted' = Permitted \cup {d}
      BY <1>2, <3>3 DEF Permitted, Triggering, Dispatchers
    <3>5. cachedActive \ disp[d].skip \in SUBSET Runs
      BY DEF cachedActive
    <3>6. Cardinality(cachedActive \ disp[d].skip) \in Nat
      BY <3>5, FS_Subset, FS_CardinalityType, DispatchAssumption
    <3>. QED
      BY <3>2, <3>4, <3>6, DispatchAssumption
  <2>. DEFINE C == cachedActive \ disp[d].skip
              U == {r \in Counted : cache[r] # "Active"}
              maker == [r \in U |-> CHOOSE e \in Making : disp[e].run = r]
  <2>2. Counted \subseteq C \cup U
    BY DEF Counted, activeBy, cachedActive, RunsInv, SkipIsDone
  <2>3. maker \in Injection(U, Making)
    <3>1. \A r \in U : \E e \in Making : disp[e].run = r
      BY DEF RunsInv, SeenOrMaking, Making, Counted, activeBy
    <3>2. \A r \in U : maker[r] \in Making /\ disp[maker[r]].run = r
      BY <3>1
    <3>. HIDE DEF U, maker
    <3>3. maker \in [U -> Making]
      BY <3>2 DEF maker
    <3>. QED
      BY <3>2, <3>3 DEF Injection, IsInjective
  <2>4. /\ IsFiniteSet(Triggering) /\ IsFiniteSet(C) /\ Limit \in Nat
    <3>1. Triggering \in SUBSET Dispatchers /\ C \in SUBSET Runs
      BY DEF Triggering, Dispatchers, cachedActive
    <3>. QED
      BY <3>1, FS_Subset, DispatchAssumption
  <2>5. /\ Making \subseteq Triggering /\ Permitted \subseteq Triggering
        /\ Making \cap Permitted = {} /\ d \in Triggering \ (Making \cup Permitted)
    BY <2>1 DEF Making, Permitted, Count, TypeOK, Triggering, Dispatchers
  <2>6. Cardinality(Counted) + Cardinality(Permitted \cup {d})
          < Limit + Cardinality(Triggering)
    <3>. HIDE DEF C, U, maker
    <3>. QED
      BY <2>1, <2>2, <2>3, <2>4, <2>5, Room DEF C
  <2>. QED
    BY <1>0, <2>1, <2>6 DEF Bound, Triggering
<1>. QED
  BY <1>1, <1>2

LEMMA BoundCreate ==
  ASSUME TypeOK, Bound, NEW d \in Dispatchers, Create(d)
  PROVE  Bound'
<1>1. PICK r \in Runs :
        /\ run[r] = "None"
        /\ run' = [run EXCEPT ![r] = "Active"]
        /\ by' = [by EXCEPT ![r] = trigger(d)]
        /\ Goto(d, [disp[d] EXCEPT !.run = r,
                      !.pc = IF d \in Fires THEN "status" ELSE "record"])
  BY DEF Create
<1>2. /\ disp'[d].pc # "create" /\ disp[d].pc = "create"
      /\ \A e \in Dispatchers \ {d} : disp'[e] = disp[e]
  BY <1>1 DEF Goto, TypeOK, Activity, Create
<1>3. /\ run'[r] = "Active" /\ by'[r] = trigger(d)
      /\ \A q \in Runs \ {r} : run'[q] = run[q] /\ by'[q] = by[q]
  BY <1>1 DEF TypeOK
<1>4. Permitted' = Permitted \ {d}
  BY <1>2 DEF Permitted, Triggering, Dispatchers
<1>5. CASE d \notin Triggering
  <2>1. trigger(d) = "webhook"
    BY <1>5 DEF trigger, Triggering
  <2>2. Counted' \subseteq Counted
    BY <1>1, <1>3, <2>1 DEF Counted, activeBy
  <2>. QED
    BY <1>4, <2>2, BoundShrinks
<1>6. CASE d \in Triggering
  <2>1. Counted' \subseteq Counted \cup {r} /\ r \notin Counted /\ d \in Permitted
    BY <1>1, <1>2, <1>3, <1>6 DEF Counted, activeBy, Permitted
  <2>2. IsFiniteSet(Counted) /\ IsFiniteSet(Permitted) /\ IsFiniteSet(Triggering)
    <3>1. /\ Triggering \in SUBSET Dispatchers /\ Counted \in SUBSET Runs
          /\ Permitted \in SUBSET Dispatchers
      BY DEF Triggering, Dispatchers, Counted, activeBy, Permitted
    <3>. QED
      BY <3>1, FS_Subset, DispatchAssumption
  <2>3. /\ IsFiniteSet(Counted \cup {r})
        /\ Cardinality(Counted \cup {r}) = Cardinality(Counted) + 1
    BY <2>1, <2>2, FS_AddElement
  <2>4. Cardinality(Counted') <= Cardinality(Counted) + 1 /\ IsFiniteSet(Counted')
    BY <2>1, <2>3, FS_Subset
  <2>5. Cardinality(Permitted') = Cardinality(Permitted) - 1
    BY <1>4, <2>1, <2>2, FS_RemoveElement
  <2>6. /\ Cardinality(Counted) \in Nat /\ Cardinality(Counted') \in Nat
        /\ Cardinality(Permitted) \in Nat /\ Cardinality(Triggering) \in Nat
        /\ Limit \in Nat
    BY <2>2, <2>4, FS_CardinalityType, DispatchAssumption
  <2>. QED
    BY <2>4, <2>5, <2>6 DEF Bound, Triggering
<1>. QED
  BY <1>5, <1>6

LEMMA BoundStep ==
  ASSUME Timely, Limit > 0
  PROVE  TypeOK /\ RunsInv /\ Bound /\ [Next]_vars => Bound'
<1>. SUFFICES ASSUME TypeOK, RunsInv, Bound, [Next]_vars PROVE Bound'
  OBVIOUS
\* A dispatcher that does not pass the gate permits nothing.
<1>0. ASSUME NEW d \in Dispatchers, NEW a, Goto(d, a), a.pc # "create"
      PROVE  Permitted' \subseteq Permitted
  BY <1>0 DEF Goto, Permitted, TypeOK, Triggering, Dispatchers
<1>1. ASSUME UNCHANGED <<run, by>> PROVE Counted' = Counted
  BY <1>1 DEF Counted, activeBy
<1>2. ASSUME UNCHANGED disp PROVE Permitted' = Permitted
  BY <1>2 DEF Permitted
<1>3. ASSUME NEW d \in Dispatchers, NEW o \in Objects, NEW k \in Keys \cup {NoKey},
             ReceiveEvent(d, o, k) \/ ReceiveRequest(d, o)
      PROVE  Bound'
  <2>1. /\ [Idle EXCEPT !.pc = "count", !.obj = o, !.key = k].pc = "count"
        /\ [Idle EXCEPT !.pc = "count", !.obj = o].pc = "count"
    BY DEF Idle
  <2>. QED
    BY <1>0, <1>1, <1>3, <2>1, BoundShrinks DEF ReceiveEvent, ReceiveRequest
<1>4. ASSUME NEW d \in Dispatchers, Fire(d) \/ CreateFails(d) \/ Record(d)
      PROVE  Bound'
  <2>1. /\ [Idle EXCEPT !.pc = "count"].pc = "count" /\ Idle.pc = "idle"
        /\ [disp[d] EXCEPT !.pc = "status"].pc = "status"
    BY DEF Idle, TypeOK, Activity
  <2>. QED
    BY <1>0, <1>1, <1>4, <2>1, BoundShrinks DEF Fire, CreateFails, Record
<1>5. ASSUME NEW d \in Dispatchers, FireReplace(d) PROVE Bound'
  <2>1. \A S : [Idle EXCEPT !.pc = "count", !.skip = S].pc = "count"
    BY DEF Idle
  <2>2. Permitted' \subseteq Permitted
    BY <1>0, <1>5, <2>1, ActivityTypes DEF FireReplace
  <2>3. Counted' \subseteq Counted
    BY <1>5 DEF FireReplace, Counted, activeBy
  <2>. QED
    BY <2>2, <2>3, BoundShrinks
<1>6. ASSUME NEW d \in Dispatchers, SetStatus(d) \/ NotFound(d) PROVE Bound'
  <2>1. run' = run
    BY <1>6, RunsStatus
  <2>. QED
    BY <1>0, <1>1, <1>6, <2>1, ActivityTypes, BoundShrinks DEF SetStatus, NotFound
<1>7. ASSUME NEW r \in Runs, Finish(r) \/ Remove(r) \/ SyncCache(r) PROVE Bound'
  <2>1. Counted' \subseteq Counted
    BY <1>7, RunsAround
  <2>. QED
    BY <1>2, <1>7, <2>1, BoundShrinks DEF Finish, Remove, SyncCache
<1>8. ASSUME NEW t \in {"event", "webhook"}, NEW o \in Objects, WindowPasses(t, o)
      PROVE  Bound'
  BY <1>1, <1>2, <1>8, BoundShrinks DEF WindowPasses
<1>9. CASE UNCHANGED vars
  BY <1>1, <1>2, <1>9, BoundShrinks DEF vars
<1>. QED
  BY <1>3, <1>4, <1>5, <1>6, <1>7, <1>8, <1>9, BoundCount, BoundCreate DEF Next

\* With a timely cache and fires that do not overlap, the active runs of event
\* and cron triggers exceed maxConcurrentRuns by less than the number of watch
\* goroutines and fires, however many there are.
THEOREM LimitBound == ASSUME Timely PROVE Spec => []LimitNearlyKept
<1>1. CASE Limit > 0
  <2>1. Init => Bound
    <3>. SUFFICES ASSUME Init PROVE Bound
      OBVIOUS
    <3>1. Counted = {} /\ Permitted = {}
      BY ActivityTypes DEF Init, Counted, activeBy, Permitted, Triggering, Dispatchers
    <3>2. Triggering \in SUBSET Dispatchers
      BY DEF Triggering, Dispatchers
    <3>3. Cardinality(Triggering) \in Nat
      BY <3>2, FS_Subset, FS_CardinalityType, DispatchAssumption
    <3>. QED
      BY <1>1, <3>1, <3>3, FS_EmptySet, DispatchAssumption DEF Bound
  <2>2. TypeOK /\ RunsInv /\ [Next]_vars => RunsInv'
    BY RunsStep
  <2>3. TypeOK /\ RunsInv /\ Bound /\ [Next]_vars => Bound'
    BY <1>1, BoundStep
  <2>4. TypeOK /\ Bound => LimitNearlyKept
    <3>. SUFFICES ASSUME TypeOK, Bound PROVE LimitNearlyKept
      OBVIOUS
    <3>1. /\ Triggering \in SUBSET Dispatchers /\ Counted \in SUBSET Runs
          /\ Permitted \in SUBSET Dispatchers
      BY DEF Triggering, Dispatchers, Counted, activeBy, Permitted
    <3>2. /\ Cardinality(Counted) \in Nat /\ Cardinality(Permitted) \in Nat
          /\ Cardinality(Triggering) \in Nat /\ Limit \in Nat
      BY <3>1, FS_Subset, FS_CardinalityType, DispatchAssumption
    <3>. QED
      BY <3>2 DEF LimitNearlyKept, Bound, Triggering, Counted
  <2>. QED
    BY <2>1, <2>2, <2>3, <2>4, RunsInit, DispatchTypeOK, PTL DEF Spec
<1>2. CASE ~(Limit > 0)
  <2>1. LimitNearlyKept
    BY <1>2 DEF LimitNearlyKept
  <2>. QED
    BY <2>1, PTL
<1>. QED
  BY <1>1, <1>2

---------------------------------------------------------------------------
(***************************************************************************)
(* The concurrency policy of the cron trigger.  Once a fire has passed the *)
(* Forbid check, or has replaced the active runs, no cron run is active    *)
(* until it creates its own.                                               *)
(***************************************************************************)
CronRuns == activeBy({"cron"})

NoneWhileFiring ==
  \A c \in Fires : disp[c].pc \in {"count", "create"} => CronRuns = {}
AtMostOne == \A r, q \in CronRuns : r = q
NeedsFire == CronRuns # {} => Fires # {}

PolicyInv == policy # "Allow" => NoneWhileFiring /\ AtMostOne /\ NeedsFire

\* Between fires the cache shows every active cron run.
LEMMA CronRunsCached ==
  ASSUME TypeOK, RunsInv, Timely, NEW d \in Fires, disp[d].pc = "idle"
  PROVE  CronRuns \subseteq cachedCron
<1>. SUFFICES ASSUME NEW r \in CronRuns, cache[r] # "Active" PROVE FALSE
  BY DEF CronRuns, activeBy, cachedCron, cachedActive
<1>1. r \in Runs /\ r \in Counted /\ by[r] = "cron"
  BY DEF CronRuns, Counted, activeBy
<1>2. PICK e \in Triggering : disp[e].run = r
  BY <1>1 DEF RunsInv, SeenOrMaking
<1>3. e \in Fires
  BY <1>1, <1>2 DEF RunsInv, RunIsOwn, trigger, Triggering, Dispatchers
<1>. QED
  BY <1>1, <1>2, <1>3 DEF Timely, TypeOK, Dispatchers

\* Steps that make no cron run active and start no fire.
LEMMA PolicyShrinks ==
  ASSUME PolicyInv, UNCHANGED policy, CronRuns' \subseteq CronRuns,
         \A c \in Fires : disp'[c].pc \in {"count", "create"}
                            => disp[c].pc \in {"count", "create"}
  PROVE  PolicyInv'
BY DEF PolicyInv, NoneWhileFiring, AtMostOne, NeedsFire

LEMMA PolicyStep ==
  ASSUME Timely
  PROVE  TypeOK /\ RunsInv /\ PolicyInv /\ [Next]_vars => PolicyInv'
<1>. SUFFICES ASSUME TypeOK, RunsInv, PolicyInv, [Next]_vars PROVE PolicyInv'
  OBVIOUS
<1>0. ASSUME NEW d \in Dispatchers, NEW a, Goto(d, a),
             \/ d \notin Fires
             \/ a.pc \notin {"count", "create"}
             \/ disp[d].pc \in {"count", "create"}
      PROVE  \A c \in Fires : disp'[c].pc \in {"count", "create"}
                                => disp[c].pc \in {"count", "create"}
  BY <1>0 DEF Goto, TypeOK, Dispatchers
<1>1. ASSUME UNCHANGED <<run, by>> PROVE CronRuns' = CronRuns
  BY <1>1 DEF CronRuns, activeBy
<1>2. ASSUME NEW d \in Dispatchers, NEW o \in Objects, NEW k \in Keys \cup {NoKey},
             ReceiveEvent(d, o, k) \/ ReceiveRequest(d, o)
      PROVE  PolicyInv'
  BY <1>0, <1>1, <1>2, PolicyShrinks, DispatchAssumption
     DEF ReceiveEvent, ReceiveRequest
<1>3. ASSUME NEW d \in Dispatchers, Fire(d) PROVE PolicyInv'
  <2>1. policy # "Allow" => CronRuns = {}
    BY <1>3, CronRunsCached DEF Fire
  <2>. QED
    BY <1>1, <1>3, <2>1 DEF Fire, PolicyInv, NoneWhileFiring, AtMostOne, NeedsFire
<1>4. ASSUME NEW d \in Dispatchers, FireReplace(d) PROVE PolicyInv'
  <2>1. PICK S \in SUBSET cachedCron :
          /\ run' = [r \in Runs |-> IF r \in S THEN "Done" ELSE run[r]]
          /\ Goto(d, IF S = cachedCron
                     THEN [Idle EXCEPT !.pc = "count", !.skip = S] ELSE Idle)
    BY <1>4 DEF FireReplace
  <2>2. CronRuns' \subseteq CronRuns \ S /\ UNCHANGED policy
    BY <1>4, <2>1 DEF FireReplace, CronRuns, activeBy
  <2>3. CASE S = cachedCron
    <3>1. CronRuns' = {}
      BY <1>4, <2>2, <2>3, CronRunsCached DEF FireReplace
    <3>. QED
      BY <3>1 DEF PolicyInv, NoneWhileFiring, AtMostOne, NeedsFire
  <2>4. CASE S # cachedCron
    BY <1>0, <2>1, <2>2, <2>4, ActivityTypes, PolicyShrinks
  <2>. QED
    BY <2>3, <2>4
<1>5. ASSUME NEW d \in Dispatchers, Count(d) \/ CreateFails(d) PROVE PolicyInv'
  BY <1>0, <1>1, <1>5, PolicyShrinks DEF Count, CreateFails
<1>6. ASSUME NEW d \in Dispatchers, Create(d) PROVE PolicyInv'
  <2>1. PICK r \in Runs :
          /\ run[r] = "None"
          /\ run' = [run EXCEPT ![r] = "Active"]
          /\ by' = [by EXCEPT ![r] = trigger(d)]
          /\ Goto(d, [disp[d] EXCEPT !.run = r,
                        !.pc = IF d \in Fires THEN "status" ELSE "record"])
    BY <1>6 DEF Create
  <2>2. /\ disp'[d].pc \notin {"count", "create"} /\ disp[d].pc = "create"
        /\ \A e \in Dispatchers \ {d} : disp'[e] = disp[e]
        /\ UNCHANGED policy
    BY <1>6, <2>1 DEF Goto, TypeOK, Activity, Create
  <2>3. /\ run'[r] = "Active" /\ by'[r] = trigger(d)
        /\ \A q \in Runs \ {r} : run'[q] = run[q] /\ by'[q] = by[q]
    BY <2>1 DEF TypeOK
  <2>4. CASE d \notin Fires
    <3>1. trigger(d) # "cron"
      BY <2>4 DEF trigger
    <3>2. CronRuns' \subseteq CronRuns
      BY <2>1, <2>3, <3>1 DEF CronRuns, activeBy
    <3>. QED
      BY <2>2, <2>4, <3>2, PolicyShrinks DEF Dispatchers
  <2>5. CASE d \in Fires
    <3>1. CronRuns' \subseteq CronRuns \cup {r}
      BY <2>3 DEF CronRuns, activeBy
    <3>2. policy # "Allow" => CronRuns = {}
      BY <2>2, <2>5 DEF PolicyInv, NoneWhileFiring
    <3>. QED
      BY <2>2, <2>5, <3>1, <3>2
         DEF PolicyInv, NoneWhileFiring, AtMostOne, NeedsFire, Timely
  <2>. QED
    BY <2>4, <2>5
<1>7. ASSUME NEW d \in Dispatchers, Record(d) PROVE PolicyInv'
  <2>1. [disp[d] EXCEPT !.pc = "status"].pc = "status"
    BY DEF TypeOK, Activity
  <2>. QED
    BY <1>0, <1>1, <1>7, <2>1, PolicyShrinks DEF Record
<1>8. ASSUME NEW d \in Dispatchers, SetStatus(d) \/ NotFound(d) PROVE PolicyInv'
  <2>1. run' = run
    BY <1>8, RunsStatus
  <2>. QED
    BY <1>0, <1>1, <1>8, <2>1, ActivityTypes, PolicyShrinks DEF SetStatus, NotFound
<1>9. ASSUME NEW r \in Runs, Finish(r) \/ Remove(r) \/ SyncCache(r) PROVE PolicyInv'
  <2>1. CronRuns' \subseteq CronRuns
    BY <1>9 DEF Finish, Remove, SyncCache, CronRuns, activeBy, TypeOK
  <2>. QED
    BY <1>9, <2>1, PolicyShrinks DEF Finish, Remove, SyncCache
<1>10. ASSUME NEW t \in {"event", "webhook"}, NEW o \in Objects, WindowPasses(t, o)
       PROVE  PolicyInv'
  BY <1>1, <1>10, PolicyShrinks DEF WindowPasses
<1>11. CASE UNCHANGED vars
  BY <1>1, <1>11, PolicyShrinks DEF vars
<1>. QED
  BY <1>2, <1>3, <1>4, <1>5, <1>6, <1>7, <1>8, <1>9, <1>10, <1>11 DEF Next

\* With a timely cache and fires that do not overlap, Forbid and Replace leave
\* at most one cron run active.
THEOREM PolicyHolds == ASSUME Timely PROVE Spec => []PolicyKept
<1>1. Init => PolicyInv
  BY ActivityTypes DEF Init, PolicyInv, NoneWhileFiring, AtMostOne, NeedsFire,
                       CronRuns, activeBy, Dispatchers
<1>2. TypeOK /\ RunsInv /\ [Next]_vars => RunsInv'
  BY RunsStep
<1>3. TypeOK /\ RunsInv /\ PolicyInv /\ [Next]_vars => PolicyInv'
  BY PolicyStep
<1>4. PolicyInv => PolicyKept
  <2>. SUFFICES ASSUME PolicyInv, policy # "Allow"
                PROVE  Cardinality(CronRuns) <= Cardinality(Fires)
    BY DEF PolicyKept, CronRuns
  <2>1. Fires \in SUBSET Dispatchers
    BY DEF Dispatchers
  <2>2. IsFiniteSet(Fires) /\ Cardinality(Fires) \in Nat
    BY <2>1, FS_Subset, FS_CardinalityType, DispatchAssumption
  <2>3. CASE CronRuns = {}
    BY <2>2, <2>3, FS_EmptySet
  <2>4. CASE CronRuns # {}
    <3>1. PICK r \in CronRuns : CronRuns = {r}
      BY <2>4 DEF PolicyInv, AtMostOne
    <3>2. Cardinality(CronRuns) = 1
      BY <3>1, FS_Singleton
    <3>3. Cardinality(Fires) # 0
      BY <2>2, <2>4, FS_EmptySet DEF PolicyInv, NeedsFire
    <3>. QED
      BY <2>2, <3>2, <3>3
  <2>. QED
    BY <2>3, <2>4
<1>. QED
  BY <1>1, <1>2, <1>3, <1>4, RunsInit, DispatchTypeOK, PTL DEF Spec
===========================================================================
