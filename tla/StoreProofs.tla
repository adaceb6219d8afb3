--------------------------- MODULE StoreProofs ----------------------------
(***************************************************************************)
(* What the program keeps for later: checkpoints and audit snapshots, what *)
(* steps write to the target cluster, pooled clients, finished runs and    *)
(* the bindings of earlier releases.  Laid out as in CallProofs, with      *)
(* MCSafety in the place of MCProgress.                                    *)
(***************************************************************************)
EXTENDS MCSafety, FiniteSetTheorems, TLAPS
----------------------------------------------------------------------------
(* Checkpoints and audit snapshots (RunRecords).  A write that is based on *)
(* an older read is refused, so one that is accepted brings something new. *)

\* What a runner holds: its place, the steps it has done, the checkpoint it has read.
RunnerState == [pc : {"off", "working", "marshal", "audit", "named", "unnamed"},
                done : RR!Counts, read : RR!Reads]

\* A checkpoint write under way.
Save == [uid : RR!Uids, done : RR!Counts, read : RR!Reads]

\* The checkpoint ConfigMap.
Checkpoint == [uid : 0 .. MaxRuns, owner : 0 .. MaxRuns, done : RR!Counts]

\* Types, with the counts that are never negative.
RecordsTyped ==
  /\ RR!TypeOK
  /\ finished \in [RR!Uids -> Nat] /\ saved \in [RR!Uids -> Nat]

\* The status the controller keeps of each run.
StatusTyped == status \in [RR!Uids -> [over : BOOLEAN, audit : BOOLEAN]]

\* Only runs that have been created have left anything, and the first is followed by others.
SoFar(r, ss, c, b) ==
  /\ \A u \in RR!Uids : r[u].pc # "off" => u <= b
  /\ \A s \in ss : s.uid <= b
  /\ c.uid # 0 => c.uid <= b /\ c.owner \in 1 .. b

\* Nobody has more steps done than the run itself.
OwnSteps(r, ss, c, f) ==
  /\ \A u \in RR!Uids : r[u].done <= f[u]
  /\ \A s \in ss : s.done <= f[s.uid]
  /\ c.uid # 0 => c.done <= f[c.uid]

\* A save that has read the present checkpoint brings something new.
BringsNew(ss, c) == \A s \in ss : s.read = "latest" /\ c.uid = s.uid => c.done < s.done

\* The audit ConfigMap of a run is owned by that run.
SnapshotOwned == snapshot.uid # 0 => snapshot.owner = snapshot.uid

\* The inductive invariant of the checkpoint and the audit record.
RecordsInv ==
  /\ RecordsTyped /\ StatusTyped
  /\ current = 1 => born = 1
  /\ SoFar(runner, saves, checkpoint, born) /\ OwnSteps(runner, saves, checkpoint, finished)
  /\ BringsNew(saves, checkpoint) /\ RR!SavedIsKept /\ SnapshotOwned

\* Facts about the bounds and the constants of the component.
LEMMA Bounded ==
  /\ RR!Counts \subseteq Nat /\ RR!Uids \subseteq Nat \ {0} /\ 1 \in RR!Uids /\ 0 \in RR!Counts
  /\ \A u \in RR!Uids, n \in RR!Counts : n < RR!stepsOf(u) => n + 1 \in RR!Counts
  /\ RR!Off \in RunnerState /\ RR!NoCheckpoint \in Checkpoint
  /\ RR!Off.pc = "off" /\ RR!Off.done = 0 /\ RR!NoCheckpoint.uid = 0
  BY RecordsAssumption DEF RR!Counts, RR!Uids, RR!stepsOf, RR!Off, RunnerState, RR!NoCheckpoint, Checkpoint, RR!Reads

\* No run has started.
LEMMA RecordsInit == RR!Init => RecordsInv
<1> SUFFICES ASSUME RR!Init PROVE RecordsInv
  OBVIOUS
<1> USE Bounded, RecordsAssumption DEF RR!Init
<1>1. RR!TypeOK
  <2>1. runner \in [RR!Uids -> RunnerState] /\ checkpoint \in Checkpoint
    OBVIOUS
  <2>2. snapshot \in [uid : 0 .. MaxRuns, owner : 0 .. MaxRuns]
    BY DEF RR!NoSnapshot
  <2> QED
    BY <2>1, <2>2 DEF RR!TypeOK, RunnerState, Checkpoint
<1>2. RecordsTyped
  BY <1>1 DEF RecordsTyped
<1>3. StatusTyped
  BY DEF StatusTyped
<1>4. \A u \in RR!Uids : runner[u] = RR!Off /\ finished[u] = 0 /\ saved[u] = 0
  OBVIOUS
<1>5. SoFar(runner, saves, checkpoint, born) /\ OwnSteps(runner, saves, checkpoint, finished)
  BY <1>4 DEF SoFar, OwnSteps
<1>6. BringsNew(saves, checkpoint) /\ SnapshotOwned /\ RR!SavedIsKept
  BY <1>4 DEF BringsNew, SnapshotOwned, RR!SavedIsKept, RR!NoSnapshot
<1> QED BY <1>2, <1>3, <1>5, <1>6 DEF RecordsInv

\* A write outdates what the others have read, and leaves them what they want to save.
LEMMA Outdated ==
  ASSUME NEW rest \in SUBSET Save, NEW new, RR!putCheckpoint(new, rest)
  PROVE  /\ checkpoint' = new /\ saves' \subseteq Save
         /\ \A t \in saves' : t.read # "latest" /\ \E s \in rest : t.uid = s.uid /\ t.done = s.done
<1>1. ASSUME NEW s \in rest
      PROVE  LET t == [s EXCEPT !.read = RR!outdate(@)]
             IN t \in Save /\ t.read # "latest" /\ t.uid = s.uid /\ t.done = s.done
  BY DEF Save, RR!outdate, RR!Reads
<1> QED
  BY <1>1 DEF RR!putCheckpoint

\* A write makes the reads of the other writers stale, and they will be refused.
LEMMA Put ==
  ASSUME NEW rest \in SUBSET Save, NEW new \in Checkpoint, RR!putCheckpoint(new, rest),
         NEW r, NEW f, NEW b,
         SoFar(r, rest, new, b), OwnSteps(r, rest, new, f)
  PROVE  /\ saves' \subseteq Save /\ checkpoint' = new
         /\ SoFar(r, saves', new, b) /\ OwnSteps(r, saves', new, f) /\ BringsNew(saves', new)
<1>1. /\ checkpoint' = new /\ saves' \subseteq Save
      /\ \A t \in saves' : t.read # "latest" /\ \E s \in rest : t.uid = s.uid /\ t.done = s.done
  BY Outdated
<1>2. SoFar(r, saves', new, b)
  BY <1>1 DEF SoFar
<1>3. OwnSteps(r, saves', new, f)
  BY <1>1 DEF OwnSteps
<1>4. BringsNew(saves', new)
  BY <1>1 DEF BringsNew
<1> QED BY <1>1, <1>2, <1>3, <1>4

\* What the types say, one by one.
LEMMA RecordsTypes ==
  RecordsTyped <=>
    /\ current \in 0 .. born /\ cachedRun \in 0 .. born /\ born \in RR!Uids
    /\ runner \in [RR!Uids -> RunnerState] /\ saves \subseteq Save /\ checkpoint \in Checkpoint
    /\ snapshot \in [uid : 0 .. MaxRuns, owner : 0 .. MaxRuns] /\ crashes \in 0 .. MaxCrashes
    /\ concluded \subseteq RR!Uids
    /\ finished \in [RR!Uids -> Nat] /\ saved \in [RR!Uids -> Nat]
  BY DEF RecordsTyped, RR!TypeOK, RunnerState, Save, Checkpoint

\* A step of runner u, which goes on from where it is or from the beginning.
LEMMA RunnerMoves ==
  ASSUME RecordsInv, NEW u \in RR!Uids, NEW q \in RunnerState, runner' = [runner EXCEPT ![u] = q],
         q.pc # "off" => u <= born, q.done <= finished[u]
  PROVE  /\ runner' \in [RR!Uids -> RunnerState]
         /\ \A ss, c : SoFar(runner, ss, c, born) => SoFar(runner', ss, c, born)
         /\ \A ss, c : OwnSteps(runner, ss, c, finished) => OwnSteps(runner', ss, c, finished)
<1>1. runner \in [RR!Uids -> RunnerState]
  BY RecordsTypes DEF RecordsInv
<1>2. \A v \in RR!Uids : runner'[v] = IF v = u THEN q ELSE runner[v]
  BY <1>1
<1>3. runner' \in [RR!Uids -> RunnerState]
  BY <1>1
<1>4. \A ss, c : SoFar(runner, ss, c, born) => SoFar(runner', ss, c, born)
  BY <1>2 DEF SoFar
<1>5. \A ss, c : OwnSteps(runner, ss, c, finished) => OwnSteps(runner', ss, c, finished)
  BY <1>2 DEF OwnSteps
<1> QED BY <1>3, <1>4, <1>5

\* Fewer saves.
LEMMA FewerSaves ==
  ASSUME NEW r, NEW ss, NEW c, NEW b, NEW f, NEW tt \in SUBSET ss
  PROVE  /\ SoFar(r, ss, c, b) => SoFar(r, tt, c, b)
         /\ OwnSteps(r, ss, c, f) => OwnSteps(r, tt, c, f)
         /\ BringsNew(ss, c) => BringsNew(tt, c)
  BY DEF SoFar, OwnSteps, BringsNew

\* Only the first run matters for what must be kept.
SavedKept(cur, st, sv, c) == cur = 1 /\ ~st /\ sv > 0 => c.uid = 1 /\ c.done >= sv

\* The promise, as it reads in the proofs.
LEMMA KeptIs == RR!SavedIsKept <=> SavedKept(current, 1 \in concluded, saved[1], checkpoint)
  BY DEF RR!SavedIsKept, SavedKept

\* The parts of the invariant after a step.
LEMMA RecordsAfter ==
  ASSUME current' \in 0 .. born', cachedRun' \in 0 .. born', born' \in RR!Uids,
         runner' \in [RR!Uids -> RunnerState], saves' \subseteq Save, checkpoint' \in Checkpoint,
         snapshot' \in [uid : 0 .. MaxRuns, owner : 0 .. MaxRuns], crashes' \in 0 .. MaxCrashes,
         concluded' \subseteq RR!Uids,
         finished' \in [RR!Uids -> Nat], saved' \in [RR!Uids -> Nat],
         status' \in [RR!Uids -> [over : BOOLEAN, audit : BOOLEAN]],
         current' = 1 => born' = 1,
         SoFar(runner', saves', checkpoint', born'), OwnSteps(runner', saves', checkpoint', finished'),
         BringsNew(saves', checkpoint'),
         SavedKept(current', 1 \in concluded', saved'[1], checkpoint'),
         snapshot'.uid # 0 => snapshot'.owner = snapshot'.uid
  PROVE  RecordsInv'
<1>1. RecordsTyped'
  BY DEF RecordsTyped, RR!TypeOK, RunnerState, Save, Checkpoint
<1>2. StatusTyped'
  BY DEF StatusTyped
<1>3. RR!SavedIsKept'
  BY DEF RR!SavedIsKept, SavedKept
<1>4. SnapshotOwned'
  BY DEF SnapshotOwned
<1> QED BY <1>1, <1>2, <1>3, <1>4 DEF RecordsInv

\* What the invariant says, one by one.
LEMMA RecordsBefore ==
  ASSUME RecordsInv
  PROVE  /\ current \in 0 .. born /\ cachedRun \in 0 .. born /\ born \in RR!Uids
         /\ runner \in [RR!Uids -> RunnerState] /\ saves \subseteq Save /\ checkpoint \in Checkpoint
         /\ snapshot \in [uid : 0 .. MaxRuns, owner : 0 .. MaxRuns] /\ crashes \in 0 .. MaxCrashes
         /\ concluded \subseteq RR!Uids
         /\ finished \in [RR!Uids -> Nat] /\ saved \in [RR!Uids -> Nat]
         /\ status \in [RR!Uids -> [over : BOOLEAN, audit : BOOLEAN]]
         /\ current = 1 => born = 1
         /\ SoFar(runner, saves, checkpoint, born) /\ OwnSteps(runner, saves, checkpoint, finished)
         /\ BringsNew(saves, checkpoint)
         /\ SavedKept(current, 1 \in concluded, saved[1], checkpoint)
         /\ snapshot.uid # 0 => snapshot.owner = snapshot.uid
         /\ 1 \in RR!Uids /\ RR!Uids \subseteq Nat \ {0}
  BY RecordsTypes, KeptIs, Bounded DEF RecordsInv, StatusTyped, SnapshotOwned

\* Runners change, and with them the snapshot and the statuses.
LEMMA RunnersMove ==
  ASSUME RecordsInv, UNCHANGED <<current, born, cachedRun, saves, checkpoint, finished, saved, concluded>>,
         crashes' \in 0 .. MaxCrashes, runner' \in [RR!Uids -> RunnerState],
         \A v \in RR!Uids : /\ runner'[v].pc # "off" => v <= born
                            /\ runner'[v].done <= finished[v],
         status' \in [RR!Uids -> [over : BOOLEAN, audit : BOOLEAN]],
         snapshot' \in [uid : 0 .. MaxRuns, owner : 0 .. MaxRuns],
         snapshot'.uid # 0 => snapshot'.owner = snapshot'.uid
  PROVE  RecordsInv'
<1> USE RecordsBefore
<1>1. SoFar(runner', saves', checkpoint', born')
  BY DEF SoFar
<1>2. OwnSteps(runner', saves', checkpoint', finished')
  BY DEF OwnSteps
<1>3. SavedKept(current', 1 \in concluded', saved'[1], checkpoint')
  BY DEF SavedKept
<1>4. BringsNew(saves', checkpoint')
  OBVIOUS
<1> QED BY <1>1, <1>2, <1>3, <1>4, RecordsAfter

\* One runner goes on.
LEMMA RunnerStep ==
  ASSUME RecordsInv, NEW u \in RR!Uids, NEW q \in RunnerState, runner' = [runner EXCEPT ![u] = q],
         q.pc # "off" => u <= born, q.done <= finished[u],
         UNCHANGED <<current, born, cachedRun, saves, checkpoint, snapshot, finished, saved, concluded>>,
         crashes' \in 0 .. MaxCrashes,
         status' \in [RR!Uids -> [over : BOOLEAN, audit : BOOLEAN]]
  PROVE  RecordsInv'
<1> USE RecordsBefore
<1>1. runner' \in [RR!Uids -> RunnerState]
  OBVIOUS
<1>2. \A v \in RR!Uids : /\ runner'[v].pc # "off" => v <= born
                         /\ runner'[v].done <= finished[v]
  BY DEF SoFar, OwnSteps
<1> QED BY <1>1, <1>2, RunnersMove

\* A runner that is at work has its run created, and a runner starts from nothing.
LEMMA RunnerFacts ==
  ASSUME RecordsInv, NEW u \in RR!Uids
  PROVE  /\ runner[u] \in RunnerState
         /\ runner[u].pc # "off" => u <= born
         /\ runner[u].done <= finished[u] /\ finished[u] \in Nat
         /\ RR!Off.done <= finished[u]
         /\ \A pc \in {"working", "marshal", "audit", "named", "unnamed"} :
              /\ [RR!Off EXCEPT !.pc = pc] \in RunnerState
              /\ [RR!Off EXCEPT !.pc = pc].done <= finished[u]
<1> USE RecordsBefore, Bounded
<1>1. runner[u] \in RunnerState /\ finished[u] \in Nat
  OBVIOUS
<1>2. runner[u].pc # "off" => u <= born
  BY DEF SoFar
<1>3. runner[u].done <= finished[u]
  BY DEF OwnSteps
<1>4. \A pc \in {"working", "marshal", "audit", "named", "unnamed"} :
         [RR!Off EXCEPT !.pc = pc] \in RunnerState /\ [RR!Off EXCEPT !.pc = pc].done = 0
  BY DEF RR!Off, RunnerState
<1> QED BY <1>1, <1>2, <1>3, <1>4

\* A runner is started, ends or goes through the audit snapshot.
LEMMA RunnerActs ==
  ASSUME RecordsInv, NEW u \in RR!Uids,
         \/ RR!DeleteFails(u) \/ RR!Marshal(u) \/ RR!AuditGet(u) \/ RR!AuditFails(u) \/ RR!Persist(u)
  PROVE  RecordsInv'
<1> USE RecordsAssumption, Bounded, RecordsBefore, RunnerFacts
<1>1. CASE RR!DeleteFails(u)
  <2>1. crashes' \in 0 .. MaxCrashes
    BY <1>1 DEF RR!DeleteFails
  <2> QED BY <1>1, <2>1, RunnerStep DEF RR!DeleteFails, RR!worldVars, RR!historyVars
<1>2. CASE RR!Marshal(u)
  <2>1. PICK next \in {"audit", "unnamed"} : runner' = [runner EXCEPT ![u].pc = next]
    BY <1>2 DEF RR!Marshal
  <2> DEFINE q == [runner[u] EXCEPT !.pc = next]
  <2>2. q \in RunnerState /\ q.done = runner[u].done
    BY DEF RunnerState
  <2>3. runner' = [runner EXCEPT ![u] = q]
    BY <2>1
  <2>4. u <= born
    BY <1>2 DEF RR!Marshal
  <2> HIDE DEF q
  <2> QED BY <1>2, <2>2, <2>3, <2>4, RunnerStep DEF RR!Marshal, RR!worldVars, RR!historyVars
<1>3. CASE RR!AuditGet(u)
  <2> DEFINE q == [runner[u] EXCEPT !.read = IF snapshot.uid = 0 THEN "absent" ELSE "latest"]
  <2>2. q \in RunnerState /\ q.done = runner[u].done
    BY DEF RunnerState, RR!Reads
  <2>3. runner' = [runner EXCEPT ![u] = q]
    BY <1>3 DEF RR!AuditGet
  <2>4. u <= born
    BY <1>3 DEF RR!AuditGet
  <2> HIDE DEF q
  <2> QED BY <1>3, <2>2, <2>3, <2>4, RunnerStep DEF RR!AuditGet, RR!worldVars, RR!historyVars
<1>4. CASE RR!AuditFails(u)
  <2>1. crashes' \in 0 .. MaxCrashes
    BY <1>4 DEF RR!AuditFails
  <2> QED BY <1>4, <2>1, RunnerStep DEF RR!AuditFails, RR!worldVars, RR!historyVars
<1>5. CASE RR!Persist(u)
  <2> DEFINE over == [over |-> TRUE, audit |-> runner[u].pc = "named"]
  <2>0. over \in [over : BOOLEAN, audit : BOOLEAN] /\ over.over
    OBVIOUS
  <2>3. status' = [v \in RR!Uids |-> IF v = current THEN over ELSE status[v]]
    BY <1>5 DEF RR!Persist
  <2> HIDE DEF over
  <2>1. status' \in [RR!Uids -> [over : BOOLEAN, audit : BOOLEAN]]
    BY <2>0, <2>3
  <2> QED BY <1>5, <2>1, RunnerStep DEF RR!Persist, RR!worldVars, RR!historyVars
<1> QED BY <1>1, <1>2, <1>3, <1>4, <1>5

\* StartRunner goes on from its own run's checkpoint or from the beginning.
LEMMA RunnerStarts ==
  ASSUME RecordsInv, RR!StartRunner
  PROVE  RecordsInv'
<1> USE RecordsAssumption, Bounded, RecordsBefore
<1>0. current \in RR!Uids
  BY DEF RR!StartRunner, RR!Uids
<1>1. PICK done \in {0, RR!Load} :
        runner' = [runner EXCEPT ![current] = [RR!Off EXCEPT !.pc = "working", !.done = done]]
  BY DEF RR!StartRunner
<1>2. RR!Load \in RR!Counts /\ RR!Load <= finished[current]
  <2>1. CASE checkpoint.uid = current
    BY <1>0, <2>1 DEF RR!Load, OwnSteps, Checkpoint
  <2>2. CASE checkpoint.uid # current
    BY <1>0, <2>2 DEF RR!Load
  <2> QED BY <2>1, <2>2
<1>3. done \in RR!Counts /\ done <= finished[current]
  BY <1>0, <1>1, <1>2
<1> DEFINE q == [RR!Off EXCEPT !.pc = "working", !.done = done]
<1>4. q \in RunnerState /\ q.done = done
  BY <1>3 DEF RR!Off, RunnerState
<1> HIDE DEF q
<1>5. runner' = [runner EXCEPT ![current] = q]
  BY <1>1 DEF q
<1>6. current <= born
  OBVIOUS
<1> QED BY <1>0, <1>3, <1>4, <1>5, <1>6, RunnerStep DEF RR!StartRunner, RR!worldVars, RR!historyVars

\* What a runner has read grows old, and nothing else about it changes.
LEMMA ReadsGrowOld ==
  ASSUME NEW p \in RunnerState
  PROVE  LET q == [p EXCEPT !.read = RR!outdate(@)] IN q \in RunnerState /\ q.pc = p.pc /\ q.done = p.done
  BY DEF RunnerState, RR!outdate, RR!Reads

\* Writing the audit ConfigMap touches no checkpoint.
LEMMA AuditIsPut ==
  ASSUME RecordsInv, NEW u \in RR!Uids, RR!AuditPut(u)
  PROVE  RecordsInv'
<1> USE RecordsAssumption, Bounded, RecordsBefore, RunnerFacts
<1>0. u <= born
  BY DEF RR!AuditPut
<1>u. UNCHANGED <<current, born, cachedRun, saves, checkpoint, status, finished, saved, concluded, crashes>>
  BY DEF RR!AuditPut, RR!worldVars, RR!historyVars
<1>1. ASSUME snapshot' = [uid |-> u, owner |-> RR!ownerAfter(u)], RR!wrote(u) PROVE RecordsInv'
  <2>1. \A v \in RR!Uids :
          runner'[v] = IF v = u THEN [RR!Off EXCEPT !.pc = "named"]
                       ELSE [runner[v] EXCEPT !.read = RR!outdate(@)]
    BY <1>1 DEF RR!wrote
  <2>2. runner' \in [RR!Uids -> RunnerState]
    <3>1. \A v \in RR!Uids : runner'[v] \in RunnerState
      <4>1. [RR!Off EXCEPT !.pc = "named"] \in RunnerState
        OBVIOUS
      <4>2. \A v \in RR!Uids : [runner[v] EXCEPT !.read = RR!outdate(@)] \in RunnerState
        BY ReadsGrowOld
      <4> QED BY <2>1, <4>1, <4>2
    <3> QED BY <1>1, <3>1 DEF RR!wrote
  <2>3. ASSUME NEW v \in RR!Uids
        PROVE (runner'[v].pc # "off" => v <= born) /\ runner'[v].done <= finished[v]
    <3>1. CASE v = u
      BY <1>0, <2>1, <3>1
    <3>2. CASE v # u
      BY <2>1, <3>2, ReadsGrowOld
    <3> QED BY <3>1, <3>2
  <2>4. snapshot' \in [uid : 0 .. MaxRuns, owner : 0 .. MaxRuns] /\ snapshot'.owner = snapshot'.uid
    BY <1>1 DEF RR!ownerAfter, RR!Uids
  <2> QED BY <1>u, <2>2, <2>3, <2>4, RunnersMove
<1>2. ASSUME runner' = [runner EXCEPT ![u] = [RR!Off EXCEPT !.pc = "unnamed"]], UNCHANGED snapshot
      PROVE  RecordsInv'
  BY <1>0, <1>2, <1>u, RunnerStep
<1>3. ASSUME runner' = [runner EXCEPT ![u].read = "nothing"], UNCHANGED snapshot
      PROVE  RecordsInv'
  <2> DEFINE q == [runner[u] EXCEPT !.read = "nothing"]
  <2>2. q \in RunnerState /\ q.done = runner[u].done
    BY DEF RunnerState, RR!Reads
  <2>3. runner' = [runner EXCEPT ![u] = q]
    BY <1>3
  <2> HIDE DEF q
  <2> QED BY <1>0, <1>3, <1>u, <2>2, <2>3, RunnerStep
<1> QED BY <1>1, <1>2, <1>3 DEF RR!AuditPut

\* The run's end: the checkpoint and the snapshot of a run that is gone are collected.
LEMMA RecordsCollected ==
  ASSUME RecordsInv, RR!Collect
  PROVE  RecordsInv'
<1> USE RecordsAssumption, Bounded, RecordsBefore
<1>u. UNCHANGED <<current, born, cachedRun, status, finished, saved, concluded, crashes>>
  BY DEF RR!Collect, RR!worldVars, RR!historyVars
<1>1. ASSUME checkpoint.uid # 0, checkpoint.owner # current,
             RR!putCheckpoint(RR!NoCheckpoint, saves), UNCHANGED <<snapshot, runner>>
      PROVE  RecordsInv'
  <2>1. SoFar(runner, saves, RR!NoCheckpoint, born) /\ OwnSteps(runner, saves, RR!NoCheckpoint, finished)
    BY DEF SoFar, OwnSteps
  <2>2. /\ saves' \subseteq Save /\ checkpoint' = RR!NoCheckpoint
        /\ SoFar(runner, saves', RR!NoCheckpoint, born) /\ OwnSteps(runner, saves', RR!NoCheckpoint, finished)
        /\ BringsNew(saves', RR!NoCheckpoint)
    BY <1>1, <2>1, Put
  <2>3. current # 1
    BY <1>1 DEF SoFar
  <2>4. SavedKept(current', 1 \in concluded', saved'[1], checkpoint')
    BY <1>u, <2>3 DEF SavedKept
  <2> QED BY <1>1, <1>u, <2>2, <2>4, RecordsAfter
<1>2. ASSUME snapshot' = RR!NoSnapshot,
             runner' = [u \in RR!Uids |-> [runner[u] EXCEPT !.read = RR!outdate(@)]],
             UNCHANGED <<checkpoint, saves>>
      PROVE  RecordsInv'
  <2>1. ASSUME NEW v \in RR!Uids
        PROVE  /\ runner'[v] \in RunnerState
               /\ runner'[v].pc # "off" => v <= born
               /\ runner'[v].done <= finished[v]
    BY <1>2, ReadsGrowOld, RunnerFacts
  <2>2. runner' \in [RR!Uids -> RunnerState]
    BY <1>2, <2>1
  <2>3. snapshot' \in [uid : 0 .. MaxRuns, owner : 0 .. MaxRuns] /\ snapshot'.uid = 0
    BY <1>2 DEF RR!NoSnapshot
  <2> QED BY <1>2, <1>u, <2>1, <2>2, <2>3, RunnersMove
<1> QED BY <1>1, <1>2 DEF RR!Collect

\* Runs come and go.
LEMMA RunsChange ==
  ASSUME RecordsInv, RR!DeleteRun \/ RR!CreateRun \/ RR!SyncCache
  PROVE  RecordsInv'
<1>b. /\ born \in RR!Uids /\ born \in Nat \ {0} /\ current \in 0 .. born /\ cachedRun \in 0 .. born
      /\ current = 1 => born = 1
  BY Bounded, RecordsBefore
<1>u. /\ UNCHANGED <<runner, saves, checkpoint, snapshot, status, finished, saved, concluded, crashes>>
      /\ born' \in RR!Uids /\ born <= born' /\ current' \in 0 .. born' /\ cachedRun' \in 0 .. born'
      /\ current' = 1 => born' = 1 /\ current = 1
  <2>1. CASE RR!DeleteRun
    BY <1>b, <2>1 DEF RR!DeleteRun, RR!historyVars
  <2>2. CASE RR!CreateRun
    BY <1>b, <2>2, RecordsAssumption DEF RR!CreateRun, RR!historyVars, RR!Uids
  <2>3. CASE RR!SyncCache
    BY <1>b, <2>3 DEF RR!SyncCache, RR!historyVars
  <2> QED BY <2>1, <2>2, <2>3
<1>1. SoFar(runner', saves', checkpoint', born')
  <2>1. \A n \in Nat : n <= born => n <= born'
    BY <1>b, <1>u, Bounded
  <2>2. RR!Uids \subseteq Nat /\ SoFar(runner, saves, checkpoint, born) /\ saves \subseteq Save /\ checkpoint \in Checkpoint
    BY Bounded, RecordsBefore
  <2>3. /\ \A s \in saves : s.uid \in Nat
        /\ checkpoint.uid \in Nat /\ (checkpoint.owner \in 1 .. born => checkpoint.owner \in 1 .. born')
    <3>1. born' \in Nat
      BY <1>u, Bounded
    <3>2. checkpoint.uid \in Nat
      BY <2>2, RecordsAssumption DEF Checkpoint
    <3>3. \A s \in saves : s.uid \in Nat
      BY <2>2 DEF Save
    <3> QED BY <1>b, <1>u, <3>1, <3>2, <3>3
  <2> QED BY <1>u, <2>1, <2>2, <2>3 DEF SoFar
<1>2. OwnSteps(runner', saves', checkpoint', finished') /\ BringsNew(saves', checkpoint')
  BY <1>u, RecordsBefore
<1>3. SavedKept(current', 1 \in concluded', saved'[1], checkpoint')
  BY <1>u, RecordsBefore DEF SavedKept
<1> QED BY <1>u, <1>1, <1>2, <1>3, RecordsBefore, RecordsAfter

\* A step ends: one more step done, a save of it in flight.
LEMMA StepCompleted ==
  ASSUME RecordsInv, NEW u \in RR!Uids, RR!CompleteStep(u)
  PROVE  RecordsInv'
<1> DEFINE n == runner[u].done + 1
           s == [uid |-> u, done |-> n, read |-> "nothing"]
           q == [runner[u] EXCEPT !.done = n]
<1>b. /\ runner[u] \in RunnerState /\ u <= born /\ runner[u].done \in RR!Counts /\ n \in RR!Counts
      /\ finished[u] \in Nat /\ runner[u].done \in Nat /\ n \in Nat
  <2>1. runner[u] \in RunnerState /\ u <= born /\ finished[u] \in Nat
    BY RunnerFacts DEF RR!CompleteStep
  <2>2. runner[u].done \in RR!Counts
    BY <2>1 DEF RunnerState
  <2> QED BY <2>1, <2>2, Bounded DEF RR!CompleteStep
<1>f. /\ finished' \in [RR!Uids -> Nat] /\ n <= finished'[u]
      /\ \A v \in RR!Uids : finished[v] <= finished'[v] /\ finished[v] \in Nat /\ finished'[v] \in Nat
  <2>1. finished' = [finished EXCEPT ![u] = IF runner[u].done < finished[u] THEN finished[u] ELSE n]
    BY RecordsBefore DEF RR!CompleteStep
  <2> HIDE DEF n
  <2>2. runner[u].done + 1 = n
    BY DEF n
  <2> QED BY <1>b, <2>1, <2>2, RecordsBefore
<1>q. q \in RunnerState /\ q.done = n /\ q.pc = runner[u].pc
  BY <1>b DEF RunnerState
<1>s. s \in Save /\ s.uid = u /\ s.done = n /\ s.read = "nothing"
  BY <1>b DEF Save, RR!Reads
<1>r. runner' = [runner EXCEPT ![u] = q] /\ saves' = saves \cup {s}
  BY RecordsBefore DEF RR!CompleteStep
<1>u. UNCHANGED <<current, born, cachedRun, checkpoint, snapshot, status, saved, concluded, crashes>>
  BY DEF RR!CompleteStep, RR!worldVars
<1> HIDE DEF n, s, q
<1>1. runner' \in [RR!Uids -> RunnerState] /\ saves' \subseteq Save
  BY <1>q, <1>s, <1>r, RecordsBefore
<1>2. SoFar(runner', saves', checkpoint', born')
  BY <1>b, <1>s, <1>q, <1>r, <1>u, RecordsBefore DEF SoFar
<1>3. OwnSteps(runner', saves', checkpoint', finished')
  <2>1. ASSUME NEW v \in RR!Uids PROVE runner'[v].done <= finished'[v]
    <3>1. CASE v = u
      BY <1>f, <1>q, <1>r, <3>1, RecordsBefore
    <3>2. CASE v # u
      <4>1. runner'[v] = runner[v] /\ runner[v].done <= finished[v] /\ runner[v].done \in Nat
        BY <1>r, <3>2, RecordsBefore, Bounded DEF OwnSteps, RunnerState
      <4> QED BY <1>f, <4>1
    <3> QED BY <3>1, <3>2
  <2>2. ASSUME NEW t \in saves' PROVE t.done <= finished'[t.uid]
    <3>1. CASE t = s
      BY <1>f, <1>s, <3>1
    <3>2. CASE t \in saves
      <4>1. t.done <= finished[t.uid] /\ t.done \in Nat /\ t.uid \in RR!Uids
        BY <3>2, RecordsBefore, Bounded DEF OwnSteps, Save
      <4> QED BY <1>f, <4>1
    <3> QED BY <1>r, <3>1, <3>2
  <2>3. ASSUME checkpoint.uid # 0 PROVE checkpoint.done <= finished'[checkpoint.uid]
    <3>1. checkpoint.done <= finished[checkpoint.uid] /\ checkpoint.done \in Nat /\ checkpoint.uid \in RR!Uids
      <4>1. checkpoint \in Checkpoint /\ OwnSteps(runner, saves, checkpoint, finished)
        BY RecordsBefore
      <4>2. checkpoint.done \in Nat /\ checkpoint.uid \in 0 .. MaxRuns
        BY <4>1, Bounded DEF Checkpoint
      <4>3. checkpoint.uid \in RR!Uids
        BY <2>3, <4>2, RecordsAssumption DEF RR!Uids
      <4> QED BY <2>3, <4>1, <4>2, <4>3 DEF OwnSteps
    <3> QED BY <1>f, <3>1
  <2> QED BY <1>u, <2>1, <2>2, <2>3 DEF OwnSteps
<1>4. BringsNew(saves', checkpoint')
  BY <1>r, <1>s, <1>u, RecordsBefore DEF BringsNew
<1>5. SavedKept(current', 1 \in concluded', saved'[1], checkpoint')
  BY <1>u, RecordsBefore
<1> QED BY <1>1, <1>2, <1>3, <1>4, <1>5, <1>u, <1>f, RecordsBefore, RecordsAfter

\* A save that changes no checkpoint: it ends, or tries again from read.  It counts
\* as one that succeeded only when the checkpoint has its steps already.
LEMMA SaveStays ==
  ASSUME RecordsInv, NEW s \in saves, saves' \subseteq Save,
         \A t \in saves' : \/ t \in saves
                           \/ /\ t.uid = s.uid /\ t.done = s.done
                              /\ t.read = "latest" => ~RR!stale(s),
         UNCHANGED <<current, born, cachedRun, runner, checkpoint, snapshot, status, finished, concluded>>,
         crashes' \in 0 .. MaxCrashes,
         saved' = saved \/ (RR!succeeded(s) /\ RR!stale(s))
  PROVE  RecordsInv'
<1>s. s \in Save /\ s.uid \in RR!Uids /\ s.done \in Nat /\ checkpoint.done \in Nat
  <2>1. s \in Save /\ checkpoint \in Checkpoint
    BY RecordsBefore
  <2> QED BY <2>1, Bounded DEF Save, Checkpoint
<1>1. SoFar(runner', saves', checkpoint', born')
  BY RecordsBefore DEF SoFar
<1>2. OwnSteps(runner', saves', checkpoint', finished')
  BY RecordsBefore DEF OwnSteps
<1>3. BringsNew(saves', checkpoint')
  <2> SUFFICES ASSUME NEW t \in saves', t.read = "latest", checkpoint.uid = t.uid
               PROVE  checkpoint.done < t.done
    BY DEF BringsNew
  <2>1. CASE t \in saves
    BY <2>1, RecordsBefore DEF BringsNew
  <2>2. CASE t.uid = s.uid /\ t.done = s.done /\ ~RR!stale(s)
    BY <1>s, <2>2 DEF RR!stale
  <2> QED BY <2>1, <2>2
<1>4. saved' \in [RR!Uids -> Nat] /\ SavedKept(current', 1 \in concluded', saved'[1], checkpoint')
  <2>1. CASE saved' = saved
    BY <2>1, RecordsBefore
  <2>2. CASE RR!succeeded(s) /\ RR!stale(s)
    <3>1. saved' = [saved EXCEPT ![s.uid] = IF s.done < saved[s.uid] THEN saved[s.uid] ELSE s.done]
      BY <2>2, RecordsBefore DEF RR!succeeded
    <3>2. checkpoint.uid = s.uid /\ checkpoint.done >= s.done
      BY <2>2 DEF RR!stale
    <3>3. saved' \in [RR!Uids -> Nat] /\ saved[1] \in Nat
      BY <1>s, <3>1, RecordsBefore
    <3>4. CASE s.uid = 1
      BY <1>s, <3>1, <3>2, <3>3, <3>4, RecordsBefore DEF SavedKept
    <3>5. CASE s.uid # 1
      BY <1>s, <3>1, <3>3, <3>5, RecordsBefore DEF SavedKept
    <3> QED BY <3>3, <3>4, <3>5
  <2> QED BY <2>1, <2>2
<1> QED BY <1>1, <1>2, <1>3, <1>4, RecordsBefore, RecordsAfter

\* What a save tries again.
LEMMA Retried ==
  ASSUME NEW s \in Save, NEW read \in RR!Reads
  PROVE  LET t == [s EXCEPT !.read = read]
         IN t \in Save /\ t.uid = s.uid /\ t.done = s.done /\ t.read = read
  BY DEF Save

\* A save that writes: its checkpoint is its run's, and has its steps.
LEMMA SaveWrites ==
  ASSUME RecordsInv, NEW s \in saves, NEW new \in Checkpoint, new.uid = s.uid, new.done = s.done,
         new.owner \in 1 .. born, RR!putCheckpoint(new, saves \ {s}), RR!succeeded(s),
         checkpoint.uid = s.uid => checkpoint.done < s.done,
         UNCHANGED <<current, born, cachedRun, runner, snapshot, status, finished, concluded, crashes>>
  PROVE  RecordsInv'
<1>s. s \in Save /\ s.uid \in RR!Uids /\ s.done \in Nat /\ s.uid <= born /\ s.done <= finished[s.uid]
  BY RecordsBefore, Bounded DEF Save, SoFar, OwnSteps
<1>r. saves \ {s} \in SUBSET Save
  BY RecordsBefore
<1>1. SoFar(runner, saves \ {s}, new, born)
  BY <1>s, RecordsBefore DEF SoFar
<1>2. OwnSteps(runner, saves \ {s}, new, finished)
  BY <1>s, RecordsBefore DEF OwnSteps
<1>3. /\ saves' \subseteq Save /\ checkpoint' = new
      /\ SoFar(runner, saves', new, born) /\ OwnSteps(runner, saves', new, finished) /\ BringsNew(saves', new)
  BY <1>r, <1>1, <1>2, Put
<1>4. saved' = [saved EXCEPT ![s.uid] = IF s.done < saved[s.uid] THEN saved[s.uid] ELSE s.done]
  BY RecordsBefore DEF RR!succeeded
<1>5. saved' \in [RR!Uids -> Nat]
  BY <1>s, <1>4, RecordsBefore
<1>6. SavedKept(current', 1 \in concluded', saved'[1], checkpoint')
  <2> SUFFICES ASSUME current = 1, 1 \notin concluded, saved'[1] > 0
               PROVE  new.uid = 1 /\ new.done >= saved'[1]
    BY <1>3 DEF SavedKept
  <2>1. s.uid = 1
    <3>1. born = 1
      BY RecordsBefore
    <3>2. s.uid \in Nat \ {0} /\ s.uid <= 1
      BY <1>s, <3>1, Bounded
    <3> QED BY <3>2
  <2>2. saved[1] \in Nat /\ checkpoint.done \in Nat
    BY RecordsBefore, Bounded DEF Checkpoint
  <2>3. saved[1] > 0 => checkpoint.uid = 1 /\ checkpoint.done >= saved[1]
    BY RecordsBefore DEF SavedKept
  <2>4. saved[1] <= s.done
    BY <1>s, <2>1, <2>2, <2>3
  <2>5. saved'[1] = IF s.done < saved[1] THEN saved[1] ELSE s.done
    BY <1>4, <2>1, RecordsBefore
  <2> QED BY <1>s, <2>1, <2>2, <2>4, <2>5
<1> QED BY <1>3, <1>5, <1>6, RecordsBefore, RecordsAfter

\* Every step of a checkpoint write.
LEMMA SaveActs ==
  ASSUME RecordsInv, NEW s \in saves,
         RR!SaveGet(s) \/ RR!SaveCreate(s) \/ RR!SaveUpdate(s) \/ RR!SaveFails(s)
  PROVE  RecordsInv'
<1>s. s \in Save /\ saves \subseteq Save /\ checkpoint \in Checkpoint /\ crashes \in 0 .. MaxCrashes
  BY RecordsBefore
<1>e. ASSUME saves' = saves \ {s} PROVE saves' \subseteq Save /\ \A t \in saves' : t \in saves
  BY <1>s, <1>e
<1>t. ASSUME NEW read \in RR!Reads, RR!retried(s, read)
      PROVE  /\ saves' \subseteq Save
             /\ \A t \in saves' : t \in saves \/ (t.uid = s.uid /\ t.done = s.done /\ t.read = read)
  <2> DEFINE again == [s EXCEPT !.read = read]
  <2>1. again \in Save /\ again.uid = s.uid /\ again.done = s.done /\ again.read = read
    BY <1>s, Retried
  <2>2. saves' = (saves \ {s}) \cup {again}
    BY <1>t DEF RR!retried
  <2> HIDE DEF again
  <2> QED BY <1>s, <2>1, <2>2
<1>1. CASE RR!SaveGet(s)
  <2>u. UNCHANGED <<current, born, cachedRun, runner, checkpoint, snapshot, status, finished, concluded, crashes>>
    BY <1>1 DEF RR!SaveGet, RR!worldVars
  <2>1. CASE checkpoint.uid = 0
    <3>1. RR!retried(s, "absent") /\ saved' = saved
      BY <1>1, <2>1 DEF RR!SaveGet
    <3> QED BY <1>s, <1>t, <2>u, <3>1, SaveStays DEF RR!Reads
  <2>2. CASE checkpoint.uid # 0 /\ RR!stale(s)
    <3>1. saves' = saves \ {s} /\ RR!succeeded(s)
      BY <1>1, <2>2 DEF RR!SaveGet
    <3> QED BY <1>s, <1>e, <2>u, <2>2, <3>1, SaveStays
  <2>3. CASE checkpoint.uid # 0 /\ ~RR!stale(s)
    <3>1. RR!retried(s, "latest") /\ saved' = saved
      BY <1>1, <2>3 DEF RR!SaveGet
    <3> QED BY <1>s, <1>t, <2>u, <2>3, <3>1, SaveStays DEF RR!Reads
  <2> QED BY <2>1, <2>2, <2>3
<1>2. CASE RR!SaveCreate(s)
  <2>u. UNCHANGED <<current, born, cachedRun, runner, snapshot, status, finished, concluded, crashes>>
    BY <1>2 DEF RR!SaveCreate, RR!worldVars
  <2>1. CASE checkpoint.uid = 0
    <3> DEFINE new == [uid |-> s.uid, owner |-> s.uid, done |-> s.done]
    <3>1. RR!putCheckpoint(new, saves \ {s}) /\ RR!succeeded(s)
      BY <1>2, <2>1 DEF RR!SaveCreate
    <3>2. new \in Checkpoint /\ new.uid = s.uid /\ new.done = s.done /\ new.owner = s.uid
      BY <1>s DEF Save, Checkpoint, RR!Uids
    <3>3. s.uid \in 1 .. born /\ s.uid # 0
      <4>1. s.uid \in Nat \ {0} /\ s.uid <= born /\ born \in Nat
        BY <1>s, RecordsBefore, Bounded DEF Save, SoFar
      <4> QED BY <4>1
    <3> HIDE DEF new
    <3> QED BY <2>u, <2>1, <3>1, <3>2, <3>3, SaveWrites
  <2>2. CASE checkpoint.uid # 0
    <3>1. RR!retried(s, "nothing") /\ saved' = saved /\ checkpoint' = checkpoint
      BY <1>2, <2>2 DEF RR!SaveCreate
    <3> QED BY <1>s, <1>t, <2>u, <3>1, SaveStays DEF RR!Reads
  <2> QED BY <2>1, <2>2
<1>3. CASE RR!SaveUpdate(s)
  <2>u. UNCHANGED <<current, born, cachedRun, runner, snapshot, status, finished, concluded, crashes>>
    BY <1>3 DEF RR!SaveUpdate, RR!worldVars
  <2>1. CASE checkpoint.uid = 0
    <3>1. saves' = saves \ {s} /\ checkpoint' = checkpoint /\ saved' = saved
      BY <1>3, <2>1 DEF RR!SaveUpdate
    <3> QED BY <1>s, <1>e, <2>u, <3>1, SaveStays
  <2>2. CASE checkpoint.uid # 0 /\ s.read = "latest"
    <3> DEFINE new == [checkpoint EXCEPT !.uid = s.uid, !.done = s.done]
    <3>1. RR!putCheckpoint(new, saves \ {s}) /\ RR!succeeded(s)
      BY <1>3, <2>2 DEF RR!SaveUpdate
    <3>2. new \in Checkpoint /\ new.uid = s.uid /\ new.done = s.done /\ new.owner = checkpoint.owner
      <4>1. s.uid \in 0 .. MaxRuns /\ s.done \in RR!Counts
        BY <1>s, RecordsAssumption DEF Save, RR!Uids
      <4> QED BY <1>s, <4>1 DEF Checkpoint
    <3>3. checkpoint.owner \in 1 .. born
      BY <2>2, RecordsBefore DEF SoFar
    <3>4. checkpoint.uid = s.uid => checkpoint.done < s.done
      BY <2>2, RecordsBefore DEF BringsNew
    <3> HIDE DEF new
    <3> QED BY <2>u, <3>1, <3>2, <3>3, <3>4, SaveWrites
  <2>3. CASE checkpoint.uid # 0 /\ s.read # "latest"
    <3>1. RR!retried(s, "nothing") /\ saved' = saved /\ checkpoint' = checkpoint
      BY <1>3, <2>3 DEF RR!SaveUpdate
    <3> QED BY <1>s, <1>t, <2>u, <3>1, SaveStays DEF RR!Reads
  <2> QED BY <2>1, <2>2, <2>3
<1>4. CASE RR!SaveFails(s)
  <2>1. crashes' \in 0 .. MaxCrashes
    BY <1>s, <1>4, RecordsAssumption DEF RR!SaveFails
  <2>2. /\ saves' = saves \ {s}
        /\ UNCHANGED <<current, born, cachedRun, runner, checkpoint, snapshot, status, finished, saved, concluded>>
    BY <1>4 DEF RR!SaveFails, RR!worldVars, RR!historyVars
  <2> QED BY <1>s, <1>e, <2>1, <2>2, SaveStays
<1> QED BY <1>1, <1>2, <1>3, <1>4

\* The checkpoint is deleted by runner u or for run u, which has come to its end.
LEMMA CheckpointDeleted ==
  ASSUME RecordsInv, NEW u \in 1 .. born, RR!putCheckpoint(RR!NoCheckpoint, saves),
         concluded' = concluded \cup {u},
         UNCHANGED <<current, born, cachedRun, snapshot, finished, saved, crashes>>,
         runner' \in [RR!Uids -> RunnerState],
         \A v \in RR!Uids : /\ runner'[v].pc # "off" => v <= born
                            /\ runner'[v].done <= finished[v],
         status' \in [RR!Uids -> [over : BOOLEAN, audit : BOOLEAN]]
  PROVE  RecordsInv'
<1>1. SoFar(runner', saves, RR!NoCheckpoint, born) /\ OwnSteps(runner', saves, RR!NoCheckpoint, finished)
  BY RecordsBefore, Bounded DEF SoFar, OwnSteps
<1>2. /\ saves' \subseteq Save /\ checkpoint' = RR!NoCheckpoint
      /\ SoFar(runner', saves', RR!NoCheckpoint, born) /\ OwnSteps(runner', saves', RR!NoCheckpoint, finished)
      /\ BringsNew(saves', RR!NoCheckpoint)
  <2>1. saves \in SUBSET Save /\ RR!NoCheckpoint \in Checkpoint
    BY RecordsBefore, Bounded
  <2> QED BY <1>1, <2>1, Put
<1>3. saved' \in [RR!Uids -> Nat]
  BY RecordsBefore
<1>4. SavedKept(current', 1 \in concluded', saved'[1], checkpoint')
  <2>1. ASSUME current = 1 PROVE 1 \in concluded'
    <3>1. u = 1
      BY <2>1, RecordsBefore
    <3> QED BY <3>1, RecordsBefore
  <2> QED BY <2>1 DEF SavedKept
<1>5. concluded' \subseteq RR!Uids
  <2>1. u \in RR!Uids
    BY RecordsBefore, RecordsAssumption DEF RR!Uids
  <2> QED BY <2>1, RecordsBefore
<1> QED BY <1>2, <1>3, <1>4, <1>5, RecordsBefore, RecordsAfter, Bounded

\* The end of a runner, in order or by a crash.
LEMMA RunnerEnds ==
  ASSUME RecordsInv, NEW u \in RR!Uids, RR!Flush(u) \/ RR!Crash(u)
  PROVE  RecordsInv'
<1>b. /\ runner \in [RR!Uids -> RunnerState] /\ u <= born /\ u \in 1 .. born
      /\ crashes \in 0 .. MaxCrashes /\ status \in [RR!Uids -> [over : BOOLEAN, audit : BOOLEAN]]
  <2>1. /\ runner \in [RR!Uids -> RunnerState] /\ u <= born
        /\ crashes \in 0 .. MaxCrashes /\ status \in [RR!Uids -> [over : BOOLEAN, audit : BOOLEAN]]
    BY RecordsBefore, RunnerFacts DEF RR!Flush, RR!Crash
  <2>2. u \in Nat \ {0} /\ born \in Nat
    BY RecordsBefore
  <2> QED BY <2>1, <2>2
<1>m. ASSUME NEW q \in {RR!Off, [RR!Off EXCEPT !.pc = "marshal"]}, runner' = [runner EXCEPT ![u] = q]
      PROVE  /\ runner' \in [RR!Uids -> RunnerState]
             /\ \A v \in RR!Uids : /\ runner'[v].pc # "off" => v <= born
                                   /\ runner'[v].done <= finished[v]
  <2>1. q \in RunnerState /\ q.done <= finished[u]
    BY RunnerFacts, Bounded
  <2> HIDE DEF RR!Off
  <2>2. runner' \in [RR!Uids -> RunnerState]
    BY <1>b, <1>m, <2>1
  <2>3. \A v \in RR!Uids : runner'[v] = IF v = u THEN q ELSE runner[v]
    BY <1>b, <1>m
  <2> QED BY <1>b, <2>1, <2>2, <2>3, RunnerFacts
<1>1. CASE RR!Flush(u)
  <2>1. CASE /\ runner' = [runner EXCEPT ![u] = [RR!Off EXCEPT !.pc = "marshal"]]
             /\ RR!putCheckpoint(RR!NoCheckpoint, saves) /\ concluded' = concluded \cup {u}
    BY <1>b, <1>m, <1>1, <2>1, CheckpointDeleted DEF RR!Flush, RR!worldVars
  <2>2. CASE runner' = [runner EXCEPT ![u] = RR!Off] /\ UNCHANGED <<checkpoint, saves, concluded>>
    BY <1>b, <1>1, <2>2, RunnerStep, RunnerFacts, Bounded DEF RR!Flush, RR!worldVars
  <2> QED BY <1>1, <2>1, <2>2 DEF RR!Flush
<1>2. CASE RR!Crash(u)
  <2>1. crashes' \in 0 .. MaxCrashes
    BY <1>b, <1>2, RecordsAssumption DEF RR!Crash
  <2>2. saves' \subseteq saves /\ runner' = [runner EXCEPT ![u] = RR!Off]
        /\ UNCHANGED <<current, born, cachedRun, checkpoint, snapshot, status, finished, saved, concluded>>
    BY <1>2 DEF RR!Crash, RR!worldVars, RR!historyVars
  <2>3. /\ runner' \in [RR!Uids -> RunnerState]
        /\ \A v \in RR!Uids : (runner'[v].pc # "off" => v <= born) /\ runner'[v].done <= finished[v]
    BY <1>m, <2>2
  <2>4. SoFar(runner', saves', checkpoint, born) /\ OwnSteps(runner', saves', checkpoint, finished)
    BY <2>2, <2>3, RecordsBefore DEF SoFar, OwnSteps
  <2>5. BringsNew(saves', checkpoint)
    BY <2>2, RecordsBefore DEF BringsNew
  <2> QED BY <2>1, <2>2, <2>3, <2>4, <2>5, RecordsBefore, RecordsAfter
<1> QED BY <1>1, <1>2

\* The controller gives a run up.
LEMMA RunFailed ==
  ASSUME RecordsInv, RR!FailRun
  PROVE  RecordsInv'
<1>1. cachedRun \in 1 .. born
  BY RecordsBefore DEF RR!FailRun
<1>2. status' \in [RR!Uids -> [over : BOOLEAN, audit : BOOLEAN]]
  <2>0. status \in [RR!Uids -> [over : BOOLEAN, audit : BOOLEAN]]
    BY RecordsBefore
  <2>1. CASE status' = [status EXCEPT ![current].over = TRUE]
    <3>1. \A v \in RR!Uids : [status[v] EXCEPT !.over = TRUE] \in [over : BOOLEAN, audit : BOOLEAN]
      BY <2>0
    <3> QED BY <2>0, <2>1, <3>1
  <2> QED BY <2>0, <2>1 DEF RR!FailRun
<1>3. \A v \in RR!Uids : (runner[v].pc # "off" => v <= born) /\ runner[v].done <= finished[v]
  BY RunnerFacts
<1> QED BY <1>1, <1>2, <1>3, RecordsBefore, CheckpointDeleted DEF RR!FailRun, RR!worldVars

\* Every step of the runners, their writes, the controller and the owner keeps it.
LEMMA RecordsStep == RecordsInv /\ [RR!Next]_recordsVars => RecordsInv'
<1> SUFFICES ASSUME RecordsInv, [RR!Next]_recordsVars PROVE RecordsInv'
  OBVIOUS
<1>1. CASE UNCHANGED recordsVars
  <2>1. UNCHANGED <<current, born, cachedRun, runner, saves, checkpoint, snapshot, status, finished, saved, concluded, crashes>>
    BY <1>1 DEF recordsVars
  <2> QED BY <2>1, RunnersMove, RecordsBefore, RunnerFacts
<1>2. CASE RR!Next
  BY <1>2, RunnerActs, RunnerStarts, AuditIsPut, RecordsCollected, RunsChange, StepCompleted, SaveActs, RunnerEnds,
     RunFailed DEF RR!Next
<1> QED BY <1>1, <1>2

\* A runner skips only steps of its own run, and a saved step stays saved.
LEMMA RecordsImplies == RecordsInv => RR!TypeOK /\ RR!LoadIsOwn /\ RR!SavedIsKept
  BY DEF RecordsInv, RecordsTyped, OwnSteps, RR!LoadIsOwn

\* The garbage collector does not take the audit snapshot of a run that is there.
LEMMA AuditStays == RecordsInv /\ RR!Next => RR!AuditKept
<1> SUFFICES ASSUME RecordsInv, RR!Next, snapshot.uid = current, current # 0, current' = current
             PROVE  snapshot'.uid # 0
  BY DEF RR!AuditKept
<1>1. CASE UNCHANGED snapshot
  BY <1>1
<1>2. CASE RR!Collect
  <2>1. snapshot.owner = current
    BY RecordsBefore
  <2> QED BY <1>2, <2>1 DEF RR!Collect
<1>3. CASE \E u \in RR!Uids : snapshot' = [uid |-> u, owner |-> RR!ownerAfter(u)]
  BY <1>3, Bounded
<1> QED
  BY <1>1, <1>2, <1>3 DEF RR!Next, RR!DeleteRun, RR!CreateRun, RR!SyncCache, RR!StartRunner, RR!FailRun,
     RR!CompleteStep, RR!Flush, RR!DeleteFails, RR!Marshal, RR!AuditGet, RR!AuditPut, RR!AuditFails,
     RR!Persist, RR!Crash, RR!SaveGet, RR!SaveCreate, RR!SaveUpdate, RR!SaveFails

\* CheckpointManager and the audit snapshot: a runner skips only steps its own run has
\* finished, what a successful save of the first run of a name wrote is not undone by a
\* late one, by a pause or by a crash until the checkpoint is deleted for the run's end
\* (which the code does before that end is persisted), and the snapshot a run's status
\* names is not collected under it: for every number of runs, steps and crashes.
THEOREM RecordsAreSound ==
  RR!Spec => /\ [](RR!TypeOK /\ RR!LoadIsOwn /\ RR!SavedIsKept)
             /\ [][RR!AuditKept]_RR!recordVars
<1> DEFINE OK == RR!TypeOK /\ RR!LoadIsOwn /\ RR!SavedIsKept
           Audit == RR!AuditKept
<1>1. /\ [RR!Next]_recordsVars <=> [RR!Next]_RR!recordVars
  BY DEF recordsVars, RR!recordVars
<1>2. RecordsInv => OK
  BY RecordsImplies
<1>3. RecordsInv /\ [RR!Next]_RR!recordVars => [Audit]_RR!recordVars
  BY AuditStays
<1> HIDE DEF OK, Audit
<1>4. RR!Spec => []OK /\ [][Audit]_RR!recordVars
  BY <1>1, <1>2, <1>3, RecordsInit, RecordsStep, PTL DEF RR!Spec
<1> QED BY <1>4 DEF OK, Audit

\* The same of the records as MCSafety runs them.
THEOREM RecordsPart == PartsSpec => RecordsSound
<1> DEFINE PartInv == part = "records" => RecordsInv
           OK == part = "records" => RR!LoadIsOwn /\ RR!SavedIsKept
           Audit == part = "records" => RR!AuditKept
<1>1. PartsInit => PartInv
  BY RecordsInit DEF PartsInit
<1>2. [PartsNext]_allVars => part' = part /\ (part = "records" => [RR!Next]_recordsVars)
  BY DEF PartsNext, allVars, only
<1>3. PartInv /\ [PartsNext]_allVars => PartInv'
  BY <1>2, RecordsStep
<1>4. PartInv => OK
  BY RecordsImplies
<1>5. PartInv /\ [PartsNext]_allVars => [Audit]_allVars
  <2> SUFFICES ASSUME PartInv, PartsNext, part = "records" PROVE RR!AuditKept
    OBVIOUS
  <2>1. RecordsInv /\ RR!Next
    BY DEF PartsNext, only
  <2> QED BY <2>1, AuditStays
<1> HIDE DEF PartInv, OK, Audit
<1>6. PartsSpec => []OK /\ [][Audit]_allVars
  BY <1>1, <1>3, <1>4, <1>5, PTL DEF PartsSpec
<1> QED
  BY <1>6 DEF RecordsSound, OK, Audit

----------------------------------------------------------------------------
(* Steps that write to the target cluster (TargetWrites).                  *)

\* What a Report may be.
ReportState ==
  [by : Children \cup {"nobody"}, scope : Children \cup {"nobody"}, meta : Nat, version : Nat]

\* What a step that writes to the target cluster holds.
ChildState ==
  [pc : {"idle", "get", "patch", "outputs", "probe", "dataOutputs", "create", "getReport",
         "update", "done", "data", "failed"},
   kind : {"none", "ApplyConfiguration", "JSONPatch", "report"}, ask : [Paths -> TW!Operations],
   copy : [Paths -> TW!Values] \cup {TW!Gone}, found : ReportState, scoped : BOOLEAN,
   executor : Executors \cup {"none"}]

\* What an executor may know of the CRD.
Answers == {"none", "available", "unavailable", "error"}

\* What is true of a step in state p while the Report is r and its executor's probe found pr.
ChildFacts(p, r, pr) ==
  /\ p.pc \in {"get", "patch"} => p.kind \in {"ApplyConfiguration", "JSONPatch"}
  /\ p.pc \in {"get", "patch"} /\ p.kind = "ApplyConfiguration" => \A x \in Paths : p.ask[x] # "test"
  /\ p.pc \in {"probe", "create", "getReport", "update"} => p.kind = "report"
  /\ p.kind = "report" /\ p.pc \in {"create", "getReport", "update", "outputs", "done"} => pr = "available"
  /\ p.pc \in {"dataOutputs", "data"} => pr = "unavailable" /\ p.kind = "report"
  /\ p.kind = "report" => p.executor \in Executors
  /\ p.pc = "update" => /\ p.found.version <= r.version
                        /\ p.found.version = r.version => p.found = r

\* The inductive invariant of the steps that write.
TargetsInv ==
  /\ target \in [Paths -> TW!Values] \cup {TW!Gone}
  /\ installed \in BOOLEAN /\ probe \in [Executors -> Answers]
  /\ outside \in 0 .. MaxOthers
  /\ report \in ReportState /\ report.meta <= outside /\ TW!ReportOfOneStep
  /\ child \in [Children -> ChildState]
  /\ \A c \in Children : ChildFacts(child[c], report, TW!probed(c))

\* The values the steps and the report begin with.
LEMMA IdleChild ==
  /\ TW!Idle \in ChildState /\ TW!NoReport \in ReportState
  /\ TW!Idle.pc = "idle" /\ TW!Idle.kind = "none"
<1>1. [p \in Paths |-> "none"] \in [Paths -> TW!Operations]
  BY DEF TW!Operations
<1>2. TW!NoReport \in ReportState
  BY DEF TW!NoReport, ReportState
<1> QED
  BY <1>1, <1>2 DEF TW!Idle, ChildState

\* No step has begun.
LEMMA TargetsInit == TW!Init => TargetsInv
<1> SUFFICES ASSUME TW!Init PROVE TargetsInv
  OBVIOUS
<1> USE TargetsAssumption DEF TW!Init
<1>1. target \in [Paths -> TW!Values] \cup {TW!Gone}
  BY DEF TW!Values
<1>2. report \in ReportState /\ report.meta <= outside /\ TW!ReportOfOneStep
  BY IdleChild DEF TW!NoReport, TW!ReportOfOneStep
<1>3. child \in [Children -> ChildState] /\ \A c \in Children : child[c] = TW!Idle
  BY IdleChild
<1>4. \A c \in Children : ChildFacts(child[c], report, TW!probed(c))
  BY <1>3, IdleChild DEF ChildFacts
<1>5. probe \in [Executors -> Answers]
  BY DEF Answers
<1> QED
  BY <1>1, <1>2, <1>3, <1>4, <1>5 DEF TargetsInv

\* A step of child c that leaves the Report and the probe alone.
LEMMA ChildMoves ==
  ASSUME TargetsInv, NEW c \in Children, NEW q \in ChildState, child' = [child EXCEPT ![c] = q],
         UNCHANGED <<report, installed, probe, outside>>,
         target' \in [Paths -> TW!Values] \cup {TW!Gone}, ChildFacts(q, report, probe[q.executor])
  PROVE  TargetsInv'
<1>1. child' \in [Children -> ChildState]
  BY DEF TargetsInv
<1>2. \A d \in Children : ChildFacts(child'[d], report, TW!probed(d)')
  BY DEF TargetsInv, TW!probed
<1>3. installed' \in BOOLEAN
  BY DEF TargetsInv
<1> QED
  BY <1>1, <1>2, <1>3 DEF TargetsInv, TW!ReportOfOneStep

\* The Report becomes a later version; no step holds that one yet.
LEMMA LaterReport ==
  ASSUME NEW p \in ChildState, NEW r \in ReportState, NEW r2 \in ReportState, NEW pr,
         r2.version = r.version + 1, ChildFacts(p, r, pr)
  PROVE  ChildFacts(p, r2, pr)
<1>1. p.found.version \in Nat /\ r.version \in Nat
  BY DEF ChildState, ReportState
<1> QED BY <1>1 DEF ChildFacts

\* A step of child c that writes the Report.
LEMMA ChildReports ==
  ASSUME TargetsInv, NEW c \in Children, NEW q \in ChildState, child' = [child EXCEPT ![c] = q],
         UNCHANGED <<target, installed, probe, outside>>, q.pc = "outputs",
         q.kind = "report", q.executor \in Executors, probe[q.executor] = "available",
         report' \in ReportState, report'.version = report.version + 1, report'.meta <= outside,
         report'.scope \in {"nobody", report'.by}
  PROVE  TargetsInv'
<1>1. child' \in [Children -> ChildState] /\ report \in ReportState
  BY DEF TargetsInv
<1>2. ASSUME NEW d \in Children PROVE ChildFacts(child'[d], report', TW!probed(d)')
  <2>1. CASE d = c
    BY <2>1, <1>1 DEF TargetsInv, ChildFacts, TW!probed
  <2>2. CASE d # c
    <3>1. child'[d] = child[d] /\ child[d] \in ChildState /\ TW!probed(d)' = TW!probed(d)
      BY <2>2 DEF TargetsInv, TW!probed
    <3> QED BY <1>1, <3>1, LaterReport DEF TargetsInv
  <2> QED BY <2>1, <2>2
<1>3. installed' \in BOOLEAN
  BY DEF TargetsInv
<1> QED
  BY <1>1, <1>2, <1>3 DEF TargetsInv, TW!ReportOfOneStep

\* A move to place pc.
LEMMA GoesTo ==
  ASSUME TargetsInv, NEW c \in Children, NEW pc, TW!goTo(c, pc),
         pc \in {"outputs", "probe", "dataOutputs", "create", "getReport", "done", "data", "failed"}
  PROVE  \E q \in ChildState :
           /\ child' = [child EXCEPT ![c] = q] /\ q.pc = pc /\ q.kind = child[c].kind
           /\ q.executor = child[c].executor
<1>1. child[c] \in ChildState
  BY DEF TargetsInv
<1> DEFINE q == [child[c] EXCEPT !.pc = pc]
<1>2. q \in ChildState /\ q.pc = pc /\ q.kind = child[c].kind /\ q.executor = child[c].executor
  BY <1>1 DEF ChildState
<1>3. child' = [child EXCEPT ![c] = q]
  BY DEF TW!goTo, TargetsInv
<1> QED BY <1>2, <1>3

\* A step that goes on without writing the report.
LEMMA PlainMove ==
  ASSUME TargetsInv, NEW c \in Children, NEW pc, TW!goTo(c, pc),
         pc \in {"outputs", "dataOutputs", "create", "getReport", "done", "data", "failed"},
         UNCHANGED <<report, installed, probe, outside>>,
         target' \in [Paths -> TW!Values] \cup {TW!Gone},
         pc \in {"create", "getReport", "dataOutputs", "data"} => child[c].kind = "report",
         child[c].kind = "report" /\ pc \in {"create", "getReport", "outputs", "done"} =>
           TW!probed(c) = "available",
         pc \in {"dataOutputs", "data"} => TW!probed(c) = "unavailable"
  PROVE  TargetsInv'
<1>1. PICK q \in ChildState : /\ child' = [child EXCEPT ![c] = q] /\ q.pc = pc /\ q.kind = child[c].kind
                              /\ q.executor = child[c].executor
  BY GoesTo
<1>2. ChildFacts(q, report, probe[q.executor])
  BY <1>1 DEF ChildFacts, TargetsInv, TW!probed
<1> QED BY <1>1, <1>2, ChildMoves

\* Every step of the children and of others in the cluster keeps it.
LEMMA TargetsStep == TargetsInv /\ [TW!Next]_targetsVars => TargetsInv'
<1> SUFFICES ASSUME TargetsInv, [TW!Next]_targetsVars PROVE TargetsInv'
  OBVIOUS
<1>0. /\ target \in [Paths -> TW!Values] \cup {TW!Gone} /\ report \in ReportState
      /\ child \in [Children -> ChildState]
  BY DEF TargetsInv
<1>1. ASSUME NEW c \in Children, TW!Start(c) PROVE TargetsInv'
  <2>1. ASSUME NEW kind \in {"ApplyConfiguration", "JSONPatch"}, NEW ask \in Asks,
               kind = "ApplyConfiguration" => \A p \in Paths : ask[p] \in {"none", "add", "remove"},
               child' = [child EXCEPT ![c] = [TW!Idle EXCEPT !.pc = "get", !.kind = kind, !.ask = ask]]
        PROVE  TargetsInv'
    <3> DEFINE q == [TW!Idle EXCEPT !.pc = "get", !.kind = kind, !.ask = ask]
    <3>1. q \in ChildState /\ q.pc = "get" /\ q.kind = kind /\ q.ask = ask
      BY IdleChild, TargetsAssumption DEF ChildState
    <3>2. child' = [child EXCEPT ![c] = q] /\ UNCHANGED <<target, report, installed, probe, outside>>
      BY <1>1, <2>1 DEF TW!Start
    <3> HIDE DEF q
    <3>3. ChildFacts(q, report, probe[q.executor])
      BY <2>1, <3>1 DEF ChildFacts
    <3> QED BY <1>0, <3>1, <3>2, <3>3, ChildMoves
  <2>2. ASSUME NEW scoped \in BOOLEAN, NEW x \in Executors,
               child' = [child EXCEPT ![c] = [TW!Idle EXCEPT !.pc = "probe", !.kind = "report", !.scoped = scoped,
                                                             !.executor = x]]
        PROVE  TargetsInv'
    <3> DEFINE q == [TW!Idle EXCEPT !.pc = "probe", !.kind = "report", !.scoped = scoped, !.executor = x]
    <3>1. q \in ChildState /\ q.pc = "probe" /\ q.kind = "report" /\ q.executor = x
      BY IdleChild DEF ChildState
    <3>2. child' = [child EXCEPT ![c] = q] /\ UNCHANGED <<target, report, installed, probe, outside>>
      BY <1>1, <2>2 DEF TW!Start
    <3> HIDE DEF q
    <3>3. ChildFacts(q, report, probe[q.executor])
      BY <3>1 DEF ChildFacts
    <3> QED BY <1>0, <3>1, <3>2, <3>3, ChildMoves
  <2> QED BY <1>1, <2>1, <2>2 DEF TW!Start
<1>2. ASSUME NEW c \in Children, TW!Fails(c) PROVE TargetsInv'
  BY <1>0, <1>2, PlainMove DEF TW!Fails
<1>3. ASSUME NEW c \in Children, TW!MutateGet(c) PROVE TargetsInv'
  <2>1. CASE target = TW!Gone
    BY <1>0, <1>3, <2>1, PlainMove DEF TW!MutateGet
  <2>2. CASE target # TW!Gone
    <3> DEFINE q == [child[c] EXCEPT !.pc = "patch", !.copy = target]
    <3>1. q \in ChildState /\ q.pc = "patch" /\ q.kind = child[c].kind /\ q.ask = child[c].ask
          /\ q.executor = child[c].executor
      BY <1>0 DEF ChildState
    <3>2. child' = [child EXCEPT ![c] = q] /\ UNCHANGED <<target, report, installed, probe, outside>>
          /\ child[c].pc = "get"
      BY <1>0, <1>3, <2>2 DEF TW!MutateGet
    <3>4. ChildFacts(child[c], report, probe[child[c].executor])
      BY DEF TargetsInv, TW!probed
    <3> HIDE DEF q
    <3>3. ChildFacts(q, report, probe[q.executor])
      BY <3>1, <3>2, <3>4 DEF ChildFacts
    <3> QED BY <1>0, <3>1, <3>2, <3>3, ChildMoves
  <2> QED BY <2>1, <2>2
<1>4. ASSUME NEW c \in Children, TW!Patch(c) PROVE TargetsInv'
  <2>1. target' \in [Paths -> TW!Values] \cup {TW!Gone}
    <3>1. CASE target' = target
      BY <1>0, <3>1
    <3>2. CASE target # TW!Gone /\ (target' = TW!jsonPatch(c) \/ target' = TW!applyPatch(c))
      BY <1>0, <3>2 DEF TW!jsonPatch, TW!applyPatch, TW!wanted, TW!Values
    <3> QED BY <1>4, <3>1, <3>2 DEF TW!Patch, TW!accepted
  <2>2. child[c].kind # "report"
    BY <1>4 DEF TW!Patch, TargetsInv, ChildFacts
  <2>3. PICK pc \in {"failed", "outputs"} : TW!goTo(c, pc)
    BY <1>4 DEF TW!Patch
  <2> QED BY <1>4, <2>1, <2>2, <2>3, PlainMove DEF TW!Patch
<1>5. ASSUME NEW c \in Children, TW!Outputs(c) PROVE TargetsInv'
  <2>1. child[c].kind = "report" => TW!probed(c) = "available"
    BY <1>5 DEF TW!Outputs, TargetsInv, ChildFacts
  <2> QED BY <1>0, <1>5, <2>1, PlainMove DEF TW!Outputs
<1>6. ASSUME NEW c \in Children, TW!Probe(c) PROVE TargetsInv'
  <2> DEFINE x == child[c].executor
  <2>1. x \in Executors /\ probe \in [Executors -> Answers] /\ probe[x] = "none"
        /\ UNCHANGED <<target, report, installed, child, outside>>
    BY <1>6 DEF TW!Probe, TW!probed, TargetsInv, ChildFacts
  <2>4. PICK answer \in {"available", "unavailable", "error"} : probe' = [probe EXCEPT ![x] = answer]
    BY <1>6 DEF TW!Probe
  <2> HIDE DEF x
  <2>5. probe' \in [Executors -> Answers] /\ \A y \in Executors : y # x => probe'[y] = probe[y]
    BY <2>1, <2>4 DEF Answers
  <2>2. ASSUME NEW d \in Children PROVE ChildFacts(child[d], report, probe'[child[d].executor])
    <3>1. ChildFacts(child[d], report, probe[child[d].executor])
      BY DEF TargetsInv, TW!probed
    <3>2. CASE child[d].kind # "report"
      BY <3>1, <3>2 DEF ChildFacts
    <3>3. CASE child[d].kind = "report" /\ child[d].executor # x
      BY <2>5, <3>1, <3>3 DEF ChildFacts
    <3>4. CASE child[d].kind = "report" /\ child[d].executor = x
      BY <2>1, <3>1, <3>4 DEF ChildFacts
    <3> QED BY <3>2, <3>3, <3>4
  <2>3. installed' \in BOOLEAN
    BY <2>1 DEF TargetsInv
  <2> QED
    BY <2>1, <2>2, <2>3, <2>5 DEF TargetsInv, TW!ReportOfOneStep, TW!probed
<1>7. ASSUME NEW c \in Children, TW!Probed(c) PROVE TargetsInv'
  <2>0. child[c].pc = "probe" /\ TW!probed(c) # "none" /\ UNCHANGED <<target, report, installed, probe, outside>>
    BY <1>7 DEF TW!Probed
  <2>r. child[c].kind = "report"
    BY <2>0 DEF TargetsInv, ChildFacts
  <2>k. TW!probed(c) \in Answers
    BY <2>r DEF TargetsInv, ChildFacts, TW!probed
  <2>1. CASE TW!probed(c) = "available"
    <3>1. TW!goTo(c, "create")
      BY <1>7, <2>1 DEF TW!Probed
    <3> QED BY <1>0, <2>0, <2>r, <2>1, <3>1, PlainMove
  <2>2. CASE TW!probed(c) = "unavailable"
    <3>1. TW!goTo(c, "dataOutputs")
      BY <1>7, <2>2 DEF TW!Probed
    <3> QED BY <1>0, <2>0, <2>r, <2>2, <3>1, PlainMove
  <2>3. CASE TW!probed(c) = "error"
    <3>1. TW!goTo(c, "failed")
      BY <1>7, <2>3 DEF TW!Probed
    <3> QED BY <1>0, <2>0, <2>3, <3>1, PlainMove
  <2> QED BY <2>0, <2>k, <2>1, <2>2, <2>3 DEF Answers
<1>8. ASSUME NEW c \in Children, TW!DataOutputs(c) PROVE TargetsInv'
  <2>1. TW!probed(c) = "unavailable" /\ child[c].kind = "report"
    BY <1>8 DEF TW!DataOutputs, TargetsInv, ChildFacts
  <2>2. PICK pc \in {"data", "failed"} : TW!goTo(c, pc)
    BY <1>8 DEF TW!DataOutputs
  <2> QED BY <1>0, <1>8, <2>1, <2>2, PlainMove DEF TW!DataOutputs
<1>9. ASSUME NEW c \in Children, TW!CreateReport(c) PROVE TargetsInv'
  <2>1. child[c].kind = "report" /\ child[c].executor \in Executors /\ TW!probed(c) = "available"
    BY <1>9 DEF TW!CreateReport, TargetsInv, ChildFacts
  <2>2. CASE ~installed
    BY <1>0, <1>9, <2>1, <2>2, PlainMove DEF TW!CreateReport
  <2>3. CASE installed /\ report.by = "nobody"
    <3>1. report' = [by |-> c, scope |-> TW!scopeOf(c), meta |-> 0, version |-> report.version + 1]
          /\ TW!goTo(c, "outputs")
      BY <1>9, <2>3 DEF TW!CreateReport
    <3>2. TW!scopeOf(c) \in {"nobody", c} /\ report.version + 1 \in Nat
      BY <1>0 DEF TW!scopeOf, ReportState
    <3>3. report' \in ReportState /\ report'.version = report.version + 1 /\ report'.meta <= outside
          /\ report'.scope \in {"nobody", report'.by}
      BY <3>1, <3>2, TargetsAssumption DEF ReportState, TargetsInv
    <3>4. PICK q \in ChildState : /\ child' = [child EXCEPT ![c] = q] /\ q.pc = "outputs"
                                  /\ q.kind = child[c].kind /\ q.executor = child[c].executor
      BY <3>1, GoesTo
    <3> QED
      BY <1>9, <2>1, <3>3, <3>4, ChildReports DEF TW!CreateReport, TW!probed
  <2>4. CASE installed /\ report.by # "nobody"
    BY <1>0, <1>9, <2>1, <2>4, PlainMove DEF TW!CreateReport
  <2> QED BY <2>2, <2>3, <2>4
<1>10. ASSUME NEW c \in Children, TW!GetReport(c) PROVE TargetsInv'
  <2>1. child[c].kind = "report" /\ child[c].executor \in Executors /\ TW!probed(c) = "available"
    BY <1>10 DEF TW!GetReport, TargetsInv, ChildFacts
  <2>2. CASE report.by = "nobody"
    BY <1>0, <1>10, <2>2, PlainMove DEF TW!GetReport
  <2>3. CASE report.by # "nobody"
    <3> DEFINE q == [child[c] EXCEPT !.pc = "update", !.found = report]
    <3>1. q \in ChildState /\ q.pc = "update" /\ q.kind = child[c].kind /\ q.found = report
          /\ q.executor = child[c].executor
      BY <1>0 DEF ChildState
    <3>2. child' = [child EXCEPT ![c] = q] /\ UNCHANGED <<target, report, installed, probe, outside>>
      BY <1>0, <1>10, <2>3 DEF TW!GetReport
    <3> HIDE DEF q
    <3>3. ChildFacts(q, report, probe[q.executor])
      BY <1>0, <2>1, <3>1 DEF ChildFacts, ReportState, TW!probed
    <3> QED BY <1>0, <3>1, <3>2, <3>3, ChildMoves
  <2> QED BY <2>2, <2>3
<1>11. ASSUME NEW c \in Children, TW!UpdateReport(c) PROVE TargetsInv'
  <2>1. child[c].kind = "report" /\ child[c].executor \in Executors /\ TW!probed(c) = "available"
    BY <1>11 DEF TW!UpdateReport, TargetsInv, ChildFacts
  <2>2. CASE report.by # "nobody" /\ report.version = child[c].found.version
    <3>1. report' = TW!updated(c) /\ TW!goTo(c, "outputs")
      BY <1>11, <2>2 DEF TW!UpdateReport
    <3>2. child[c].found = report
      BY <1>11, <2>2 DEF TW!UpdateReport, TargetsInv, ChildFacts
    <3>3. report' = [report EXCEPT !.by = c, !.scope = TW!scopeOf(c), !.version = @ + 1]
      BY <3>1, <3>2 DEF TW!updated
    <3>4. TW!scopeOf(c) \in {"nobody", c}
      BY DEF TW!scopeOf
    <3>5. report' \in ReportState /\ report'.version = report.version + 1 /\ report'.meta = report.meta
          /\ report'.scope \in {"nobody", report'.by}
      <4>1. report.version + 1 \in Nat
        BY <1>0 DEF ReportState
      <4> QED BY <1>0, <3>3, <3>4, <4>1 DEF ReportState
    <3>6. PICK q \in ChildState : /\ child' = [child EXCEPT ![c] = q] /\ q.pc = "outputs"
                                  /\ q.kind = child[c].kind /\ q.executor = child[c].executor
      BY <3>1, GoesTo
    <3>7. report'.meta <= outside
      BY <3>5 DEF TargetsInv
    <3> QED
      BY <1>11, <2>1, <3>5, <3>6, <3>7, ChildReports DEF TW!UpdateReport, TW!probed
  <2>3. CASE ~(report.by # "nobody" /\ report.version = child[c].found.version)
    BY <1>0, <1>11, <2>3, PlainMove DEF TW!UpdateReport
  <2> QED BY <2>2, <2>3
<1>12. CASE TW!Others
  <2>1. outside' \in 0 .. MaxOthers /\ outside' = outside + 1 /\ probe' = probe /\ child' = child /\ installed' \in BOOLEAN
    <3>1. outside' \in 0 .. MaxOthers
      BY <1>12, TargetsAssumption DEF TW!Others, TargetsInv
    <3>2. installed' \in BOOLEAN
      <4>1. installed' = installed \/ installed' = ~installed
        BY <1>12 DEF TW!Others
      <4> QED BY <4>1 DEF TargetsInv
    <3> QED BY <1>12, <3>1, <3>2 DEF TW!Others
  <2>2. target' \in [Paths -> TW!Values] \cup {TW!Gone}
    <3>1. [p \in Paths |-> "old"] \in [Paths -> TW!Values]
      BY DEF TW!Values
    <3> QED
      BY <1>0, <1>12, <3>1 DEF TW!Others
  <2>3. report' = report \/ /\ report' \in ReportState /\ report'.version = report.version + 1
                            /\ report'.meta <= outside + 1 /\ report'.scope \in {"nobody", report'.by}
    <3> DEFINE m == [report EXCEPT !.meta = @ + 1, !.version = @ + 1]
               n == [TW!NoReport EXCEPT !.version = report.version + 1]
    <3>1. report' \in {report, m, n}
      BY <1>12 DEF TW!Others
    <3>2. m \in ReportState /\ m.version = report.version + 1 /\ m.meta = report.meta + 1
          /\ m.scope = report.scope /\ m.by = report.by
      <4>1. report.version + 1 \in Nat /\ report.meta + 1 \in Nat
        BY <1>0 DEF ReportState
      <4> QED BY <1>0, <4>1 DEF ReportState
    <3>3. n \in ReportState /\ n.version = report.version + 1 /\ n.meta = 0 /\ n.scope = "nobody"
      BY <1>0 DEF ReportState, TW!NoReport
    <3>4. report.meta <= outside /\ report.scope \in {"nobody", report.by} /\ outside \in Nat /\ report.meta \in Nat
      BY <1>0, TargetsAssumption DEF TargetsInv, TW!ReportOfOneStep, ReportState
    <3> HIDE DEF m, n
    <3> QED BY <3>1, <3>2, <3>3, <3>4
  <2>4. \A d \in Children : ChildFacts(child[d], report', TW!probed(d))
    <3>1. \A d \in Children : child[d] \in ChildState /\ ChildFacts(child[d], report, TW!probed(d))
      BY DEF TargetsInv
    <3> QED BY <1>0, <2>3, <3>1, LaterReport
  <2>5. report' \in ReportState /\ report'.meta <= outside' /\ report'.scope \in {"nobody", report'.by}
    <3>4. report.meta <= outside /\ report.scope \in {"nobody", report.by} /\ outside \in Nat /\ report.meta \in Nat
      BY <1>0, TargetsAssumption DEF TargetsInv, TW!ReportOfOneStep, ReportState
    <3> QED BY <1>0, <2>1, <2>3, <3>4
  <2> QED
    BY <2>1, <2>2, <2>4, <2>5 DEF TargetsInv, TW!ReportOfOneStep, TW!probed
<1>13. CASE UNCHANGED targetsVars
  BY <1>13 DEF targetsVars, TargetsInv, TW!ReportOfOneStep, TW!probed
<1> QED
  BY <1>1, <1>2, <1>3, <1>4, <1>5, <1>6, <1>7, <1>8, <1>9, <1>10, <1>11, <1>12, <1>13 DEF TW!Next

\* A Report is of one step, and the steps of an executor agree on whether there are Reports.
LEMMA TargetsImplies == TargetsInv => TW!TypeOK /\ TW!ReportOfOneStep /\ TW!OneMode
<1> SUFFICES ASSUME TargetsInv PROVE TW!TypeOK /\ TW!OneMode
  BY DEF TargetsInv
<1>1. TW!OneMode
  BY DEF TargetsInv, ChildFacts, TW!OneMode, TW!probed
<1>2. /\ {report.by, report.scope} \subseteq Children \cup {"nobody"} /\ report.meta \in 0 .. MaxOthers
  BY TargetsAssumption DEF TargetsInv, ReportState
<1>3. \A c \in Children :
       /\ child[c].pc \in {"idle", "get", "patch", "outputs", "probe", "dataOutputs", "create",
                           "getReport", "update", "done", "data", "failed"}
       /\ child[c].ask \in [Paths -> TW!Operations]
       /\ child[c].copy \in [Paths -> TW!Values] \cup {TW!Gone}
  BY DEF TargetsInv, ChildState
<1> QED
  BY <1>1, <1>2, <1>3 DEF TargetsInv, TW!TypeOK, Answers

\* A patch changes the fields the step names and no other.
LEMMA PatchAsked ==
  ASSUME TargetsInv, TW!Next PROVE TW!OnlyWhatIsAsked
<1> SUFFICES ASSUME NEW c \in Children, child[c].pc = "patch", child'[c].pc = "outputs", NEW p \in Paths
             PROVE  IF child[c].ask[p] \in {"none", "test"} THEN target'[p] = target[p]
                    ELSE TW!wanted(child[c].ask[p]) \in {target'[p], child[c].copy[p]}
  BY DEF TW!OnlyWhatIsAsked
<1>0. child \in [Children -> ChildState]
  BY DEF TargetsInv
<1>1. ASSUME NEW d \in Children, d # c, child' = [child EXCEPT ![d] = child'[d]] PROVE FALSE
  BY <1>0, <1>1
<1>2. ASSUME child' = child PROVE FALSE
  BY <1>2
<1>3. TW!Patch(c)
  <2>2. ~TW!Others
    BY <1>2 DEF TW!Others
  <2>3. PICK d \in Children :
       \/ TW!Start(d) \/ TW!Fails(d) \/ TW!MutateGet(d) \/ TW!Patch(d) \/ TW!Outputs(d)
       \/ TW!Probe(d) \/ TW!Probed(d) \/ TW!DataOutputs(d)
       \/ TW!CreateReport(d) \/ TW!GetReport(d) \/ TW!UpdateReport(d)
    BY <2>2 DEF TW!Next
  <2>4. CASE d = c
    <3>1. ~TW!Fails(c)
      BY <1>0 DEF TW!Fails, TW!goTo, ChildState
    <3>2. ~(TW!Start(c) \/ TW!MutateGet(c) \/ TW!Outputs(c) \/ TW!Probe(c) \/ TW!Probed(c) \/ TW!DataOutputs(c)
            \/ TW!CreateReport(c) \/ TW!GetReport(c) \/ TW!UpdateReport(c))
      BY DEF TW!Start, TW!MutateGet, TW!Outputs, TW!Probe, TW!Probed, TW!DataOutputs,
         TW!CreateReport, TW!GetReport, TW!UpdateReport
    <3> QED BY <2>3, <2>4, <3>1, <3>2
  <2>5. CASE d # c
    <3>1. child'[c] = child[c]
      <4>0. \A pc : TW!goTo(d, pc) => child'[c] = child[c]
        BY <1>0, <2>5 DEF TW!goTo
      <4>1. CASE TW!Start(d)
        BY <1>0, <2>5, <4>1 DEF TW!Start
      <4>2. CASE TW!MutateGet(d)
        BY <1>0, <2>5, <4>0, <4>2 DEF TW!MutateGet
      <4>3. CASE TW!GetReport(d)
        BY <1>0, <2>5, <4>0, <4>3 DEF TW!GetReport
      <4>4. CASE TW!Fails(d) \/ TW!Patch(d) \/ TW!Outputs(d) \/ TW!DataOutputs(d)
        BY <4>0, <4>4 DEF TW!Fails, TW!Patch, TW!Outputs, TW!DataOutputs
      <4>5. CASE TW!Probed(d)
        BY <4>0, <4>5 DEF TW!Probed, TargetsInv, ChildFacts, TW!probed, Answers
      <4>6. CASE TW!CreateReport(d) \/ TW!UpdateReport(d)
        BY <4>0, <4>6 DEF TW!CreateReport, TW!UpdateReport
      <4>7. CASE TW!Probe(d)
        BY <4>7 DEF TW!Probe
      <4> QED BY <2>3, <4>1, <4>2, <4>3, <4>4, <4>5, <4>6, <4>7
    <3> QED BY <3>1
  <2> QED BY <2>4, <2>5
<1>4. child[c].kind = "JSONPatch" \/ (child[c].kind = "ApplyConfiguration" /\ child[c].ask[p] # "test")
  BY DEF TargetsInv, ChildFacts
<1>5. CASE ~TW!sent(c)
  BY <1>3, <1>4, <1>5 DEF TW!Patch, TW!sent
<1>6. CASE TW!sent(c)
  <2>1. TW!accepted(c)
    BY <1>0, <1>3, <1>6 DEF TW!Patch, TW!goTo
  <2>2. target' = IF child[c].kind = "JSONPatch" THEN TW!jsonPatch(c) ELSE TW!applyPatch(c)
    BY <1>3, <1>6, <2>1 DEF TW!Patch
  <2>3. CASE child[c].kind = "JSONPatch"
    BY <2>2, <2>3 DEF TW!jsonPatch
  <2>4. CASE child[c].kind # "JSONPatch"
    BY <1>4, <2>2, <2>4 DEF TW!applyPatch, TW!mergePaths, TW!deepMergeMap
  <2> QED BY <2>3, <2>4
<1> QED BY <1>5, <1>6

\* An update of the report keeps what others wrote into its metadata.
LEMMA MetadataStays ==
  ASSUME TargetsInv, TW!Next PROVE TW!MetadataKept
<1> SUFFICES ASSUME report.by # "nobody", report'.by # "nobody" PROVE report'.meta >= report.meta
  BY DEF TW!MetadataKept
<1>0. report \in ReportState /\ report.meta \in Nat
  BY DEF TargetsInv, ReportState
<1>1. CASE TW!Others
  <2> DEFINE m == [report EXCEPT !.meta = @ + 1, !.version = @ + 1]
             n == [TW!NoReport EXCEPT !.version = report.version + 1]
  <2>1. report' \in {report, m, n}
    BY <1>1 DEF TW!Others
  <2>2. m.meta = report.meta + 1 /\ n.by = "nobody"
    BY <1>0 DEF TW!NoReport, ReportState
  <2> HIDE DEF m, n
  <2> QED BY <1>0, <2>1, <2>2
<1>2. ASSUME NEW c \in Children, TW!UpdateReport(c) PROVE report'.meta >= report.meta
  <2>1. CASE report' = report
    BY <1>0, <2>1
  <2>2. CASE report' = TW!updated(c) /\ report.version = child[c].found.version
    <3>1. child[c].found = report
      BY <1>2, <2>2 DEF TW!UpdateReport, TargetsInv, ChildFacts
    <3>2. report'.meta = report.meta
      BY <1>0, <2>2, <3>1 DEF TW!updated, ReportState
    <3> QED BY <1>0, <3>2
  <2> QED BY <1>2, <2>1, <2>2 DEF TW!UpdateReport
<1>3. ASSUME NEW c \in Children, TW!CreateReport(c) PROVE report'.meta >= report.meta
  <2>1. report' = report
    BY <1>3 DEF TW!CreateReport
  <2> QED BY <1>0, <2>1
<1>4. ASSUME report' = report PROVE report'.meta >= report.meta
  BY <1>0, <1>4
<1> QED
  BY <1>1, <1>2, <1>3, <1>4 DEF TW!Next, TW!Start, TW!Fails, TW!MutateGet, TW!Patch, TW!Outputs, TW!Probe,
     TW!Probed, TW!DataOutputs, TW!GetReport

\* Both, of every step of the component.
LEMMA TargetsKeep ==
  TargetsInv /\ [TW!Next]_targetsVars => [TW!OnlyWhatIsAsked /\ TW!MetadataKept]_targetsVars
  BY PatchAsked, MetadataStays

\* The mutate and report steps of a run: a mutate step undoes nothing it does not ask
\* for, what others put into a Report's metadata stays, a Report is of one step and the
\* steps of one executor agree on whether there are Reports: for every number of steps,
\* of executors and of paths.
THEOREM WritesSound ==
  TW!Spec => /\ [](TW!TypeOK /\ TW!ReportOfOneStep /\ TW!OneMode)
             /\ [][TW!OnlyWhatIsAsked /\ TW!MetadataKept]_TW!targetVars
<1> DEFINE OK == TW!TypeOK /\ TW!ReportOfOneStep /\ TW!OneMode
           Kept == TW!OnlyWhatIsAsked /\ TW!MetadataKept
<1>1. /\ [TW!Next]_targetsVars <=> [TW!Next]_TW!targetVars
      /\ [Kept]_targetsVars <=> [Kept]_TW!targetVars
  BY DEF targetsVars, TW!targetVars
<1>2. TargetsInv => OK
  BY TargetsImplies
<1>3. TargetsInv /\ [TW!Next]_targetsVars => [Kept]_targetsVars
  BY TargetsKeep
<1> HIDE DEF OK, Kept
<1>4. TW!Spec => []OK /\ [][Kept]_TW!targetVars
  BY <1>1, <1>2, <1>3, TargetsInit, TargetsStep, PTL DEF TW!Spec
<1> QED BY <1>4 DEF OK, Kept

\* The same of the writes as MCSafety runs them.
THEOREM TargetsPart == PartsSpec => TargetsSound
<1> DEFINE PartInv == part = "targets" => TargetsInv
           OK == part = "targets" => TW!ReportOfOneStep /\ TW!OneMode
           Kept == part = "targets" => TW!OnlyWhatIsAsked /\ TW!MetadataKept
<1>1. PartsInit => PartInv
  BY TargetsInit DEF PartsInit
<1>2. [PartsNext]_allVars => part' = part /\ (part = "targets" => [TW!Next]_targetsVars)
  BY DEF PartsNext, allVars, only
<1>3. PartInv /\ [PartsNext]_allVars => PartInv'
  BY <1>2, TargetsStep
<1>4. PartInv => OK
  BY TargetsImplies
<1>5. PartInv /\ [PartsNext]_allVars => [Kept]_allVars
  <2> SUFFICES ASSUME PartInv, PartsNext, part = "targets" PROVE TW!OnlyWhatIsAsked /\ TW!MetadataKept
    OBVIOUS
  <2>1. TargetsInv /\ TW!Next
    BY DEF PartsNext, only
  <2> QED BY <2>1, PatchAsked, MetadataStays
<1> HIDE DEF PartInv, OK, Kept
<1>6. PartsSpec => []OK /\ [][Kept]_allVars
  BY <1>1, <1>3, <1>4, <1>5, PTL DEF PartsSpec
<1> QED
  BY <1>6 DEF TargetsSound, OK, Kept

----------------------------------------------------------------------------
(* The pool of MCP clients (McpPool).  A client that was handed out is     *)
(* cached, or due to be closed only after the grace period.                *)

\* What a caller of GetClient holds.
CallerState ==
  [pc : {"idle", "reading", "gone", "storing", "holding"}, ver : Nat, yield : BOOLEAN,
   read : 0 .. MaxConfig, since : 0 .. MaxConfig, client : [id : Nat, config : 0 .. MaxConfig],
   got : Nat, calls : Nat, rounds : Nat]

\* What a caller in state p may rely on, when the server has configuration cfg.
Reading(p, cfg) ==
  /\ p.pc \in {"reading", "storing"} => p.since <= cfg
  /\ p.pc = "storing" => p.since <= p.read
  /\ p.pc = "holding" => p.since <= p.client.config

\* A client i that was handed out at time g.
HandedOut(i, g) ==
  /\ i \in 1 .. stored /\ g \in 0 .. ticks
  /\ ~shut => /\ i = cached.id => g <= lastUsed
              /\ \A r \in retired : r.id = i => g <= r.at
              /\ i \in closed => ticks - g >= Grace

\* A caller in state p holds client i since time g.
Holds(p, i, g) == p.pc = "holding" /\ p.client.id = i /\ p.got = g

\* The cached, the retired and the closed clients.
Clients ==
  /\ cached # MP!NoClient => cached.id \in 1 .. stored
  /\ \A r \in retired : r.id \in 1 .. stored
  /\ ~shut => cached.id \notin closed /\ \A r \in retired : r.id # cached.id
  /\ MP!NothingLeaks

\* What each caller has read is not newer than the server, and what it holds was
\* handed out.
CallerFacts ==
  /\ caller \in [Callers -> CallerState]
  /\ \A c \in Callers : /\ Reading(caller[c], server.config)
                        /\ \A i, g \in Nat : Holds(caller[c], i, g) => HandedOut(i, g)

\* The inductive invariant of the pool.
PoolInv == MP!TypeOK /\ Clients /\ CallerFacts

\* The pool without its callers.
Pool == MP!TypeOK /\ Clients

\* A client that is handed out now.
NewlyOut(j, t) == \A i, g \in Nat : i = j /\ g = t => HandedOut(i, g)'

\* A step of others closes nothing that a caller may still use.
StillGood == \A i, g \in Nat : HandedOut(i, g) => HandedOut(i, g)'

\* The pool is empty.
LEMMA PoolInit == MP!Init => PoolInv
<1> SUFFICES ASSUME MP!Init PROVE PoolInv
  OBVIOUS
<1> USE PoolAssumption DEF MP!Init, MP!NoClient
<1>1. MP!TypeOK
  <2>0. 1 \in 1 .. MaxConfig
    OBVIOUS
  <2>1. server \in [present : BOOLEAN, config : 1 .. MaxConfig] /\ shut \in BOOLEAN
    BY <2>0, Zenon DEF MP!Init
  <2>2. cached \in [id : 0 .. 0, config : 0 .. MaxConfig]
    OBVIOUS
  <2> QED BY <2>1, <2>2 DEF MP!TypeOK, MP!ClientIds
<1>2. Clients
  BY DEF Clients, MP!NothingLeaks
<1>3. MP!IdleCaller \in CallerState
  BY DEF CallerState, MP!IdleCaller
<1>4. MP!IdleCaller.pc = "idle"
  BY DEF MP!IdleCaller
<1>5. CallerFacts
  <2>1. caller = [c \in Callers |-> MP!IdleCaller]
    OBVIOUS
  <2> QED
    BY <1>3, <1>4, <2>1 DEF CallerFacts, Reading, Holds
<1> QED BY <1>1, <1>2, <1>5 DEF PoolInv

\* Closing the retired clients that are due.
LEMMA CloseDue ==
  ASSUME Pool, UNCHANGED <<server, cached, version, stored, dropped, ticks, shut>>,
         lastUsed' = lastUsed \/ lastUsed' = ticks,
         retired' = retired \ MP!due, closed' = closed \cup {r.id : r \in MP!due}
  PROVE  /\ Pool' /\ StillGood
         /\ cached # MP!NoClient /\ lastUsed' = ticks => NewlyOut(cached.id, ticks)
<1> USE PoolAssumption DEF Pool, MP!TypeOK, MP!ClientIds
<1>1. \A i : i \in closed' <=> i \in closed \/ \E r \in retired : r.id = i /\ ticks - r.at >= Grace
  BY DEF MP!due
<1>2. MP!TypeOK'
  <2>1. \A i \in closed' : i \in closed \/ \E r \in retired : r.id = i
    BY <1>1
  <2>2. \A r \in retired : r.id \in 1 .. stored
    BY DEF Clients
  <2>3. closed' \subseteq 1 .. stored
    BY <2>1, <2>2
  <2> QED BY <2>3
<1>3. Clients'
  <2>1. MP!NothingLeaks'
    BY DEF MP!NothingLeaks, Clients, MP!due
  <2> QED BY <1>1, <2>1 DEF Clients, MP!due
<1>4. StillGood
  <2> SUFFICES ASSUME NEW i \in Nat, NEW g \in Nat, HandedOut(i, g) PROVE HandedOut(i, g)'
    BY DEF StillGood
  <2> QED BY <1>1 DEF HandedOut, MP!due
<1>5. ASSUME cached # MP!NoClient, lastUsed' = ticks PROVE NewlyOut(cached.id, ticks)
  BY <1>1, <1>5 DEF NewlyOut, HandedOut, Clients, MP!due
<1> QED BY <1>2, <1>3, <1>4, <1>5

\* A new client takes the place of the cached one, which is retired.
LEMMA Replaces ==
  ASSUME Pool, NEW cfg \in 0 .. MaxConfig, UNCHANGED <<server, dropped, ticks, shut>>,
         retired' = (retired \ MP!due) \cup
            (IF cached = MP!NoClient THEN {} ELSE {[id |-> cached.id, at |-> ticks]}),
         closed' = closed \cup {r.id : r \in MP!due}, stored' = stored + 1,
         cached' = [id |-> stored + 1, config |-> cfg], lastUsed' = ticks, version' = version + 1
  PROVE  Pool' /\ StillGood /\ NewlyOut(stored + 1, ticks)
<1> USE PoolAssumption DEF Pool, MP!TypeOK, MP!ClientIds
<1>1. \A i : i \in closed' <=> i \in closed \/ \E r \in retired : r.id = i /\ ticks - r.at >= Grace
  BY DEF MP!due
<1>2. \A r \in retired' : r \in retired \/ (cached # MP!NoClient /\ r.id = cached.id /\ r.at = ticks)
  BY DEF MP!due
<1>a. closed' \subseteq 1 .. stored
  <2>1. \A i \in closed' : i \in closed \/ \E r \in retired : r.id = i
    BY <1>1
  <2>2. \A r \in retired : r.id \in 1 .. stored
    BY DEF Clients
  <2> QED BY <2>1, <2>2
<1>b. \A r \in retired' : r.id \in 1 .. stored
  BY <1>2 DEF Clients
<1>3. MP!TypeOK'
  <2>2. retired' \subseteq [id : 0 .. stored + 1, at : 0 .. ticks]
    BY DEF MP!due
  <2> QED BY <1>a, <2>2
<1>4. MP!NothingLeaks'
  <2> SUFFICES ASSUME NEW i \in 1 .. stored + 1, ~shut, i # stored + 1, i \notin closed'
               PROVE  \E r \in retired' : r.id = i
    BY DEF MP!NothingLeaks
  <2>1. i \in 1 .. stored /\ i \notin closed
    OBVIOUS
  <2>2. CASE i = cached.id
    <3>1. cached # MP!NoClient
      BY <2>1, <2>2 DEF MP!NoClient
    <3>2. [id |-> i, at |-> ticks] \in retired'
      BY <2>2, <3>1
    <3> QED BY <3>2
  <2>3. CASE i # cached.id
    <3>1. PICK r \in retired : r.id = i
      BY <2>1, <2>3 DEF Clients, MP!NothingLeaks
    <3>2. r \notin MP!due
      BY <3>1
    <3> QED BY <3>1, <3>2
  <2> QED BY <2>2, <2>3
<1>5. Clients'
  BY <1>4, <1>a, <1>b DEF Clients, MP!NoClient
<1>6. StillGood
  <2> SUFFICES ASSUME NEW i \in Nat, NEW g \in Nat, HandedOut(i, g) PROVE HandedOut(i, g)'
    BY DEF StillGood
  <2> QED BY <1>1, <1>2 DEF HandedOut
<1>7. NewlyOut(stored + 1, ticks)
  <2>1. stored + 1 \notin closed' /\ \A r \in retired' : r.id # stored + 1
    BY <1>a, <1>b
  <2>2. stored + 1 \in 1 .. stored' /\ ticks \in 0 .. ticks' /\ ticks <= lastUsed'
    OBVIOUS
  <2>3. ticks' = ticks /\ stored' = stored + 1
    OBVIOUS
  <2> QED BY <2>1, <2>2, <2>3 DEF NewlyOut, HandedOut
<1> QED BY <1>3, <1>5, <1>6, <1>7

\* Evict takes the cached client out and retires it.
LEMMA Removes ==
  ASSUME Pool, cached # MP!NoClient, MP!remove, UNCHANGED <<server, closed, stored, dropped, ticks, shut>>
  PROVE  Pool' /\ StillGood
<1> USE PoolAssumption DEF Pool, MP!TypeOK, MP!ClientIds, MP!remove
<1>1. \A r \in retired' : r \in retired \/ (r.id = cached.id /\ r.at = ticks)
  OBVIOUS
<1>2. MP!TypeOK'
  BY DEF MP!NoClient
<1>3. Clients'
  <2>1. MP!NothingLeaks'
    <3>1. [id |-> cached.id, at |-> ticks] \in retired' /\ retired \subseteq retired'
      OBVIOUS
    <3>2. \A i \in 1 .. stored : shut \/ i = cached.id \/ i \in closed \/ \E r \in retired : r.id = i
      BY DEF MP!NothingLeaks, Clients
    <3> QED
      BY <3>1, <3>2 DEF MP!NothingLeaks
  <2> QED BY <1>1, <2>1 DEF Clients, MP!NoClient
<1>4. StillGood
  <2> SUFFICES ASSUME NEW i \in Nat, NEW g \in Nat, HandedOut(i, g) PROVE HandedOut(i, g)'
    BY DEF StillGood
  <2> QED BY <1>1 DEF HandedOut, MP!NoClient
<1> QED BY <1>2, <1>3, <1>4

\* evictIdle keeps what was handed out within the grace period.
LEMMA Idles == ASSUME Pool, MP!EvictIdle PROVE Pool' /\ StillGood
<1> USE PoolAssumption DEF Pool, MP!TypeOK, MP!ClientIds, MP!EvictIdle
<1>1. cached.id \in 1 .. stored /\ closed' \subseteq 1 .. stored
  BY DEF Clients
<1>2. MP!TypeOK'
  BY <1>1 DEF MP!NoClient
<1>3. Clients'
  <2>1. MP!NothingLeaks'
    BY DEF MP!NothingLeaks, Clients
  <2> QED BY <2>1 DEF Clients, MP!NoClient
<1>4. StillGood
  <2> SUFFICES ASSUME NEW i \in Nat, NEW g \in Nat, HandedOut(i, g) PROVE HandedOut(i, g)'
    BY DEF StillGood
  <2> QED BY DEF HandedOut, MP!NoClient
<1> QED BY <1>2, <1>3, <1>4

\* Close takes clients out of the pool and leaves them open until they are due.
LEMMA Closes == ASSUME Pool, MP!Close PROVE Pool' /\ StillGood
<1> USE PoolAssumption DEF Pool, MP!TypeOK, MP!ClientIds, MP!Close
<1>2. MP!TypeOK'
  BY DEF Clients
<1>3. Clients'
  BY DEF Clients, MP!NothingLeaks
<1>4. StillGood
  BY DEF StillGood, HandedOut
<1> QED BY <1>2, <1>3, <1>4

\* What happens outside the pool leaves it sound.
LEMMA Elsewhere ==
  ASSUME Pool, MP!ChangeServer \/ MP!DropSession \/ MP!Tick \/ UNCHANGED <<server, cached, lastUsed, version, retired, closed, stored, dropped, ticks, shut>>
  PROVE  Pool' /\ StillGood
<1> USE PoolAssumption DEF Pool, MP!TypeOK, MP!ClientIds, MP!ChangeServer, MP!DropSession, MP!Tick
<1>1. server' \in [present : BOOLEAN, config : 1 .. MaxConfig]
  OBVIOUS
<1>t. ticks' \in 0 .. MaxTicks /\ lastUsed' \in 0 .. ticks' /\ dropped' \subseteq 1 .. stored
      /\ retired' \subseteq [id : 0 .. stored, at : 0 .. ticks']
  <2>1. ticks' \in 0 .. MaxTicks /\ ticks <= ticks'
    OBVIOUS
  <2>2. lastUsed' = lastUsed /\ retired' = retired /\ dropped' \subseteq 1 .. stored
    OBVIOUS
  <2> QED BY <2>1, <2>2
<1>2. MP!TypeOK'
  <2>1. /\ cached' \in [id : 0 .. stored', config : 0 .. MaxConfig] /\ version' \in Nat /\ stored' \in Nat
        /\ closed' \subseteq 1 .. stored' /\ stored' = stored
    OBVIOUS
  <2>2. shut' \in BOOLEAN
    OBVIOUS
  <2> QED BY <1>1, <1>t, <2>1, <2>2
<1>3. Clients'
  BY DEF Clients, MP!NothingLeaks
<1>4. StillGood
  BY DEF StillGood, HandedOut
<1> QED BY <1>2, <1>3, <1>4

\* A step of caller c.
LEMMA OneCaller ==
  ASSUME PoolInv, Pool', StillGood, server' = server, NEW c \in Callers, NEW q \in CallerState,
         caller' = [caller EXCEPT ![c] = q], Reading(q, server.config),
         \A i, g \in Nat : Holds(q, i, g) => HandedOut(i, g)'
  PROVE  PoolInv'
<1>1. caller' \in [Callers -> CallerState]
  BY DEF PoolInv, CallerFacts
<1>2. ASSUME NEW d \in Callers
      PROVE  /\ Reading(caller'[d], server.config)
             /\ \A i, g \in Nat : Holds(caller'[d], i, g) => HandedOut(i, g)'
  <2>1. CASE d = c
    BY <2>1 DEF PoolInv, CallerFacts
  <2>2. CASE d # c
    <3>1. caller'[d] = caller[d] /\ caller[d] \in CallerState
      BY <2>2 DEF PoolInv, CallerFacts
    <3> QED
      BY <3>1 DEF PoolInv, CallerFacts, StillGood
  <2> QED BY <2>1, <2>2
<1> QED
  BY <1>1, <1>2 DEF PoolInv, CallerFacts, Pool

\* A step of the pool or of its surroundings.
LEMMA NoCaller ==
  ASSUME PoolInv, Pool', StillGood, caller' = caller, server.config <= server'.config, server'.config \in Nat
  PROVE  PoolInv'
<1>0. server.config \in Nat
  BY PoolAssumption DEF PoolInv, MP!TypeOK
<1>1. ASSUME NEW d \in Callers
      PROVE  /\ Reading(caller[d], server'.config)
             /\ \A i, g \in Nat : Holds(caller[d], i, g) => HandedOut(i, g)'
  <2>1. caller[d] \in CallerState
    BY DEF PoolInv, CallerFacts
  <2>2. caller[d].client.id \in Nat /\ caller[d].got \in Nat /\ caller[d].since \in Nat
    BY <2>1, PoolAssumption DEF CallerState
  <2>3. Reading(caller[d], server'.config)
    BY <1>0, <2>2 DEF PoolInv, CallerFacts, Reading
  <2> QED
    BY <2>2, <2>3 DEF PoolInv, CallerFacts, StillGood
<1> QED
  BY <1>1 DEF PoolInv, CallerFacts, Pool

\* Every step of the callers, the evictions and the cluster keeps it.
LEMMA PoolStep == PoolInv /\ [MP!Next]_mcpVars => PoolInv'
<1> SUFFICES ASSUME PoolInv, [MP!Next]_mcpVars PROVE PoolInv'
  OBVIOUS
<1>p. Pool /\ server.config \in 1 .. MaxConfig
  BY DEF PoolInv, Pool, MP!TypeOK
<1>1. ASSUME NEW c \in Callers, MP!CallerStep(c) PROVE PoolInv'
  <2> DEFINE p == caller[c]
  <2>0. p \in CallerState /\ Reading(p, server.config) /\ caller \in [Callers -> CallerState]
    BY DEF PoolInv, CallerFacts
  <2>i. /\ MP!IdleCaller \in CallerState
        /\ MP!done(c) \in CallerState /\ Reading(MP!done(c), server.config) /\ MP!done(c).pc = "idle"
        /\ \A i, g : ~Holds(MP!done(c), i, g)
    <3>1. MP!IdleCaller \in CallerState /\ MP!IdleCaller.pc = "idle" /\ p.calls \in Nat
      BY <2>0, PoolAssumption DEF CallerState, MP!IdleCaller, MP!NoClient
    <3>2. MP!done(c) \in CallerState /\ MP!done(c).pc = "idle"
      BY <3>1 DEF CallerState, MP!done
    <3> QED BY <3>1, <3>2 DEF Reading, Holds
  <2>1. CASE MP!Begin(c)
    <3> DEFINE q == [MP!IdleCaller EXCEPT !.pc = "reading", !.ver = version, !.since = server.config,
                                         !.calls = p.calls + 1]
    <3>1. q.pc = "reading" /\ q.since = server.config
      BY DEF MP!IdleCaller
    <3>2. q \in CallerState
      <4>1. version \in Nat /\ p.calls + 1 \in Nat /\ server.config \in 0 .. MaxConfig
        BY <1>p, <2>0, PoolAssumption DEF Pool, MP!TypeOK, CallerState
      <4> QED
        BY <2>i, <4>1 DEF CallerState
    <3>3. caller' = [caller EXCEPT ![c] = q] /\ server' = server
      BY <2>1 DEF MP!Begin
    <3>4. Pool' /\ StillGood
      BY <1>p, <2>1, Elsewhere DEF MP!Begin
    <3>5. Reading(q, server.config)
      <4> HIDE DEF q
      <4> QED
        BY <1>p, <3>1, PoolAssumption DEF Reading
    <3> HIDE DEF q
    <3> QED BY <3>1, <3>2, <3>3, <3>4, <3>5, OneCaller DEF Holds
  <2>2. CASE MP!Read(c)
    <3> DEFINE q == [p EXCEPT !.pc = "storing", !.read = server.config]
    <3>1. q.pc = "storing" /\ q.read = server.config /\ q.since = p.since
      BY <2>0 DEF CallerState
    <3>2. q \in CallerState
      <4>1. server.config \in 0 .. MaxConfig
        BY <1>p, PoolAssumption
      <4> QED BY <2>0, <4>1 DEF CallerState
    <3>3. caller' = [caller EXCEPT ![c] = q] /\ server' = server /\ p.pc = "reading"
      BY <2>0, <2>2 DEF MP!Read
    <3>4. Pool' /\ StillGood
      BY <1>p, <2>2, Elsewhere DEF MP!Read
    <3> HIDE DEF q
    <3>5. Reading(q, server.config)
      BY <2>0, <3>1, <3>3 DEF Reading
    <3> QED BY <3>1, <3>2, <3>3, <3>4, <3>5, OneCaller DEF Holds
  <2>3. CASE MP!ReadFails(c)
    <3>1. Pool' /\ StillGood /\ server' = server
      BY <1>p, <2>3, Elsewhere DEF MP!ReadFails
    <3>2. CASE server.present
      <4>1. caller' = [caller EXCEPT ![c] = MP!done(c)]
        BY <2>3, <3>2 DEF MP!ReadFails
      <4> QED BY <2>i, <3>1, <4>1, OneCaller
    <3>3. CASE ~server.present
      <4> DEFINE q == [p EXCEPT !.pc = "gone"]
      <4>1. q \in CallerState /\ q.pc = "gone"
        BY <2>0 DEF CallerState
      <4>2. caller' = [caller EXCEPT ![c] = q]
        BY <2>0, <2>3, <3>3 DEF MP!ReadFails
      <4> HIDE DEF q
      <4>3. Reading(q, server.config)
        BY <4>1 DEF Reading
      <4> QED BY <3>1, <4>1, <4>2, <4>3, OneCaller DEF Holds
    <3> QED BY <3>2, <3>3
  <2>4. CASE MP!EvictGone(c)
    <3>1. Pool' /\ StillGood
      <4>1. CASE cached # MP!NoClient
        BY <1>p, <2>4, <4>1, Removes DEF MP!EvictGone
      <4>2. CASE cached = MP!NoClient
        <5> USE <2>4, <4>2 DEF MP!EvictGone, Pool
        <5>1. MP!TypeOK'
          BY <1>p DEF MP!TypeOK, MP!ClientIds
        <5>2. Clients'
          BY <1>p DEF Clients, MP!NothingLeaks
        <5>3. StillGood
          BY DEF StillGood, HandedOut
        <5> QED BY <5>1, <5>2, <5>3
      <4> QED BY <4>1, <4>2
    <3>2. caller' = [caller EXCEPT ![c] = MP!done(c)] /\ server' = server
      BY <2>4 DEF MP!EvictGone
    <3> QED BY <2>i, <3>1, <3>2, OneCaller
  <2>5. CASE MP!Reuse(c)
    <3> DEFINE q == [p EXCEPT !.pc = "holding", !.client = cached, !.got = ticks]
    <3>1. q.pc = "holding" /\ q.client = cached /\ q.got = ticks /\ q.since = p.since
      BY <2>0 DEF CallerState
    <3>2. q \in CallerState
      <4>1. cached \in [id : Nat, config : 0 .. MaxConfig] /\ ticks \in Nat
        BY <1>p, PoolAssumption DEF Pool, MP!TypeOK, MP!ClientIds
      <4> QED BY <2>0, <4>1 DEF CallerState
    <3>3. caller' = [caller EXCEPT ![c] = q] /\ server' = server /\ p.pc = "storing"
      BY <2>0, <2>5 DEF MP!Reuse, MP!handOut
    <3>4. Pool' /\ StillGood /\ NewlyOut(cached.id, ticks)
      BY <1>p, <2>5, CloseDue DEF MP!Reuse
    <3>6. cached.config = p.read
      BY <2>5 DEF MP!Reuse
    <3> HIDE DEF q
    <3>5. Reading(q, server.config)
      BY <2>0, <3>1, <3>3, <3>6 DEF Reading
    <3>7. \A i, g \in Nat : Holds(q, i, g) => HandedOut(i, g)'
      BY <3>1, <3>4 DEF Holds, NewlyOut
    <3> QED BY <3>2, <3>3, <3>4, <3>5, <3>7, OneCaller
  <2>6. CASE MP!Superseded(c)
    <3> DEFINE q == [p EXCEPT !.pc = "reading", !.yield = FALSE, !.ver = version]
    <3>1. q.pc = "reading" /\ q.since = p.since
      BY <2>0 DEF CallerState
    <3>2. q \in CallerState
      <4>1. version \in Nat
        BY <1>p DEF Pool, MP!TypeOK
      <4> QED BY <2>0, <4>1 DEF CallerState
    <3>3. caller' = [caller EXCEPT ![c] = q] /\ server' = server /\ p.pc = "storing"
      BY <2>0, <2>6 DEF MP!Superseded
    <3>4. Pool' /\ StillGood
      BY <1>p, <2>6, CloseDue DEF MP!Superseded
    <3> HIDE DEF q
    <3>5. Reading(q, server.config)
      BY <2>0, <3>1, <3>3 DEF Reading
    <3> QED BY <3>1, <3>2, <3>3, <3>4, <3>5, OneCaller DEF Holds
  <2>7. CASE MP!Store(c)
    <3> DEFINE new == [id |-> stored + 1, config |-> p.read]
               q == [p EXCEPT !.pc = "holding", !.client = new, !.got = ticks]
    <3>1. q.pc = "holding" /\ q.client = new /\ q.got = ticks /\ q.since = p.since
          /\ new.config = p.read /\ new.id = stored + 1
      BY <2>0 DEF CallerState
    <3>2. q \in CallerState
      <4>1. new \in [id : Nat, config : 0 .. MaxConfig] /\ ticks \in Nat
        BY <1>p, <2>0, PoolAssumption DEF Pool, MP!TypeOK, CallerState
      <4> HIDE DEF new
      <4> QED BY <2>0, <4>1 DEF CallerState
    <3>3. caller' = [caller EXCEPT ![c] = q] /\ server' = server /\ p.pc = "storing"
      BY <2>0, <2>7 DEF MP!Store, MP!handOut
    <3>4. Pool' /\ StillGood /\ NewlyOut(stored + 1, ticks)
      <4>1. p.read \in 0 .. MaxConfig
        BY <2>0 DEF CallerState
      <4> QED
        BY <1>p, <2>7, <4>1, Replaces DEF MP!Store
    <3> HIDE DEF q, new
    <3>5. Reading(q, server.config)
      BY <2>0, <3>1, <3>3 DEF Reading
    <3>6. \A i, g \in Nat : Holds(q, i, g) => HandedOut(i, g)'
      BY <3>1, <3>4 DEF Holds, NewlyOut
    <3> QED BY <3>2, <3>3, <3>4, <3>5, <3>6, OneCaller
  <2>8. CASE MP!Use(c) \/ MP!UseClosed(c)
    <3>1. Pool' /\ StillGood /\ server' = server
      BY <1>p, <2>8, Elsewhere DEF MP!Use, MP!UseClosed
    <3>2. CASE caller' = [caller EXCEPT ![c] = MP!done(c)]
      BY <2>i, <3>1, <3>2, OneCaller
    <3>3. CASE caller' = [caller EXCEPT ![c].rounds = @ + 1]
      <4> DEFINE q == [p EXCEPT !.rounds = @ + 1]
      <4>1. q \in CallerState /\ q.pc = p.pc /\ q.since = p.since /\ q.read = p.read
            /\ q.client = p.client /\ q.got = p.got
        BY <2>0 DEF CallerState
      <4>2. caller' = [caller EXCEPT ![c] = q]
        BY <2>0, <3>3
      <4> HIDE DEF q
      <4>3. Reading(q, server.config)
        BY <2>0, <4>1 DEF Reading
      <4>4. \A i, g \in Nat : Holds(q, i, g) => HandedOut(i, g)'
        <5>1. \A i, g \in Nat : Holds(q, i, g) => Holds(caller[c], i, g)
          BY <4>1 DEF Holds
        <5> QED
          BY <3>1, <5>1 DEF PoolInv, CallerFacts, StillGood
      <4> QED BY <3>1, <4>1, <4>2, <4>3, <4>4, OneCaller
    <3> QED BY <2>8, <3>2, <3>3 DEF MP!Use, MP!UseClosed
  <2>9. CASE MP!UseDropped(c)
    <3>1. Pool' /\ StillGood
      <4>1. CASE cached # MP!NoClient /\ cached.id = p.client.id
        BY <1>p, <2>9, <4>1, Removes DEF MP!UseDropped
      <4>2. CASE ~(cached # MP!NoClient /\ cached.id = p.client.id)
        BY <1>p, <2>9, <4>2, Elsewhere DEF MP!UseDropped
      <4> QED BY <4>1, <4>2
    <3>2. caller' = [caller EXCEPT ![c] = MP!done(c)] /\ server' = server
      BY <2>9 DEF MP!UseDropped
    <3> QED BY <2>i, <3>1, <3>2, OneCaller
  <2> QED
    BY <1>1, <2>1, <2>2, <2>3, <2>4, <2>5, <2>6, <2>7, <2>8, <2>9 DEF MP!CallerStep
<1>2. CASE MP!EvictIdle
  <2>1. caller' = caller /\ server' = server
    BY <1>2 DEF MP!EvictIdle
  <2> QED BY <1>2, <1>p, <2>1, Idles, NoCaller, PoolAssumption
<1>3. CASE MP!Close
  <2>1. caller' = caller /\ server' = server
    BY <1>3 DEF MP!Close
  <2> QED BY <1>3, <1>p, <2>1, Closes, NoCaller, PoolAssumption
<1>4. CASE MP!ChangeServer \/ MP!DropSession \/ MP!Tick \/ UNCHANGED mcpVars
  <2>1. caller' = caller
    BY <1>4 DEF MP!ChangeServer, MP!DropSession, MP!Tick, mcpVars
  <2>2. server.config <= server'.config /\ server'.config \in Nat
    BY <1>4, <1>p, PoolAssumption DEF MP!ChangeServer, MP!DropSession, MP!Tick, mcpVars
  <2>3. Pool' /\ StillGood
    BY <1>4, <1>p, Elsewhere DEF mcpVars
  <2> QED BY <2>1, <2>2, <2>3, NoCaller
<1> QED
  BY <1>1, <1>2, <1>3, <1>4 DEF MP!Next

\* It gives the promises of the pool.
LEMMA PoolImplies == PoolInv => MP!PoolSound
<1> SUFFICES ASSUME PoolInv PROVE MP!PoolSound
  OBVIOUS
<1>1. MP!FreshAnswer
  <2> SUFFICES ASSUME NEW c \in Callers, caller[c].pc = "holding"
               PROVE  caller[c].client.config >= caller[c].since
    BY DEF MP!FreshAnswer
  <2>1. caller[c].since <= caller[c].client.config /\ caller[c] \in CallerState
    BY DEF PoolInv, CallerFacts, Reading
  <2>2. caller[c].since \in Nat /\ caller[c].client.config \in Nat
    BY <2>1, PoolAssumption DEF CallerState
  <2> QED BY <2>1, <2>2
<1>2. MP!GraceKept
  <2>1. \A c \in Callers : caller[c].client.id \in Nat /\ caller[c].got \in Nat
    BY DEF PoolInv, CallerFacts, CallerState
  <2>2. \A c \in Callers : caller[c].pc = "holding" => HandedOut(caller[c].client.id, caller[c].got)
    BY <2>1 DEF PoolInv, CallerFacts, Holds
  <2> QED BY <2>2 DEF MP!GraceKept, HandedOut
<1>3. MP!CachedIsOpen /\ MP!NothingLeaks
  BY DEF MP!CachedIsOpen, PoolInv, Clients
<1> QED BY <1>1, <1>2, <1>3 DEF MP!PoolSound

\* The MCP client pool: GetClient does not answer with an older configuration than the
\* server had when the call began, no client is closed under a caller within the grace
\* period, none that is cached is closed and none is lost: for every number of callers,
\* of configurations and every grace period.
THEOREM PoolIsSound == MP!Spec => []MP!PoolSound
<1>1. [MP!Next]_mcpVars <=> [MP!Next]_MP!poolVars
  BY DEF mcpVars, MP!poolVars
<1> QED
  BY <1>1, PoolInit, PoolStep, PoolImplies, PTL DEF MP!Spec

\* The same of the pool as MCSafety runs it.
THEOREM ClientsSound == PartsSpec => []PoolSound
<1> DEFINE PartInv == part = "mcp" => PoolInv
<1>1. PartsInit => PartInv
  BY PoolInit DEF PartsInit
<1>2. [PartsNext]_allVars => part' = part /\ (part = "mcp" => [MP!Next]_mcpVars)
  BY DEF PartsNext, allVars, only
<1>3. PartInv /\ [PartsNext]_allVars => PartInv'
  BY <1>2, PoolStep
<1>4. PartInv => PoolSound
  BY PoolImplies DEF PoolSound
<1> QED
  BY <1>1, <1>3, <1>4, PTL DEF PartsSpec

----------------------------------------------------------------------------
(* Finished runs (FinishedRuns).  The cache follows the runs, so what it   *)
(* shows as newer and finished was so, and the reason to delete a run      *)
(* outlives the deletion of others.                                        *)

\* A run has ended, though it may be deleted meanwhile.
Over(p) == p.phase \in {"done", "deleted"}

\* The finished runs that are newer than x are enough of them to delete x.
Newer(runs, x) == {s \in Runs : runs[s].phase = "done" /\ runs[s].time > runs[x].time}

\* Why the policy may delete a run: it is too old, or enough newer ones are kept.
Cause(runs, c, x) ==
  \/ runs[x].time + Retention < c
  \/ Cardinality(Newer(runs, x)) >= MaxAllowed

\* Only one run ends in a second, and in the past.
Times(runs, c) ==
  /\ \A x \in Runs : runs[x].time < c
  /\ \A x, y \in Runs : runs[x].time = runs[y].time /\ runs[x].time # 0 => x = y

\* What the cache says of a run.
Follows(run, shown) ==
  /\ Over(shown) => Over(run)
  /\ shown.time # 0 => run.time = shown.time

\* What the metrics have counted of a run; an end they are yet to see is not counted.
Tallied(run, shown, n, e) ==
  n <= e /\ (shown.phase = "active" /\ run.phase = "done" => n < e)

\* A run that was not written again has ended at most once.
EndsOnce(run, e) == e <= 1 /\ (run.phase = "active" => e = 0)

\* What has a completion time has nothing else to wait for.
Ended(run) == run.time # 0 => Over(run)

\* The runs the policy has listed have ended, with the times it has read.
Listed(p, runs) ==
  \A x \in DOMAIN p.todo :
    /\ Over(runs[x])
    /\ p.todo[x] # 0 => p.todo[x] = runs[x].time
    /\ p.pc = "retention" => p.todo[x] # 0

\* As long as no run gets its completion time late.
NotLate(runs, copies, p, c) ==
  /\ \A x \in Runs : copies[x].phase = "done" => copies[x].time = runs[x].time
  /\ \A x \in DOMAIN p.todo : p.todo[x] = runs[x].time
  /\ \A x \in Runs :
       runs[x].time # 0 /\ (runs[x].phase = "deleted" \/ x \in DOMAIN p.todo) => Cause(runs, c, x)

\* Lists of runs with the times read.
Todos == UNION {[S -> Nat] : S \in SUBSET Runs}

\* What the policy loop holds.
Policy == [pc : {"idle", "retention", "excess"}, current : SUBSET Runs, todo : Todos]

\* Runs, their copies in the cache, the ends so far and the policy while no run has
\* been written again.
Regular(runs, copies, e, p, c) ==
  /\ Times(runs, c)
  /\ \A x \in Runs : Follows(runs[x], copies[x]) /\ Ended(runs[x]) /\ EndsOnce(runs[x], e[x])
  /\ Listed(p, runs)
  /\ NotLate(runs, copies, p, c)

\* The inductive invariant of the run policy.
FinishedInv ==
  /\ FR!TypeOK /\ clock \in 1 .. MaxClock /\ late \in BOOLEAN
  /\ policy \in Policy
  /\ policy.pc = "idle" => DOMAIN policy.todo = {}
  /\ \A x \in Runs : Tallied(wfRun[x], wfCache[x], counted[x], ends[x])
  /\ ~late => Regular(wfRun, wfCache, ends, policy, clock)

\* The component's Cardinality is that of FiniteSets.
LEMMA SameCount == \A S : FR!Cardinality(S) = Cardinality(S)
  BY DEF FR!Cardinality, Cardinality

\* The newer runs can be counted.
LEMMA NewerFinite ==
  \A runs, x : IsFiniteSet(Newer(runs, x)) /\ Cardinality(Newer(runs, x)) \in Nat
<1> TAKE runs, x
<1>1. Newer(runs, x) \subseteq Runs
  BY DEF Newer
<1> QED BY <1>1, FinishedAssumption, FS_Subset, FS_CardinalityType

\* A set of finished runs that are newer than x is a reason to delete x.
LEMMA MoreNewer ==
  ASSUME NEW runs, NEW after, NEW x, NEW y, Newer(runs, x) \subseteq Newer(after, y)
  PROVE  /\ Cardinality(Newer(runs, x)) <= Cardinality(Newer(after, y))
         /\ Cardinality(Newer(runs, x)) >= MaxAllowed => Cardinality(Newer(after, y)) >= MaxAllowed
<1>1. Cardinality(Newer(runs, x)) <= Cardinality(Newer(after, y))
  BY NewerFinite, FS_Subset
<1> QED BY <1>1, NewerFinite, FinishedAssumption

\* A WorkflowRun as the policy sees it.
Run == [phase : {"absent", "active", "done", "deleted"}, time : 0 .. MaxClock]

\* A run that ends, or a later clock, takes nobody's cause away.
LEMMA CauseStays ==
  ASSUME NEW runs \in [Runs -> Run], NEW after \in [Runs -> Run], NEW c \in Nat, NEW d \in Nat, c <= d,
         NEW x \in Runs, after[x].time = runs[x].time, Cause(runs, c, x),
         \A s \in Runs : runs[s].phase = "done" => after[s] = runs[s]
  PROVE  Cause(after, d, x)
<1>1. Newer(runs, x) \subseteq Newer(after, x)
  BY DEF Newer
<1>2. runs[x].time \in Nat
  BY FinishedAssumption DEF Run
<1> QED BY <1>1, <1>2, MoreNewer, FinishedAssumption DEF Cause

\* Nor does the deletion of run s, which has a cause of its own or no completion time.
LEMMA CauseOutlives ==
  ASSUME NEW runs \in [Runs -> Run], NEW after, NEW c \in Nat, NEW x \in Runs, NEW s \in Runs,
         after = [runs EXCEPT ![s].phase = "deleted"],
         Cause(runs, c, x), runs[s].time # 0 => Cause(runs, c, s)
  PROVE  Cause(after, c, x)
<1>1. \A y \in Runs : after[y].time = runs[y].time /\ runs[y].time \in Nat
                      /\ (y # s => after[y] = runs[y]) /\ after[s].phase = "deleted"
  BY FinishedAssumption DEF Run
<1>2. CASE s \notin Newer(runs, x)
  <2>1. Newer(runs, x) \subseteq Newer(after, x)
    BY <1>1, <1>2 DEF Newer
  <2> QED BY <1>1, <2>1, MoreNewer DEF Cause
<1>3. CASE s \in Newer(runs, x)
  <2>1. runs[s].time > runs[x].time
    BY <1>3 DEF Newer
  <2>2. Cause(runs, c, s)
    BY <1>1, <2>1
  <2>3. CASE runs[s].time + Retention < c
    BY <1>1, <2>1, <2>3, FinishedAssumption DEF Cause
  <2>4. CASE Cardinality(Newer(runs, s)) >= MaxAllowed
    <3>1. Newer(runs, s) \subseteq Newer(after, x)
      BY <1>1, <2>1 DEF Newer
    <3> QED BY <2>4, <3>1, MoreNewer DEF Cause
  <2> QED BY <2>2, <2>3, <2>4 DEF Cause
<1> QED BY <1>2, <1>3

\* A newer run's cause is one for an older run too.
LEMMA OlderToo ==
  ASSUME NEW runs \in [Runs -> Run], NEW c \in Nat, NEW x \in Runs, NEW y \in Runs,
         runs[y].time > runs[x].time, Cause(runs, c, y)
  PROVE  Cause(runs, c, x)
<1>1. \A z \in Runs : runs[z].time \in Nat
  BY FinishedAssumption DEF Run
<1>2. Newer(runs, y) \subseteq Newer(runs, x)
  BY <1>1 DEF Newer
<1> QED BY <1>1, <1>2, MoreNewer, FinishedAssumption DEF Cause

\* Lists of runs are finite and may be empty.
LEMMA TodoLists ==
  /\ \A f \in Todos : DOMAIN f \subseteq Runs /\ \A x \in DOMAIN f : f[x] \in Nat
  /\ \A S \in SUBSET Runs : \A f \in [S -> Nat] : f \in Todos
  /\ FR!Idle \in Policy /\ FR!Idle.pc = "idle" /\ DOMAIN FR!Idle.todo = {}
<1>1. \A f \in Todos : DOMAIN f \subseteq Runs /\ \A x \in DOMAIN f : f[x] \in Nat
  BY DEF Todos
<1>2. \A S \in SUBSET Runs : \A f \in [S -> Nat] : f \in Todos
  BY DEF Todos
<1>3. <<>> \in [{} -> Nat] /\ DOMAIN <<>> = {}
  OBVIOUS
<1>4. FR!Idle \in Policy /\ FR!Idle.pc = "idle" /\ DOMAIN FR!Idle.todo = {}
  BY <1>2, <1>3, FinishedAssumption DEF FR!Idle, Policy
<1> QED BY <1>1, <1>2, <1>4

\* No run exists.
LEMMA FinishedInit == FR!Init => FinishedInv
<1> SUFFICES ASSUME FR!Init PROVE FinishedInv
  OBVIOUS
<1>1. /\ wfRun \in [Runs -> Run] /\ wfCache \in [Runs -> Run] /\ counted \in [Runs -> Nat] /\ queue = {}
      /\ ends \in [Runs -> Nat]
      /\ clock \in 1 .. MaxClock /\ clock = 1 /\ late = FALSE /\ policy = FR!Idle
      /\ \A x \in Runs : /\ wfRun[x].phase = "active" /\ wfRun[x].time = 0 /\ counted[x] = 0 /\ ends[x] = 0
                         /\ wfCache[x].phase \in {"absent", "active"} /\ wfCache[x].time = 0
  BY FinishedAssumption DEF FR!Init, Run
<1>2. policy \in Policy /\ DOMAIN policy.todo = {} /\ policy.current \subseteq Runs
  BY <1>1, TodoLists DEF Policy
<1>3. FR!TypeOK
  BY <1>1, <1>2 DEF FR!TypeOK, FR!Run, Run
<1>4. Times(wfRun, clock)
  BY <1>1 DEF Times
<1>5. \A x \in Runs : /\ Follows(wfRun[x], wfCache[x]) /\ Ended(wfRun[x]) /\ EndsOnce(wfRun[x], ends[x])
                      /\ Tallied(wfRun[x], wfCache[x], counted[x], ends[x])
  BY <1>1 DEF Follows, Ended, Over, EndsOnce, Tallied
<1>6. Listed(policy, wfRun) /\ NotLate(wfRun, wfCache, policy, clock)
  BY <1>1, <1>2 DEF Listed, NotLate
<1> QED BY <1>1, <1>2, <1>3, <1>4, <1>5, <1>6 DEF FinishedInv, Regular

\* The invariant, part by part.
LEMMA FinishedBefore ==
  ASSUME FinishedInv
  PROVE  /\ wfRun \in [Runs -> Run] /\ wfCache \in [Runs -> Run] /\ counted \in [Runs -> Nat]
         /\ ends \in [Runs -> Nat]
         /\ queue \subseteq Runs /\ clock \in 1 .. MaxClock /\ clock \in Nat /\ late \in BOOLEAN
         /\ policy \in Policy
         /\ policy.pc = "idle" => DOMAIN policy.todo = {}
         /\ policy.current \subseteq Runs /\ DOMAIN policy.todo \subseteq Runs
         /\ \A x \in Runs : Tallied(wfRun[x], wfCache[x], counted[x], ends[x])
         /\ \A x \in Runs : /\ wfRun[x] \in Run /\ wfCache[x] \in Run
                            /\ wfRun[x].time \in Nat /\ wfCache[x].time \in Nat
                            /\ counted[x] \in Nat /\ ends[x] \in Nat
  BY FinishedAssumption DEF FinishedInv, FR!TypeOK, FR!Run, Run

\* And what it says as long as no run has been written again.
LEMMA RegularBefore ==
  ASSUME FinishedInv, ~late
  PROVE  /\ Times(wfRun, clock)
         /\ \A x \in Runs : /\ Follows(wfRun[x], wfCache[x]) /\ Ended(wfRun[x])
                            /\ EndsOnce(wfRun[x], ends[x])
         /\ Listed(policy, wfRun)
         /\ NotLate(wfRun, wfCache, policy, clock)
  BY DEF FinishedInv, Regular

\* What has to be shown of a step.
LEMMA FinishedAfter ==
  ASSUME wfRun' \in [Runs -> Run], wfCache' \in [Runs -> Run], counted' \in [Runs -> Nat],
         ends' \in [Runs -> Nat],
         queue' \subseteq Runs, clock' \in 1 .. MaxClock, late' \in BOOLEAN, policy' \in Policy,
         policy'.pc = "idle" => DOMAIN policy'.todo = {},
         \A x \in Runs : Tallied(wfRun'[x], wfCache'[x], counted'[x], ends'[x]),
         ~late' => Regular(wfRun', wfCache', ends', policy', clock')
  PROVE  FinishedInv'
<1>1. DOMAIN policy'.todo \subseteq Runs /\ policy'.current \subseteq Runs
  BY TodoLists DEF Policy
<1>2. FR!TypeOK'
  BY <1>1 DEF FR!TypeOK, FR!Run, Run
<1> QED BY <1>2 DEF FinishedInv

\* The policy goes on to p, and no run changes.
LEMMA PolicyMoves ==
  ASSUME FinishedInv, UNCHANGED <<wfRun, clock, counted, ends, late>>, queue' \subseteq Runs,
         wfCache' = wfCache \/ wfCache' = wfRun,
         NEW p \in Policy, policy' = p, p.pc = "idle" => DOMAIN p.todo = {},
         ~late => Listed(p, wfRun),
         ~late => \A x \in DOMAIN p.todo :
                    /\ p.todo[x] = wfRun[x].time
                    /\ wfRun[x].time # 0 => Cause(wfRun, clock, x)
  PROVE  FinishedInv'
<1>1. wfCache' \in [Runs -> Run]
  BY FinishedBefore
<1>2. \A x \in Runs : Tallied(wfRun[x], wfCache'[x], counted[x], ends[x])
  BY FinishedBefore DEF Tallied
<1>3. ASSUME ~late PROVE Regular(wfRun, wfCache', ends, p, clock)
  <2>1. \A x \in Runs : Follows(wfRun[x], wfCache'[x])
    BY <1>3, RegularBefore DEF Follows
  <2>2. NotLate(wfRun, wfCache', p, clock)
    BY <1>3, RegularBefore DEF NotLate
  <2> QED BY <1>3, <2>1, <2>2, RegularBefore DEF Regular
<1> QED BY <1>1, <1>2, <1>3, FinishedBefore, FinishedAfter

\* An application of the policy ends.
LEMMA PolicyEnds ==
  ASSUME FinishedInv, UNCHANGED <<wfRun, clock, counted, ends, late>>, queue' \subseteq Runs,
         wfCache' = wfCache \/ wfCache' = wfRun, policy' = FR!Idle
  PROVE  FinishedInv'
<1>1. FR!Idle \in Policy /\ FR!Idle.pc = "idle" /\ DOMAIN FR!Idle.todo = {}
  BY TodoLists
<1>2. Listed(FR!Idle, wfRun)
  BY <1>1 DEF Listed
<1> QED BY <1>1, <1>2, PolicyMoves

\* A run ends.
LEMMA RunEnds ==
  ASSUME FinishedInv, NEW r \in Runs, NEW q \in Run, wfRun' = [wfRun EXCEPT ![r] = q], q.phase = "done",
         wfRun[r].phase = "active",
         \/ q.time = 0 /\ clock' = clock
         \/ q.time = clock /\ clock' = clock + 1 /\ clock < MaxClock,
         ends' = [ends EXCEPT ![r] = @ + 1],
         UNCHANGED <<wfCache, counted, queue, policy, late>>
  PROVE  FinishedInv'
<1>0. \A x \in Runs : wfRun'[x] = IF x = r THEN q ELSE wfRun[x]
  BY FinishedBefore
<1>1. wfRun' \in [Runs -> Run] /\ clock' \in 1 .. MaxClock /\ clock' \in Nat /\ clock <= clock'
  BY FinishedBefore, FinishedAssumption
<1>e. ends' \in [Runs -> Nat] /\ \A x \in Runs : ends'[x] = IF x = r THEN ends[x] + 1 ELSE ends[x]
  BY FinishedBefore
<1>t. \A x \in Runs : Tallied(wfRun'[x], wfCache[x], counted[x], ends'[x])
  BY <1>0, <1>e, FinishedBefore DEF Tallied
<1>5. ASSUME ~late PROVE Regular(wfRun', wfCache, ends', policy, clock')
  <2>a. wfRun[r].time = 0
    BY <1>5, FinishedBefore, RegularBefore DEF Ended, Over
  <2>b. Times(wfRun', clock')
    <3>1. q.time \in Nat /\ clock \in Nat /\ clock >= 1
      BY FinishedAssumption, FinishedBefore DEF Run
    <3> QED BY <1>0, <1>5, <3>1, RegularBefore, FinishedBefore DEF Times
  <2>c. \A x \in Runs : Follows(wfRun'[x], wfCache[x]) /\ Ended(wfRun'[x]) /\ EndsOnce(wfRun'[x], ends'[x])
    BY <1>0, <1>5, <1>e, RegularBefore, FinishedBefore DEF Follows, Ended, Over, EndsOnce
  <2>d. Listed(policy, wfRun')
    BY <1>0, <1>5, RegularBefore, FinishedBefore DEF Listed, Over
  <2>0. NotLate(wfRun, wfCache, policy, clock)
    BY <1>5, RegularBefore
  <2>1. r \notin DOMAIN policy.todo /\ wfCache[r].phase # "done"
    BY <1>5, RegularBefore DEF Listed, Over, Follows
  <2>2. ASSUME NEW x \in Runs, wfRun'[x].time # 0, wfRun'[x].phase = "deleted" \/ x \in DOMAIN policy.todo
        PROVE  Cause(wfRun', clock', x)
    <3>1. x # r /\ wfRun'[x] = wfRun[x]
      BY <1>0, <2>1, <2>2
    <3>2. Cause(wfRun, clock, x)
      BY <2>0, <2>2, <3>1 DEF NotLate
    <3>3. \A s \in Runs : wfRun[s].phase = "done" => wfRun'[s] = wfRun[s]
      BY <1>0
    <3> QED BY <1>1, <3>1, <3>2, <3>3, CauseStays, FinishedBefore
  <2>3. NotLate(wfRun', wfCache, policy, clock')
    BY <1>0, <2>0, <2>1, <2>2, FinishedBefore DEF NotLate
  <2> QED BY <2>3, <2>b, <2>c, <2>d DEF Regular
<1> QED BY <1>1, <1>5, <1>e, <1>t, FinishedBefore, FinishedAfter

\* The policy deletes run r from its list.
LEMMA RunDeleted ==
  ASSUME FinishedInv, NEW r \in DOMAIN policy.todo, FR!deleteRun(r),
         UNCHANGED <<wfCache, clock, counted, ends, queue, late>>
  PROVE  FinishedInv'
<1>r. r \in Runs /\ wfRun[r] \in Run
  BY FinishedBefore
<1> DEFINE q == [wfRun[r] EXCEPT !.phase = "deleted"]
<1>q. q \in Run /\ q.phase = "deleted" /\ q.time = wfRun[r].time
  BY <1>r DEF Run
<1>w. wfRun' = [wfRun EXCEPT ![r] = q] /\ wfRun' = [wfRun EXCEPT ![r].phase = "deleted"]
  BY FinishedBefore DEF FR!deleteRun
<1> HIDE DEF q
<1>0. \A x \in Runs : wfRun'[x] = IF x = r THEN q ELSE wfRun[x]
  BY <1>w, FinishedBefore
<1>1. wfRun' \in [Runs -> Run] /\ \A x \in Runs : wfRun'[x].time = wfRun[x].time
  BY <1>0, <1>q, <1>w, FinishedBefore
<1>t. \A x \in Runs : Tallied(wfRun'[x], wfCache[x], counted[x], ends[x])
  BY <1>0, <1>q, FinishedBefore DEF Tallied
<1>p. /\ policy' \in Policy
      /\ policy'.pc = "idle" => DOMAIN policy'.todo = {}
      /\ DOMAIN policy'.todo \subseteq DOMAIN policy.todo
      /\ \A x \in DOMAIN policy'.todo : policy'.todo[x] = policy.todo[x] /\ policy'.pc = policy.pc
  <2>1. CASE policy' = FR!Idle
    BY <2>1, TodoLists
  <2>2. CASE policy' = [policy EXCEPT !.todo = [s \in DOMAIN policy.todo \ {r} |-> policy.todo[s]]]
    <3> DEFINE f == [s \in DOMAIN policy.todo \ {r} |-> policy.todo[s]]
    <3>1. f \in Todos
      <4>1. policy.todo \in Todos
        BY FinishedBefore DEF Policy
      <4>2. f \in [DOMAIN policy.todo \ {r} -> Nat] /\ DOMAIN policy.todo \ {r} \in SUBSET Runs
        BY <4>1, TodoLists
      <4> QED BY <4>2, TodoLists
    <3>2. policy' \in Policy /\ policy'.pc = policy.pc /\ policy'.todo = f
      BY <2>2, <3>1, FinishedBefore DEF Policy
    <3> QED BY <3>2, FinishedBefore
  <2> QED BY <2>1, <2>2 DEF FR!deleteRun
<1>5. ASSUME ~late PROVE Regular(wfRun', wfCache, ends, policy', clock)
  <2>r. Over(wfRun[r])
    BY <1>5, RegularBefore DEF Listed
  <2>b. Times(wfRun', clock)
    BY <1>1, <1>5, RegularBefore DEF Times
  <2>c. \A x \in Runs : Follows(wfRun'[x], wfCache[x]) /\ Ended(wfRun'[x]) /\ EndsOnce(wfRun'[x], ends[x])
    BY <1>0, <1>5, <1>q, <2>r, RegularBefore DEF Follows, Ended, Over, EndsOnce
  <2>d. Listed(policy', wfRun')
    BY <1>0, <1>1, <1>5, <1>p, <1>q, RegularBefore, FinishedBefore DEF Listed, Over
  <2>0. NotLate(wfRun, wfCache, policy, clock)
    BY <1>5, RegularBefore
  <2>1. wfRun[r].time # 0 => Cause(wfRun, clock, r)
    BY <1>r, <2>0 DEF NotLate
  <2>2. ASSUME NEW x \in Runs, wfRun'[x].time # 0, wfRun'[x].phase = "deleted" \/ x \in DOMAIN policy'.todo
        PROVE  Cause(wfRun', clock, x)
    <3>1. Cause(wfRun, clock, x)
      BY <1>0, <1>1, <1>p, <2>0, <2>2 DEF NotLate
    <3> QED BY <1>r, <1>w, <2>1, <3>1, CauseOutlives, FinishedBefore
  <2>3. \A x \in Runs : wfCache[x].phase = "done" => wfCache[x].time = wfRun'[x].time
    BY <1>1, <2>0 DEF NotLate
  <2>4. \A x \in DOMAIN policy'.todo : policy'.todo[x] = wfRun'[x].time
    BY <1>1, <1>p, <2>0, FinishedBefore DEF NotLate
  <2>5. NotLate(wfRun', wfCache, policy', clock)
    BY <2>2, <2>3, <2>4 DEF NotLate
  <2> QED BY <2>5, <2>b, <2>c, <2>d DEF Regular
<1> QED BY <1>1, <1>5, <1>p, <1>t, FinishedBefore, FinishedAfter

\* What the list of runs above the limit leaves are maxAllowed newer runs, in the cache at least.
LEMMA TooManyHaveCause ==
  ASSUME FinishedInv, ~late, NEW S \in FR!tooMany, NEW x \in S, wfRun[x].time # 0
  PROVE  Cause(wfRun, clock, x)
<1> DEFINE C == FR!completed
           Rest == C \ S
<1>0. /\ C \subseteq Runs /\ S \subseteq C /\ x \in Runs
      /\ Cardinality(S) = Cardinality(C) - MaxAllowed
      /\ \A v \in S, w \in Rest : wfCache[v].time <= wfCache[w].time
      /\ \A v \in C : wfCache[v].phase = "done"
  BY SameCount DEF FR!tooMany, FR!completed
<1>1. IsFiniteSet(C) /\ IsFiniteSet(S) /\ IsFiniteSet(Rest) /\ C \cap S = S
  BY <1>0, FinishedAssumption, FS_Subset
<1>2. Cardinality(Rest) = Cardinality(C) - Cardinality(C \cap S) /\ Cardinality(C) \in Nat
  BY <1>1, FS_Difference, FS_CardinalityType
<1>3. Cardinality(Rest) = MaxAllowed
  BY <1>0, <1>1, <1>2, FinishedAssumption
<1>4. NotLate(wfRun, wfCache, policy, clock) /\ Times(wfRun, clock)
  BY RegularBefore
<1>5. ASSUME NEW y \in Rest PROVE y \in Runs /\ wfRun[y].time > wfRun[x].time /\ Over(wfRun[y])
  <2>1. y \in Runs /\ y # x /\ wfCache[x].time <= wfCache[y].time
    BY <1>0
  <2>2. wfCache[x].time = wfRun[x].time /\ wfCache[y].time = wfRun[y].time
    BY <1>0, <1>4, <2>1 DEF NotLate
  <2>3. wfRun[x].time # wfRun[y].time
    BY <1>0, <1>4, <2>1 DEF Times
  <2>4. Over(wfRun[y])
    BY <1>0, <2>1, RegularBefore DEF Follows, Over
  <2>5. wfRun[x].time \in Nat /\ wfRun[y].time \in Nat
    BY <1>0, <2>1, FinishedBefore
  <2> QED BY <2>1, <2>2, <2>3, <2>4, <2>5
<1>6. CASE \A y \in Rest : wfRun[y].phase = "done"
  <2>1. Rest \subseteq Newer(wfRun, x)
    BY <1>5, <1>6 DEF Newer
  <2>2. Cardinality(Rest) <= Cardinality(Newer(wfRun, x))
    BY <2>1, NewerFinite, FS_Subset
  <2> QED BY <1>3, <2>2, NewerFinite, FinishedAssumption DEF Cause
<1>7. CASE \E y \in Rest : wfRun[y].phase # "done"
  <2>1. PICK y \in Rest : wfRun[y].phase # "done"
    BY <1>7
  <2>2. y \in Runs /\ wfRun[y].time > wfRun[x].time /\ wfRun[y].phase = "deleted"
    BY <1>5, <2>1 DEF Over
  <2>3. wfRun[y].time # 0
    BY <1>0, <2>2, FinishedBefore
  <2>4. Cause(wfRun, clock, y)
    BY <1>4, <2>2, <2>3 DEF NotLate
  <2> QED BY <1>0, <2>2, <2>4, OlderToo, FinishedBefore
<1> QED BY <1>6, <1>7

\* Runs of the cache, listed with their completion times.
LEMMA ListedRuns ==
  ASSUME FinishedInv, NEW S \in SUBSET FR!completed
  PROVE  /\ FR!listed(S) \in Todos /\ DOMAIN FR!listed(S) = S /\ S \subseteq Runs
         /\ \A x \in S : /\ FR!listed(S)[x] = wfCache[x].time
                         /\ ~late => Over(wfRun[x]) /\ wfCache[x].time = wfRun[x].time
<1>1. S \subseteq Runs /\ \A x \in S : wfCache[x].phase = "done"
  BY DEF FR!completed
<1>2. FR!listed(S) \in [S -> Nat] /\ \A x \in S : FR!listed(S)[x] = wfCache[x].time
  BY <1>1, FinishedBefore DEF FR!listed
<1>3. \A x \in S : ~late => Over(wfRun[x]) /\ wfCache[x].time = wfRun[x].time
  BY <1>1, RegularBefore DEF Follows, Over, NotLate
<1> QED BY <1>1, <1>2, <1>3, TodoLists

\* Every step of the reconciler, the policy, the cache and the runs keeps it.
LEMMA FinishedStep == FinishedInv /\ [FR!Next]_finishedVars => FinishedInv'
<1> SUFFICES ASSUME FinishedInv, [FR!Next]_finishedVars PROVE FinishedInv'
  OBVIOUS
<1>1. ASSUME NEW r \in Runs, FR!EndRun(r) PROVE FinishedInv'
  <2>0. /\ wfRun[r].phase = "active" /\ ends' = [ends EXCEPT ![r] = @ + 1]
        /\ UNCHANGED <<wfCache, counted, queue, policy, late>>
    BY <1>1 DEF FR!EndRun
  <2>1. CASE wfRun' = [wfRun EXCEPT ![r] = [phase |-> "done", time |-> 0]] /\ UNCHANGED clock
    <3> DEFINE q == [phase |-> "done", time |-> 0]
    <3>1. q \in Run /\ q.phase = "done" /\ q.time = 0
      BY FinishedAssumption DEF Run
    <3> HIDE DEF q
    <3>2. wfRun' = [wfRun EXCEPT ![r] = q]
      BY <2>1 DEF q
    <3> QED BY <2>0, <2>1, <3>1, <3>2, RunEnds
  <2>2. CASE /\ clock < MaxClock /\ clock' = clock + 1
             /\ wfRun' = [wfRun EXCEPT ![r] = [phase |-> "done", time |-> clock]]
    <3> DEFINE q == [phase |-> "done", time |-> clock]
    <3>1. q \in Run /\ q.phase = "done" /\ q.time = clock
      BY FinishedAssumption, FinishedBefore DEF Run
    <3> HIDE DEF q
    <3>2. wfRun' = [wfRun EXCEPT ![r] = q]
      BY <2>2 DEF q
    <3> QED BY <2>0, <2>2, <3>1, <3>2, RunEnds
  <2> QED BY <1>1, <2>1, <2>2 DEF FR!EndRun
<1>2. ASSUME NEW r \in Runs, FR!EndAgain(r) PROVE FinishedInv'
  <2> DEFINE q == [wfRun[r] EXCEPT !.time = clock]
  <2>1. q \in Run /\ q.phase = "done" /\ q.time = clock
    BY <1>2, FinishedAssumption, FinishedBefore DEF Run, FR!EndAgain
  <2> HIDE DEF q
  <2>2. wfRun' = [wfRun EXCEPT ![r] = q]
    BY <1>2, FinishedBefore DEF q, FR!EndAgain
  <2>3. wfRun' \in [Runs -> Run] /\ clock' \in 1 .. MaxClock
    BY <1>2, <2>1, <2>2, FinishedBefore, FinishedAssumption DEF FR!EndAgain
  <2>4. \A x \in Runs : wfRun'[x].phase = wfRun[x].phase
    BY <1>2, <2>1, <2>2, FinishedBefore DEF FR!EndAgain
  <2>5. \A x \in Runs : Tallied(wfRun'[x], wfCache[x], counted[x], ends[x])
    BY <2>4, FinishedBefore DEF Tallied
  <2> QED BY <1>2, <2>3, <2>5, FinishedBefore, FinishedAfter DEF FR!EndAgain
<1>a. ASSUME NEW r \in Runs, FR!Revive(r) PROVE FinishedInv'
  <2> DEFINE q == [phase |-> "active", time |-> 0]
  <2>1. q \in Run /\ q.phase = "active"
    BY FinishedAssumption DEF Run
  <2>2. wfRun' = [wfRun EXCEPT ![r] = q]
    BY <1>a DEF FR!Revive
  <2> HIDE DEF q
  <2>3. wfRun' \in [Runs -> Run] /\ \A x \in Runs : wfRun'[x] = IF x = r THEN q ELSE wfRun[x]
    BY <2>1, <2>2, FinishedBefore
  <2>4. \A x \in Runs : Tallied(wfRun'[x], wfCache[x], counted[x], ends[x])
    BY <2>1, <2>3, FinishedBefore DEF Tallied
  <2> QED BY <1>a, <2>3, <2>4, FinishedBefore, FinishedAfter DEF FR!Revive
<1>3. CASE FR!Deliver
  <2>1. /\ wfCache' = wfRun /\ queue' \subseteq Runs /\ UNCHANGED <<wfRun, clock, ends, policy, late>>
        /\ \A x \in Runs : counted'[x] = counted[x] + (IF wfCache[x].phase = "absent" THEN 0
                                                       ELSE FR!transitions(wfCache[x], wfRun[x]))
    BY <1>3, FinishedBefore DEF FR!Deliver
  <2>2. ASSUME NEW x \in Runs
        PROVE  counted'[x] \in Nat /\ Tallied(wfRun[x], wfRun[x], counted'[x], ends[x])
    <3>1. CASE wfCache[x].phase = "active" /\ wfRun[x].phase = "done"
      <4>1. counted'[x] = counted[x] + 1 /\ counted[x] < ends[x]
        BY <2>1, <3>1, FinishedBefore DEF FR!transitions, Tallied
      <4> QED BY <3>1, <4>1, FinishedBefore DEF Tallied
    <3>2. CASE ~(wfCache[x].phase = "active" /\ wfRun[x].phase = "done")
      <4>1. counted'[x] = counted[x] /\ counted[x] \in Nat
        BY <2>1, <3>2, FinishedBefore DEF FR!transitions
      <4> QED BY <4>1, FinishedBefore DEF Tallied
    <3> QED BY <3>1, <3>2
  <2>3. counted' \in [Runs -> Nat]
    BY <1>3, <2>2 DEF FR!Deliver
  <2>4. ASSUME ~late PROVE Regular(wfRun, wfRun, ends, policy, clock)
    <3>1. NotLate(wfRun, wfRun, policy, clock)
      BY <2>4, RegularBefore DEF NotLate
    <3>2. \A x \in Runs : Follows(wfRun[x], wfRun[x])
      BY DEF Follows
    <3> QED BY <2>4, <3>1, <3>2, RegularBefore DEF Regular
  <2> QED BY <2>1, <2>2, <2>3, <2>4, FinishedBefore, FinishedAfter
<1>4. ASSUME NEW r \in Runs, FR!Begin(r) PROVE FinishedInv'
  <2>0. UNCHANGED <<wfRun, wfCache, clock, counted, ends, late>> /\ queue' \subseteq Runs
    BY <1>4, FinishedBefore DEF FR!Begin
  <2>1. CASE policy' = policy
    <3>1. ~late => \A x \in DOMAIN policy.todo :
                    /\ policy.todo[x] = wfRun[x].time
                    /\ wfRun[x].time # 0 => Cause(wfRun, clock, x)
      BY FinishedBefore, RegularBefore DEF NotLate
    <3>2. ~late => Listed(policy, wfRun)
      BY RegularBefore
    <3> QED BY <2>0, <2>1, <3>1, <3>2, FinishedBefore, PolicyMoves
  <2>2. CASE policy' = [pc |-> "retention", current |-> {r}, todo |-> FR!listed(FR!expired)]
    <3> DEFINE p == [pc |-> "retention", current |-> {r}, todo |-> FR!listed(FR!expired)]
    <3>1. FR!expired \in SUBSET FR!completed
          /\ \A x \in FR!expired : wfCache[x].time # 0 /\ wfCache[x].time + Retention < clock
      BY DEF FR!expired
    <3>2. /\ FR!listed(FR!expired) \in Todos /\ DOMAIN FR!listed(FR!expired) = FR!expired /\ FR!expired \subseteq Runs
          /\ \A x \in FR!expired : /\ FR!listed(FR!expired)[x] = wfCache[x].time
                                   /\ ~late => Over(wfRun[x]) /\ wfCache[x].time = wfRun[x].time
      BY <3>1, ListedRuns
    <3>3. p \in Policy /\ p.pc = "retention" /\ p.todo = FR!listed(FR!expired)
      BY <3>2 DEF Policy
    <3> HIDE DEF p
    <3>4. ~late => Listed(p, wfRun)
      BY <3>1, <3>2, <3>3 DEF Listed
    <3>5. ~late => \A x \in DOMAIN p.todo : p.todo[x] = wfRun[x].time /\ Cause(wfRun, clock, x)
      BY <3>1, <3>2, <3>3 DEF Cause
    <3>6. policy' = p
      BY <2>2 DEF p
    <3> QED BY <2>0, <3>3, <3>4, <3>5, <3>6, PolicyMoves
  <2> QED BY <1>4, <2>1, <2>2 DEF FR!Begin
<1>5. CASE FR!DeleteExpired
  BY <1>5, RunDeleted DEF FR!DeleteExpired
<1>6. CASE FR!Recount
  <2>0. UNCHANGED <<wfRun, wfCache, clock, counted, ends, late, queue>> /\ queue \subseteq Runs
    BY <1>6, FinishedBefore DEF FR!Recount
  <2>1. CASE policy' = FR!Idle
    BY <2>0, <2>1, PolicyEnds
  <2>2. ASSUME NEW S \in FR!tooMany, policy' = [policy EXCEPT !.pc = "excess", !.todo = FR!listed(S)]
        PROVE  FinishedInv'
    <3> DEFINE p == [policy EXCEPT !.pc = "excess", !.todo = FR!listed(S)]
    <3>1. S \in SUBSET FR!completed
      BY DEF FR!tooMany
    <3>2. /\ FR!listed(S) \in Todos /\ DOMAIN FR!listed(S) = S /\ S \subseteq Runs
          /\ \A x \in S : /\ FR!listed(S)[x] = wfCache[x].time
                          /\ ~late => Over(wfRun[x]) /\ wfCache[x].time = wfRun[x].time
      BY <3>1, ListedRuns
    <3>3. p \in Policy /\ p.pc = "excess" /\ p.todo = FR!listed(S)
      BY <3>2, FinishedBefore DEF Policy
    <3> HIDE DEF p
    <3>4. ~late => Listed(p, wfRun)
      BY <3>2, <3>3 DEF Listed
    <3>5. ASSUME ~late, NEW x \in DOMAIN p.todo
          PROVE  p.todo[x] = wfRun[x].time /\ (wfRun[x].time # 0 => Cause(wfRun, clock, x))
      BY <3>2, <3>3, <3>5, TooManyHaveCause
    <3>6. policy' = p
      BY <2>2 DEF p
    <3> QED BY <2>0, <3>3, <3>4, <3>5, <3>6, PolicyMoves
  <2> QED BY <1>6, <2>1, <2>2 DEF FR!Recount
<1>7. CASE FR!DeleteExcess
  <2>1. CASE policy' = FR!Idle /\ UNCHANGED wfRun
    BY <1>7, <2>1, PolicyEnds, FinishedBefore DEF FR!DeleteExcess
  <2>2. CASE \E r \in DOMAIN policy.todo : FR!deleteRun(r)
    BY <1>7, <2>2, RunDeleted DEF FR!DeleteExcess
  <2> QED BY <1>7, <2>1, <2>2 DEF FR!DeleteExcess
<1>8. CASE FR!DeleteFails
  <2>1. queue' \subseteq Runs
    BY <1>8, FinishedBefore DEF FR!DeleteFails
  <2> QED BY <1>8, <2>1, PolicyEnds DEF FR!DeleteFails
<1>9. CASE FR!NewLeader
  <2>1. queue' \subseteq Runs
    BY <1>9 DEF FR!NewLeader
  <2> QED BY <1>9, <2>1, PolicyEnds DEF FR!NewLeader
<1>10. CASE UNCHANGED finishedVars
  <2>1. ~late => Regular(wfRun', wfCache', ends', policy', clock')
    BY <1>10, RegularBefore DEF finishedVars, Regular
  <2> QED BY <1>10, <2>1, FinishedBefore, FinishedAfter DEF finishedVars
<1> QED
  BY <1>1, <1>2, <1>3, <1>4, <1>5, <1>6, <1>7, <1>8, <1>9, <1>10, <1>a DEF FR!Next, FR!Reconcile

\* A run is counted in the metrics at most once for each time it ended.
LEMMA FinishedImplies == FinishedInv => FR!TypeOK /\ FR!CountedOnce
<1> SUFFICES ASSUME FinishedInv PROVE FR!TypeOK /\ FR!CountedOnce
  OBVIOUS
<1>1. FR!TypeOK
  BY DEF FinishedInv
<1>2. ASSUME NEW r \in Runs PROVE counted[r] <= ends[r]
  BY FinishedBefore DEF Tallied
<1>3. ASSUME NEW r \in Runs, ~late PROVE ends[r] <= 1
  BY <1>3, RegularBefore DEF EndsOnce
<1> QED BY <1>1, <1>2, <1>3 DEF FR!CountedOnce

\* A run is deleted only for age or because enough newer ones remain.
LEMMA HasCause == FinishedInv /\ FR!Next => FR!DeletedForCause
<1> SUFFICES ASSUME FinishedInv, FR!Next, NEW r \in Runs,
                    wfRun[r].phase = "done", wfRun'[r].phase = "deleted", ~late, policy.todo[r] # 0
             PROVE  \/ wfRun[r].time + Retention < clock
                    \/ FR!Cardinality({s \in FR!Done : wfRun[s].time > wfRun[r].time}) >= MaxAllowed
  BY DEF FR!DeletedForCause
<1>1. r \in DOMAIN policy.todo
  <2>1. ASSUME NEW s \in DOMAIN policy.todo, FR!deleteRun(s) PROVE s = r
    BY <2>1, FinishedBefore DEF FR!deleteRun
  <2>2. CASE FR!DeleteExpired
    BY <2>1, <2>2 DEF FR!DeleteExpired
  <2>3. CASE FR!DeleteExcess
    BY <2>1, <2>3 DEF FR!DeleteExcess
  <2>4. CASE UNCHANGED wfRun
    BY <2>4
  <2>5. ASSUME NEW s \in Runs, FR!EndRun(s) PROVE FALSE
    BY <2>5, FinishedBefore DEF FR!EndRun
  <2>6. ASSUME NEW s \in Runs, FR!EndAgain(s) PROVE FALSE
    BY <2>6, FinishedBefore DEF FR!EndAgain
  <2>7. ASSUME NEW s \in Runs, FR!Revive(s) PROVE FALSE
    BY <2>7, FinishedBefore DEF FR!Revive
  <2> QED
    BY <2>2, <2>3, <2>4, <2>5, <2>6, <2>7 DEF FR!Next, FR!Reconcile, FR!Recount, FR!Begin, FR!DeleteFails,
       FR!NewLeader, FR!Deliver
<1>2. Cause(wfRun, clock, r)
  BY <1>1, FinishedBefore, RegularBefore DEF NotLate
<1>3. {s \in FR!Done : wfRun[s].time > wfRun[r].time} = Newer(wfRun, r)
  BY DEF FR!Done, Newer
<1> QED BY <1>2, <1>3, SameCount DEF Cause

\* The metrics and the run policy: a run is counted at most once for each time it
\* ended, and ends once unless its status is written again; and one listed with its
\* completion time is deleted only when the retention has passed or maxAllowed newer
\* finished runs remain, though the cache lags: for every number of runs, every limit
\* and every retention.
THEOREM FinishedRunsSound == FR!Spec => FR!FinishedSound
<1> DEFINE OK == FR!CountedOnce
           Deleted == FR!DeletedForCause
<1>1. [FR!Next]_finishedVars <=> [FR!Next]_FR!finishedVars
  BY DEF finishedVars, FR!finishedVars
<1>2. FinishedInv => OK
  BY FinishedImplies
<1>3. FinishedInv /\ [FR!Next]_FR!finishedVars => [Deleted]_FR!finishedVars
  BY HasCause
<1> HIDE DEF OK, Deleted
<1>4. FR!Spec => []OK /\ [][Deleted]_FR!finishedVars
  BY <1>1, <1>2, <1>3, FinishedInit, FinishedStep, PTL DEF FR!Spec
<1> QED BY <1>4 DEF OK, Deleted, FR!FinishedSound

\* The same of the run policy as MCSafety runs it.
THEOREM FinishedPart == PartsSpec => FinishedSound
<1> DEFINE PartInv == part = "finished" => FinishedInv
           OK == part = "finished" => FR!CountedOnce
           Deleted == part = "finished" => FR!DeletedForCause
<1>1. PartsInit => PartInv
  BY FinishedInit DEF PartsInit
<1>2. [PartsNext]_allVars => part' = part /\ (part = "finished" => [FR!Next]_finishedVars)
  BY DEF PartsNext, allVars, only
<1>3. PartInv /\ [PartsNext]_allVars => PartInv'
  BY <1>2, FinishedStep
<1>4. PartInv => OK
  BY FinishedImplies
<1>5. PartInv /\ [PartsNext]_allVars => [Deleted]_allVars
  <2> SUFFICES ASSUME PartInv, PartsNext, part = "finished" PROVE FR!DeletedForCause
    OBVIOUS
  <2>1. FinishedInv /\ FR!Next
    BY DEF PartsNext, only
  <2> QED BY <2>1, HasCause
<1> HIDE DEF PartInv, OK, Deleted
<1>6. PartsSpec => []OK /\ [][Deleted]_allVars
  BY <1>1, <1>3, <1>4, <1>5, PTL DEF PartsSpec
<1> QED
  BY <1>6 DEF FinishedSound, OK, Deleted

----------------------------------------------------------------------------
(* The collector of old bindings (LegacyGC).                               *)

\* While the collector judges a binding, what it listed is a legacy binding, and the
\* present one is the same unless it has a later version.
Judging ==
  gcAt \in {"pods", "jobs", "delete"} =>
    /\ judged \in [version : 1 .. MaxVersions, looks : {"legacy"}]
    /\ crb # GC!Gone /\ crb.version >= judged.version
    /\ crb.version = judged.version => crb.looks = "legacy"

\* When it comes to delete, whatever still needs the binding is pinned, or came after
\* the Jobs were listed.
Pinned ==
  gcAt = "delete" =>
    \A j \in Jobs \ unseen : legacyJob[j].state = "unfinished" /\ GC!liveRun(j) => j \in pinned

\* The inductive invariant of the collector.
CollectorInv == GC!TypeOK /\ Judging /\ Pinned

\* The collector has not looked yet.
LEMMA CollectorInit == GC!Init => CollectorInv
<1> SUFFICES ASSUME GC!Init PROVE CollectorInv
  OBVIOUS
<1>1. legacyJob \in [Jobs -> GC!Job]
  <2> DEFINE A == [state : {"unfinished"}, pod : {"none", "running"}, pods : {1}, runOver : BOOLEAN, orphan : BOOLEAN]
             B == [state : {"absent"}, pod : {"none"}, pods : {0}, runOver : {FALSE}, orphan : {FALSE}]
  <2>1. A \subseteq GC!Job
    BY CollectorAssumption DEF GC!Job
  <2>2. B \subseteq GC!Job
    <3>1. 0 \in 0 .. MaxPods
      BY CollectorAssumption
    <3>2. {0} \subseteq 0 .. MaxPods /\ {FALSE} \subseteq BOOLEAN
      BY <3>1, Zenon
    <3> QED BY <3>2, Zenon DEF GC!Job
  <2>3. legacyJob \in [Jobs -> A \cup B]
    BY DEF GC!Init
  <2> HIDE DEF A, B
  <2> QED BY <2>1, <2>2, <2>3
<1>2. crb \in {GC!Gone} \cup [version : 1 .. MaxVersions, looks : GC!Looks]
  BY CollectorAssumption DEF GC!Init
<1> QED
  BY <1>1, <1>2 DEF GC!Init, CollectorInv, GC!TypeOK, Judging, Pinned

\* A step of the Jobs after which no Job the collector knows needs the binding anew.
LEMMA JobMoves ==
  ASSUME CollectorInv,
         legacyJob' \in [Jobs -> GC!Job], UNCHANGED <<crb, judged, pinned, gcAt>>,
         unseen \subseteq unseen', unseen' \subseteq Jobs,
         gcAt = "delete" =>
           \A k \in Jobs \ unseen' : legacyJob'[k].state = "unfinished" /\ GC!liveRun(k)' =>
                         legacyJob[k].state = "unfinished" /\ GC!liveRun(k)
  PROVE  CollectorInv'
<1>1. GC!TypeOK'
  BY DEF CollectorInv, GC!TypeOK
<1>2. Judging'
  BY DEF CollectorInv, Judging
<1>3. Pinned'
  BY DEF CollectorInv, Pinned
<1> QED BY <1>1, <1>2, <1>3 DEF CollectorInv

\* Every step of the collector and of the runs keeps it.
LEMMA CollectorStep == CollectorInv /\ [GC!Next]_gcVars => CollectorInv'
<1> SUFFICES ASSUME CollectorInv, [GC!Next]_gcVars PROVE CollectorInv'
  OBVIOUS
<1>0. legacyJob \in [Jobs -> GC!Job]
  BY DEF CollectorInv, GC!TypeOK
<1>8. ASSUME NEW j \in Jobs, GC!JobIsCreated(j) \/ GC!RunIsRevived(j)
      PROVE  CollectorInv'
  <2>0. legacyJob[j] \in GC!Job
    BY <1>0
  <2>1. PICK r : legacyJob' = [legacyJob EXCEPT ![j] = r] /\ r \in GC!Job
    <3>1. CASE GC!JobIsCreated(j)
      <4> DEFINE r == [legacyJob[j] EXCEPT !.state = "unfinished"]
      <4>1. legacyJob' = [legacyJob EXCEPT ![j] = r]
        BY <1>0, <3>1 DEF GC!JobIsCreated
      <4>2. r \in GC!Job
        BY <2>0 DEF GC!Job
      <4> QED BY <4>1, <4>2
    <3>2. CASE GC!RunIsRevived(j)
      <4> DEFINE r == [legacyJob[j] EXCEPT !.runOver = FALSE]
      <4>1. legacyJob' = [legacyJob EXCEPT ![j] = r]
        BY <1>0, <3>2 DEF GC!RunIsRevived
      <4>2. r \in GC!Job
        BY <2>0 DEF GC!Job
      <4> QED BY <4>1, <4>2
    <3> QED BY <1>8, <3>1, <3>2
  <2>2. legacyJob' \in [Jobs -> GC!Job]
    BY <1>0, <2>1
  <2>3. UNCHANGED <<crb, judged, pinned, gcAt>> /\ GC!tooLate(j)
    BY <1>8 DEF GC!JobIsCreated, GC!RunIsRevived
  <2>4. unseen \subseteq Jobs
    BY DEF CollectorInv, GC!TypeOK
  <2>5. unseen \subseteq unseen' /\ unseen' \subseteq Jobs /\ (gcAt = "delete" => j \in unseen')
    BY <2>3, <2>4 DEF GC!tooLate
  <2>6. gcAt = "delete" =>
          \A k \in Jobs \ unseen' : legacyJob'[k].state = "unfinished" /\ GC!liveRun(k)' =>
                         legacyJob[k].state = "unfinished" /\ GC!liveRun(k)
    BY <1>0, <2>1, <2>5 DEF GC!liveRun
  <2> QED BY <2>2, <2>3, <2>5, <2>6, JobMoves
<1>1. ASSUME NEW j \in Jobs, GC!PodEnds(j) \/ GC!PodIsRemoved(j) \/ GC!PodStarts(j) \/ GC!JobFinishes(j) \/ GC!RunEnds(j)
      PROVE  CollectorInv'
  <2>0. legacyJob[j] \in GC!Job
    BY <1>0
  <2>1. PICK r : legacyJob' = [legacyJob EXCEPT ![j] = r] /\ r \in GC!Job /\ r.orphan = legacyJob[j].orphan
                 /\ (r.state = "unfinished" /\ ~r.runOver => legacyJob[j].state = "unfinished" /\ ~legacyJob[j].runOver)
    <3>1. CASE GC!PodEnds(j) \/ GC!PodIsRemoved(j)
      BY <2>0, <3>1 DEF GC!PodEnds, GC!PodIsRemoved, GC!Job
    <3>2. CASE GC!PodStarts(j)
      <4>1. legacyJob[j].pods + 1 \in 0 .. MaxPods
        BY <2>0, <3>2, CollectorAssumption DEF GC!PodStarts, GC!Job
      <4> DEFINE r == [legacyJob[j] EXCEPT !.pod = "running", !.pods = @ + 1]
      <4>2. legacyJob' = [legacyJob EXCEPT ![j] = r]
        BY <1>0, <3>2 DEF GC!PodStarts
      <4>3. r \in GC!Job /\ r.orphan = legacyJob[j].orphan /\ r.state = legacyJob[j].state
            /\ r.runOver = legacyJob[j].runOver
        BY <2>0, <4>1 DEF GC!Job
      <4> QED
        BY <4>2, <4>3
    <3>3. CASE GC!JobFinishes(j)
      BY <2>0, <3>3 DEF GC!JobFinishes, GC!Job
    <3>4. CASE GC!RunEnds(j)
      <4> DEFINE r == [legacyJob[j] EXCEPT !.runOver = TRUE]
      <4>2. legacyJob' = [legacyJob EXCEPT ![j] = r]
        BY <1>0, <3>4 DEF GC!RunEnds
      <4>3. r \in GC!Job /\ r.orphan = legacyJob[j].orphan /\ r.runOver
        BY <2>0 DEF GC!Job
      <4> QED
        BY <4>2, <4>3
    <3> QED BY <1>1, <3>1, <3>2, <3>3, <3>4
  <2>2. legacyJob' \in [Jobs -> GC!Job]
    BY <1>0, <2>1
  <2>3. UNCHANGED <<crb, judged, pinned, gcAt, unseen>> /\ unseen \subseteq Jobs
    BY <1>1 DEF CollectorInv, GC!TypeOK, GC!PodEnds, GC!PodIsRemoved, GC!PodStarts, GC!JobFinishes, GC!RunEnds
  <2>4. \A k \in Jobs : legacyJob'[k].state = "unfinished" /\ GC!liveRun(k)' =>
                         legacyJob[k].state = "unfinished" /\ GC!liveRun(k)
    BY <1>0, <2>1 DEF GC!liveRun
  <2> QED BY <2>2, <2>3, <2>4, JobMoves
<1>2. CASE GC!List
  <2>1. crb # GC!Gone => crb \in [version : 1 .. MaxVersions, looks : GC!Looks]
    BY DEF CollectorInv, GC!TypeOK
  <2>2. crb.looks = "legacy" => crb # GC!Gone
    BY DEF GC!Gone
  <2> QED
  BY <1>2, <2>1, <2>2, CollectorAssumption DEF CollectorInv, GC!TypeOK, Judging, Pinned, GC!List
<1>3. CASE GC!LookupFails
  BY <1>3 DEF CollectorInv, GC!TypeOK, Judging, Pinned, GC!LookupFails
<1>4. CASE GC!PinningPods \/ GC!PinningJobs
  BY <1>4 DEF CollectorInv, GC!TypeOK, Judging, Pinned, GC!PinningPods, GC!PinningJobs, GC!liveRun
<1>5. CASE GC!Delete
  BY <1>5 DEF CollectorInv, GC!TypeOK, Judging, Pinned, GC!Delete
<1>6. CASE GC!OthersChange
  <2>1. crb' \in [version : 1 .. MaxVersions, looks : GC!Looks] /\ crb'.version = crb.version + 1
    BY <1>6, CollectorAssumption DEF GC!OthersChange, CollectorInv, GC!TypeOK, GC!Gone
  <2>2. crb' # GC!Gone
    BY <2>1 DEF GC!Gone
  <2>3. Judging'
    BY <1>6, <2>1, <2>2, CollectorAssumption DEF GC!OthersChange, CollectorInv, Judging, GC!TypeOK, GC!Gone
  <2> QED
    BY <1>6, <2>1, <2>3 DEF CollectorInv, GC!TypeOK, Pinned, GC!OthersChange, GC!liveRun
<1>7. CASE UNCHANGED gcVars
  BY <1>7 DEF CollectorInv, GC!TypeOK, Judging, Pinned, gcVars, GC!liveRun
<1> QED
  BY <1>1, <1>2, <1>3, <1>4, <1>5, <1>6, <1>7, <1>8 DEF GC!Next

\* A binding that a run needs is not deleted.
LEMMA CollectorKeeps ==
  CollectorInv /\ [GC!Next]_gcVars => [GC!NeededIsKept]_gcVars
<1> SUFFICES ASSUME CollectorInv, GC!Next, crb' = GC!Gone, crb # GC!Gone
             PROVE  /\ crb.looks = "legacy"
                    /\ \A j \in Jobs \ unseen : legacyJob[j].state = "unfinished" => ~GC!liveRun(j)
  BY DEF GC!NeededIsKept
<1>1. CASE GC!Delete
  <2>1. pinned = {} /\ crb.version = judged.version /\ gcAt = "delete"
    BY <1>1 DEF GC!Delete
  <2> QED
    BY <2>1 DEF CollectorInv, Judging, Pinned, GC!TypeOK, GC!Job
<1>2. CASE GC!OthersChange
  BY <1>2, CollectorAssumption DEF GC!OthersChange, GC!Gone, CollectorInv, GC!TypeOK
<1>3. CASE ~GC!Delete /\ ~GC!OthersChange
  BY <1>3 DEF GC!Next, GC!List, GC!LookupFails, GC!PinningPods, GC!PinningJobs, GC!PodEnds,
     GC!PodIsRemoved, GC!PodStarts, GC!JobFinishes, GC!RunEnds, GC!JobIsCreated, GC!RunIsRevived
<1> QED BY <1>1, <1>2, <1>3

\* The collector of the bindings of earlier releases deletes nothing but such a binding,
\* and none that an unfinished Job of a live run needs, unless the Job came or its run
\* was revived after the collector listed Jobs: for every set of Jobs.
THEOREM CollectorSound == GC!Spec => [][GC!NeededIsKept]_GC!gcVars
<1>1. /\ [GC!Next]_gcVars <=> [GC!Next]_GC!gcVars
      /\ [GC!NeededIsKept]_gcVars <=> [GC!NeededIsKept]_GC!gcVars
  BY DEF gcVars, GC!gcVars
<1> QED
  BY <1>1, CollectorInit, CollectorStep, CollectorKeeps, PTL DEF GC!Spec

\* The same of the collector as MCSafety runs it.
THEOREM BindingsKept == PartsSpec => NeededIsKept
<1> DEFINE PartInv == part = "gc" => CollectorInv
           Kept == part = "gc" => GC!NeededIsKept
<1>1. PartsInit => PartInv
  BY CollectorInit DEF PartsInit
<1>2. [PartsNext]_allVars => part' = part /\ (part = "gc" => [GC!Next]_gcVars)
  BY DEF PartsNext, allVars, only
<1>3. PartInv /\ [PartsNext]_allVars => PartInv'
  BY <1>2, CollectorStep
<1>4. PartInv /\ [PartsNext]_allVars => [Kept]_allVars
  <2> SUFFICES ASSUME PartInv, PartsNext, part = "gc" PROVE GC!NeededIsKept \/ UNCHANGED allVars
    OBVIOUS
  <2>1. CollectorInv /\ only("gc") /\ GC!Next
    BY DEF PartsNext, only
  <2>2. GC!NeededIsKept \/ UNCHANGED gcVars
    BY <2>1, CollectorKeeps
  <2>3. UNCHANGED gcVars => UNCHANGED allVars
    BY <2>1 DEF only, allVars
  <2> QED BY <2>2, <2>3
<1> HIDE DEF PartInv, Kept
<1>5. PartsSpec => [][Kept]_allVars
  BY <1>1, <1>3, <1>4, PTL DEF PartsSpec
<1> QED
  BY <1>5 DEF NeededIsKept, Kept
============================================================================
