----------------------------- MODULE RunRecords -----------------------------
(***************************************************************************)
(* The two ConfigMaps a runner leaves behind (checkpoint.go): the          *)
(* checkpoint, saved by a goroutine of its own after every step, and the   *)
(* audit snapshot, written once at the end.                                *)
(*                                                                         *)
(* Both are named after the run, so a run that is deleted and created anew *)
(* meets what its predecessor left, and the predecessor's runner may still *)
(* be writing.  What a step computed is left out: a snapshot is the run it *)
(* is of and how many of its steps were done; of the forms an audit         *)
(* snapshot is cut down to, only whether one fits matters.                  *)
(***************************************************************************)
EXTENDS Naturals

CONSTANTS
  MaxRuns,      \* bound on the runs of one name, one after the other
  NSteps,       \* steps the first run of the name comes to
  LaterSteps,   \* bound on the steps a later one comes to
  MaxCrashes    \* bound on crashes and on API calls that fail

VARIABLES
  current,      \* uid of the run that exists, or 0
  born,         \* runs so far
  cachedRun,    \* uid of the run in the reconciler's cache, or 0
  runner,       \* the runner process of each run
  saves,        \* SaveAsync goroutines in flight
  checkpoint, snapshot,  \* the ConfigMaps
  status,       \* each run's persisted status: is it over, does it name the snapshot
  finished,     \* history: steps each run has ever finished
  saved,        \* history: most steps in a save that succeeded
  concluded,    \* history: runs whose checkpoint was deleted for their end
  crashes

recordVars == <<current, born, cachedRun, runner, saves, checkpoint, snapshot, status,
                finished, saved, concluded, crashes>>

Uids == 1 .. MaxRuns
stepsOf(u) == IF u = 1 THEN NSteps ELSE LaterSteps
Counts == 0 .. NSteps + LaterSteps

\* What a writer has read of a ConfigMap: nothing yet, that it is absent, the
\* current version, or one that has been replaced since.
Reads == {"nothing", "absent", "latest", "outdated"}
NoCheckpoint == [uid |-> 0, owner |-> 0, done |-> 0]
NoSnapshot == [uid |-> 0, owner |-> 0]
Off == [pc |-> "off", done |-> 0, read |-> "nothing"]

Init ==
  /\ current = 1 /\ born = 1 /\ cachedRun \in {0, 1}
  /\ runner = [u \in Uids |-> Off] /\ saves = {}
  /\ checkpoint = NoCheckpoint /\ snapshot = NoSnapshot
  /\ status = [u \in Uids |-> [over |-> FALSE, audit |-> FALSE]]
  /\ finished = [u \in Uids |-> 0] /\ saved = [u \in Uids |-> 0] /\ concluded = {} /\ crashes = 0

worldVars == <<current, born, cachedRun>>
historyVars == <<finished, saved, concluded>>

\* A write makes every other reader's copy an old one.
outdate(read) == IF read = "latest" THEN "outdated" ELSE read
putCheckpoint(new, rest) ==
  checkpoint' = new /\ saves' = {[s EXCEPT !.read = outdate(@)] : s \in rest}

\* The run's owner, or a trigger, deletes it and creates one of the same name.
DeleteRun ==
  /\ current # 0 /\ current' = 0
  /\ UNCHANGED <<born, cachedRun, runner, saves, checkpoint, snapshot, status, historyVars, crashes>>

CreateRun ==
  /\ current = 0 /\ born < MaxRuns
  /\ born' = born + 1 /\ current' = born + 1
  /\ UNCHANGED <<cachedRun, runner, saves, checkpoint, snapshot, status, historyVars, crashes>>

SyncCache ==
  /\ cachedRun # current /\ cachedRun' = current
  /\ UNCHANGED <<current, born, runner, saves, checkpoint, snapshot, status, historyVars, crashes>>

\* Dependents of a run that is gone are deleted.
Collect ==
  /\ \/ /\ checkpoint.uid # 0 /\ checkpoint.owner # current
        /\ putCheckpoint(NoCheckpoint, saves) /\ UNCHANGED <<snapshot, runner>>
     \/ /\ snapshot.uid # 0 /\ snapshot.owner # current
        /\ snapshot' = NoSnapshot /\ runner' = [u \in Uids |-> [runner[u] EXCEPT !.read = outdate(@)]]
        /\ UNCHANGED <<checkpoint, saves>>
  /\ UNCHANGED <<worldVars, status, historyVars, crashes>>
----------------------------------------------------------------------------
\* Load: of another run's checkpoint nothing is restored.
Load == IF checkpoint.uid = current THEN checkpoint.done ELSE 0

\* loadCheckpointIfNeeded: whether the start counts as a restart, and so loads at
\* all, depends on the run's status, which is in RunLifecycle.
StartRunner ==
  /\ current # 0 /\ runner[current].pc = "off" /\ ~status[current].over
  /\ \E done \in {0, Load} :
       runner' = [runner EXCEPT ![current] = [Off EXCEPT !.pc = "working", !.done = done]]
  /\ UNCHANGED <<worldVars, saves, checkpoint, snapshot, status, historyVars, crashes>>

\* A step ends, and saveCheckpoint starts a save.
CompleteStep(u) ==
  /\ runner[u].pc = "working" /\ runner[u].done < stepsOf(u)
  /\ runner' = [runner EXCEPT ![u].done = @ + 1]
  /\ finished' = [finished EXCEPT ![u] = IF runner[u].done < @ THEN @ ELSE runner[u].done + 1]
  /\ saves' = saves \cup {[uid |-> u, done |-> runner[u].done + 1, read |-> "nothing"]}
  /\ UNCHANGED <<worldVars, checkpoint, snapshot, status, saved, concluded, crashes>>

succeeded(s) == saved' = [saved EXCEPT ![s.uid] = IF s.done < @ THEN @ ELSE s.done]
retried(s, read) == saves' = (saves \ {s}) \cup {[s EXCEPT !.read = read]}

\* terminalStepCount: of one run only a snapshot with more steps done is newer.
stale(s) == checkpoint.uid = s.uid /\ checkpoint.done >= s.done

SaveGet(s) ==
  /\ s.read = "nothing"
  /\ CASE checkpoint.uid = 0 -> retried(s, "absent") /\ UNCHANGED saved
       [] checkpoint.uid # 0 /\ stale(s) -> saves' = saves \ {s} /\ succeeded(s)
       [] OTHER -> retried(s, "latest") /\ UNCHANGED saved
  /\ UNCHANGED <<worldVars, runner, checkpoint, snapshot, status, finished, concluded, crashes>>

\* Create; AlreadyExists is taken for a conflict.
SaveCreate(s) ==
  /\ s.read = "absent"
  /\ IF checkpoint.uid = 0
     THEN /\ putCheckpoint([uid |-> s.uid, owner |-> s.uid, done |-> s.done], saves \ {s})
          /\ succeeded(s)
     ELSE retried(s, "nothing") /\ UNCHANGED <<checkpoint, saved>>
  /\ UNCHANGED <<worldVars, runner, snapshot, status, finished, concluded, crashes>>

SaveUpdate_Unversioned(s) ==
  /\ s.read \in {"latest", "outdated"}
  /\ IF checkpoint.uid # 0
     THEN /\ putCheckpoint([checkpoint EXCEPT !.uid = s.uid, !.done = s.done], saves \ {s})
          /\ succeeded(s)
     ELSE saves' = saves \ {s} /\ UNCHANGED <<checkpoint, saved>>
  /\ UNCHANGED <<worldVars, runner, snapshot, status, finished, concluded, crashes>>

\* Update of what was read, its owner references included.  A conflict is
\* retried; NotFound ends the save.
SaveUpdate(s) ==
  /\ s.read \in {"latest", "outdated"}
  /\ CASE checkpoint.uid = 0 -> saves' = saves \ {s} /\ UNCHANGED <<checkpoint, saved>>
       [] checkpoint.uid # 0 /\ s.read = "latest" ->
            /\ putCheckpoint([checkpoint EXCEPT !.uid = s.uid, !.done = s.done], saves \ {s})
            /\ succeeded(s)
       [] OTHER -> retried(s, "nothing") /\ UNCHANGED <<checkpoint, saved>>
  /\ UNCHANGED <<worldVars, runner, snapshot, status, finished, concluded, crashes>>

\* The API server does not answer, or the conflicts outlast the retries.
SaveFails(s) ==
  /\ crashes < MaxCrashes /\ crashes' = crashes + 1
  /\ saves' = saves \ {s}
  /\ UNCHANGED <<worldVars, runner, checkpoint, snapshot, status, historyVars>>
----------------------------------------------------------------------------
savesOf(u) == {s \in saves : s.uid = u}

\* checkpointCleanup: Flush, then for a run that is over Delete, by name, and on
\* to the audit snapshot; a run that pauses keeps its checkpoint.  That the run is
\* over is persisted only later (Persist).
Flush(u) ==
  /\ runner[u].pc = "working" /\ savesOf(u) = {}
  /\ \/ /\ runner' = [runner EXCEPT ![u] = [Off EXCEPT !.pc = "marshal"]]
        /\ putCheckpoint(NoCheckpoint, saves) /\ concluded' = concluded \cup {u}
     \/ /\ runner[u].done < stepsOf(u)
        /\ runner' = [runner EXCEPT ![u] = Off] /\ UNCHANGED <<checkpoint, saves, concluded>>
  /\ UNCHANGED <<worldVars, snapshot, status, finished, saved, crashes>>

\* Delete's error is ignored and the checkpoint stays behind.
DeleteFails(u) ==
  /\ runner[u].pc = "working" /\ savesOf(u) = {}
  /\ crashes < MaxCrashes /\ crashes' = crashes + 1
  /\ runner' = [runner EXCEPT ![u] = [Off EXCEPT !.pc = "marshal"]]
  /\ UNCHANGED <<worldVars, saves, checkpoint, snapshot, status, historyVars>>

\* SaveAuditSnapshot: the snapshot, the one with its arrays cut or the one without
\* its context, the first that fits into a ConfigMap; when none does, an error.
Marshal(u) ==
  /\ runner[u].pc = "marshal"
  /\ \E next \in {"audit", "unnamed"} : runner' = [runner EXCEPT ![u].pc = next]
  /\ UNCHANGED <<worldVars, saves, checkpoint, snapshot, status, historyVars, crashes>>

AuditGet(u) ==
  /\ runner[u].pc = "audit" /\ runner[u].read = "nothing"
  /\ runner' = [runner EXCEPT ![u].read = IF snapshot.uid = 0 THEN "absent" ELSE "latest"]
  /\ UNCHANGED <<worldVars, saves, checkpoint, snapshot, status, historyVars, crashes>>

wrote(u) ==
  runner' = [v \in Uids |->
    IF v = u THEN [Off EXCEPT !.pc = "named"]
    ELSE [runner[v] EXCEPT !.read = outdate(@)]]

\* The owner references are set whether the ConfigMap is created or updated.
ownerAfter(u) == u

AuditPut(u) ==
  /\ runner[u].pc = "audit" /\ runner[u].read # "nothing"
  /\ IF (runner[u].read = "absent" /\ snapshot.uid = 0) \/ (runner[u].read = "latest" /\ snapshot.uid # 0)
     THEN /\ snapshot' = [uid |-> u, owner |-> ownerAfter(u)]
          /\ wrote(u)
     ELSE /\ runner' = IF runner[u].read # "absent" /\ snapshot.uid = 0
                       THEN [runner EXCEPT ![u] = [Off EXCEPT !.pc = "unnamed"]]
                       ELSE [runner EXCEPT ![u].read = "nothing"]
          /\ UNCHANGED snapshot
  /\ UNCHANGED <<worldVars, saves, checkpoint, status, historyVars, crashes>>

AuditFails(u) ==
  /\ runner[u].pc = "audit" /\ crashes < MaxCrashes /\ crashes' = crashes + 1
  /\ runner' = [runner EXCEPT ![u] = [Off EXCEPT !.pc = "unnamed"]]
  /\ UNCHANGED <<worldVars, saves, checkpoint, snapshot, status, historyVars>>

\* The runner persists the run's end, by the name: into the run of that name, if
\* there is one, whichever it is by now.
Persist(u) ==
  /\ runner[u].pc \in {"named", "unnamed"}
  /\ status' = [v \in Uids |-> IF v = current THEN [over |-> TRUE, audit |-> runner[u].pc = "named"]
                               ELSE status[v]]
  /\ runner' = [runner EXCEPT ![u] = Off]
  /\ UNCHANGED <<worldVars, saves, checkpoint, snapshot, historyVars, crashes>>

\* The runner dies, with the saves it has in flight, or the end of the run cannot be
\* persisted, and it exits.
Crash(u) ==
  /\ runner[u].pc # "off" /\ crashes < MaxCrashes /\ crashes' = crashes + 1
  /\ runner' = [runner EXCEPT ![u] = Off] /\ saves' = saves \ savesOf(u)
  /\ UNCHANGED <<worldVars, checkpoint, snapshot, status, historyVars>>

\* markRunTerminallyFailed, of the run in the cache: DeleteCheckpointForRun goes
\* by the name, then the status is updated, unless the cached run is an old copy or
\* the call fails: the run goes on without its checkpoint.
FailRun ==
  /\ cachedRun # 0 /\ runner[cachedRun].pc = "off" /\ ~status[cachedRun].over /\ crashes > 0
  /\ putCheckpoint(NoCheckpoint, saves) /\ concluded' = concluded \cup {cachedRun}
  /\ \/ current = cachedRun /\ status' = [status EXCEPT ![current].over = TRUE]
     \/ UNCHANGED status
  /\ UNCHANGED <<worldVars, runner, snapshot, finished, saved, crashes>>

Next ==
  \/ DeleteRun \/ CreateRun \/ SyncCache \/ Collect \/ StartRunner \/ FailRun
  \/ \E u \in Uids : \/ CompleteStep(u) \/ Flush(u) \/ DeleteFails(u) \/ Marshal(u)
                     \/ AuditGet(u) \/ AuditPut(u) \/ AuditFails(u) \/ Persist(u) \/ Crash(u)
  \/ \E s \in saves : SaveGet(s) \/ SaveCreate(s) \/ SaveUpdate(s) \/ SaveFails(s)

Spec == Init /\ [][Next]_recordVars
----------------------------------------------------------------------------
TypeOK ==
  /\ {current, cachedRun} \subseteq 0 .. born /\ born \in Uids
  /\ runner \in [Uids -> [pc : {"off", "working", "marshal", "audit", "named", "unnamed"},
                          done : Counts, read : Reads]]
  /\ saves \subseteq [uid : Uids, done : Counts, read : Reads]
  /\ checkpoint \in [uid : 0 .. MaxRuns, owner : 0 .. MaxRuns, done : Counts]
  /\ snapshot \in [uid : 0 .. MaxRuns, owner : 0 .. MaxRuns]
  /\ concluded \subseteq Uids /\ crashes \in 0 .. MaxCrashes

(* A runner skips only steps that its own run has finished, whatever a run of *)
(* the same name left behind (CheckpointManager.Load).                        *)
LoadIsOwn == \A u \in Uids : runner[u].done <= finished[u]

(* What a save that succeeded wrote is not undone by a save of an earlier     *)
(* step that comes late, nor lost in a crash of a runner at work or by a      *)
(* pause: the checkpoint of the first run of the name holds the steps of      *)
(* every save that succeeded until it is deleted because the run has come to  *)
(* its end.  From there on nothing is claimed: the runner and                 *)
(* markRunTerminallyFailed delete before that end is persisted, so a crash or *)
(* a conflict in between leaves a run that goes on and has lost its saves.    *)
(* Nor is it so of a later run: SaveAsync leaves the owner references of a    *)
(* ConfigMap it updates as they are, so one left by a deleted run is          *)
(* collected under its successor.                                             *)
SavedIsKept ==
  current = 1 /\ 1 \notin concluded /\ saved[1] > 0 =>
    checkpoint.uid = 1 /\ checkpoint.done >= saved[1]

(* While a run exists whose status names its audit snapshot, the garbage      *)
(* collector does not take the snapshot, not even when its ConfigMap was left *)
(* by an earlier run of the same name.                                        *)
AuditKept ==
  current # 0 /\ status[current].audit /\ snapshot.uid = current
    => snapshot'.uid # 0 \/ current' # current
============================================================================
