--------------------------- MODULE RunInvariants ---------------------------
(***************************************************************************)
(* Two inductive invariants of RunLifecycle, the arguments of its safety   *)
(* proofs: one for the supervision of the runner Job, one for a run that   *)
(* pauses and resumes.                                                     *)
(***************************************************************************)
EXTENDS RunLifecycle

---------------------------------------------------------------------------
(***************************************************************************)
(* One runner at a time.  The retry deletes the Job by name, so it could   *)
(* hit a Job that is younger than the one the cache shows.  It does not:   *)
(* a new Job is created only once the cache has seen the old one go, so a  *)
(* failure seen in the cache is a failure of the Job that exists, and with *)
(* backoffLimit 0 a Job that has failed has no pod left to orphan.         *)
(***************************************************************************)
FailureSeen == jobCache.failed > 0 \/ jobCache.cond = "Failed"

NoOrphans == \A p \in Pods : ~orphan[p]

OnePod == \A p, o \in Pods : pc[p] # "None" /\ pc[o] # "None" => p = o

PodsHaveActiveJob == (\E p \in Pods : pc[p] # "None") => job.cond = "Active"

FailedAtOnce == job.failed > 0 => job.cond = "Failed"

SeenFailureIsReal == FailureSeen => job = NoJob \/ job.cond = "Failed"

\* Supervision: the pods, the Job and its cached copy agree.
Supervised ==
  /\ NoOrphans
  /\ OnePod
  /\ PodsHaveActiveJob
  /\ FailedAtOnce
  /\ SeenFailureIsReal

---------------------------------------------------------------------------
(***************************************************************************)
(* Pausing and resuming.  While nobody disturbs the run, a terminal phase  *)
(* is kept, no completed step runs again and no accepted answer is lost.   *)
(* All three rest on one invariant of the whole protocol:                  *)
(*                                                                         *)
(*   - while the run is open, what the steps achieved is in the checkpoint *)
(*     or in a write under way, and once a token has been issued a runner  *)
(*     that starts finds the phase Running, so that it restores them;      *)
(*   - while a gate under policy Fail waits for an answer, no runner is at *)
(*     work, so the reconciler may fail the run behind nobody's back;      *)
(*   - once the run is terminal, a runner that is started all the same     *)
(*     finds steps it has nothing to do for.                               *)
(***************************************************************************)

\* At most one gate has timeout policy Fail, and it comes before the others.
\* With two, a run that was resumed at the first could time out at the second
\* while a runner that a stale cache asked for is at work.
FailGatesFirst == \A g \in Gates \ ContinueGates, h \in Gates : g <= h

\* The run is not retried, rejected, cancelled or overwritten by its trigger,
\* its pods are not lost, and its Jobs are not removed under stale caches.
Undisturbed ==
  /\ BackoffLimit = 0 /\ MaxFaults = 0 /\ Checkpointing
  /\ ~Triggered /\ ~Cancellable /\ ~PodsMayStick /\ ~MayReject
  /\ ~EarlyTTL
  /\ FailGatesFirst

Early  == {"PersistRunning", "Restore"}
InLoop == {"Loop", "InStep", "GateDone"}
Ending == {"CleanupOk", "CleanupErr", "PersistOk", "PersistErr"}
Past   == InLoop \cup Ending

Terminal == IsTerminal(run.phase)

Armed == minted > 0

\* A callback of a gate under policy Fail that nobody has answered.
Unanswered(c) ==
  c # NilCallback /\ c.outputs = NoPost /\ c.step \notin ContinueGates

\* A status that leaves a runner nothing to do.
Final(st) ==
  /\ \A s \in Steps : st.steps[s] # "Running"
  /\ \/ /\ st.phase = "Succeeded"
        /\ \A s \in Steps : st.steps[s] = "Succeeded"
     \/ /\ st.phase = "Failed"
        /\ \E s \in Steps : /\ st.steps[s] = "Failed"
                            /\ \A t \in 1..(s - 1) : st.steps[t] = "Succeeded"

\* Step statuses as a checkpoint holds them, and the ones that miss nothing.
IsSnapshot(f) ==
  \A s \in Steps : /\ f[s] \in {"Pending", "Succeeded"}
                   /\ f[s] = "Succeeded" => s \in everDone
Covers(f) == \A s \in everDone : f[s] = "Succeeded"

Snapshots ==
  /\ IsSnapshot(ckpt)
  /\ \A p \in Pods : \A f \in saving[p] : IsSnapshot(f)
  /\ \A p \in Pods :
       saving[p] # {} => pc[p] \in (Past \cup {"Pause"}) \ {"PersistOk", "PersistErr"}

\* Callbacks carry a token that was issued, at a gate that was reached.
AcceptedFor(t) ==
  \E q \in Posts : post[q].state = "accepted" /\ post[q].cb.tok = t

Issued(c) ==
  \/ c = NilCallback
  \/ /\ c.tok \in 1..minted
     /\ c.step \in Gates /\ \A t \in 1..(c.step - 1) : t \in everDone
     /\ c.outputs # NoPost => AcceptedFor(c.tok)

Callbacks ==
  /\ Issued(run.cb) /\ Issued(runCache.cb)
  /\ \A p \in Pods : Issued(mem[p].cb)
  /\ \A q \in Posts :
       /\ Issued(post[q].cb)
       /\ post[q].state = "idle" => post[q].cb = NilCallback
       /\ post[q].state = "admitted"
            => post[q].cb # NilCallback /\ post[q].cb.outputs = NoPost

\* A pod fails only after it made the run Failed.
Failures ==
  /\ \A p \in Pods : pc[p] # "Killed" /\ (pc[p] = "Exit1" => Terminal)
  /\ job.failed > 0 \/ job.cond = "Failed" \/ FailureSeen => Terminal

\* resumeRunnerJob deletes the Job whose completion it saw.
Deletions ==
  /\ job.cond = "Absent" => job = NoJob
  /\ job.deleting => job.cond = "Complete"
  /\ jobCache.cond = "Complete" => job.cond \in {"Complete", "Absent"}

NoPast == \A p \in Pods : pc[p] \notin Past
NoPods == \A p \in Pods : pc[p] = "None"

\* Of an open run.
StepsSaved ==
  (\A p \in Pods : pc[p] \notin Ending)
    => Covers(ckpt) \/ \E p \in Pods : \E f \in saving[p] : Covers(f)

PhaseTold ==
  /\ run.steps = AllPending
  /\ runCache.phase = "Running" => run.phase = "Running"
  /\ run.phase = "Running" => Armed
  /\ NoPast /\ everDone # {} => Armed
  /\ NoPast /\ Armed => run.cb # NilCallback
  /\ Armed /\ run.phase # "Running" /\ (job.cond = "Absent" \/ job.deleting)
       => runCache.cb # NilCallback
  /\ Armed /\ job.cond = "Active" /\ NoPods => run.phase = "Running"

Starting(p) ==
  /\ pc[p] \in {"Waiting", "Load"} \cup Early /\ Armed => run.phase = "Running"
  /\ pc[p] \in Early =>
       /\ mem[p].steps = AllPending /\ ~IsTerminal(mem[p].phase)
       /\ mem[p].phase = "Running" <=> Armed
       /\ Armed => mem[p].cb # NilCallback
  /\ pc[p] \in Early \cup InLoop => ~Unanswered(mem[p].cb)

Looping(p) ==
  /\ pc[p] \in InLoop =>
       /\ \A s \in Steps : /\ mem[p].steps[s] \in {"Pending", "Running", "Succeeded"}
                           /\ mem[p].steps[s] = "Succeeded" <=> s \in everDone
       /\ \A s \in Steps :
            mem[p].steps[s] = "Running"
              => pc[p] # "Loop" /\ \A t \in 1..(s - 1) : t \in everDone
       /\ mem[p].cb # NilCallback => run.cb # NilCallback
       /\ Armed /\ mem[p].cb = NilCallback
            => \A g \in Gates \ ContinueGates : mem[p].steps[g] # "Pending"
  /\ pc[p] \in Ending => Final(mem[p])

Held ==
  Unanswered(run.cb) =>
    /\ run.phase # "Running"
    /\ minted = 1 /\ run.cb.step \notin everDone
    /\ \A p \in Pods : pc[p] \notin Live \ {"Pause"}
    /\ runCache.cb = NilCallback \/ Unanswered(runCache.cb)

\* An accepted answer to a gate under policy Fail, and the only delivery of
\* its token, is still to be consumed.
Sole(t) ==
  \A q, r \in Posts : post[q].cb.tok = t /\ post[r].cb.tok = t => q = r

Answer(c) ==
  /\ c # NilCallback /\ c.outputs # NoPost /\ c.step \notin ContinueGates
  /\ Sole(c.tok)

AnswerKept ==
  /\ Answer(run.cb) =>
       /\ minted = 1 /\ run.cb.step \notin everDone
       /\ \A p \in Pods :
            \/ pc[p] \in {"None", "Waiting", "Load", "Pause", "Exit0"}
            \/ pc[p] \in Early \cup {"Loop"} /\ mem[p].cb = run.cb
  /\ \A p \in Pods : pc[p] \in Early /\ Answer(mem[p].cb) => mem[p].cb = run.cb

\* A question seen in a cache is the run's own, or was answered.
Current(c) == Unanswered(c) /\ run.cb # c => AcceptedFor(c.tok)

QuestionsSeen ==
  /\ Current(runCache.cb)
  /\ \A q \in Posts : post[q].state = "admitted" => Current(post[q].cb)

OpenRun ==
  /\ StepsSaved /\ PhaseTold /\ Held /\ AnswerKept /\ QuestionsSeen
  /\ \A p \in Pods : Starting(p) /\ Looping(p)

\* Of a terminal run: it ended with its steps, or the reconciler timed it out
\* and nothing is left that could start a runner.
TimedOut ==
  /\ \A p \in Pods : pc[p] \notin Live \ {"Pause"}
  /\ job.cond = "Active" => ~NoPods
  /\ IsTerminal(runCache.phase) \/ Unanswered(runCache.cb)

ClosedRun ==
  /\ Final(run) \/ TimedOut
  /\ \A p \in Pods :
       /\ pc[p] \in Early \cup Past => mem[p].phase = run.phase /\ Final(mem[p])
       /\ pc[p] = "Restore" => mem[p].attempts = 0

Kept == /\ Snapshots /\ Callbacks /\ Failures /\ Deletions
        /\ ~Terminal => OpenRun
        /\ Terminal => ClosedRun

\* Pausing and resuming keep the run, its checkpoint, its slot and its runners
\* in step: while the run is open, what saveCheckpoint was given is in the
\* checkpoint or in a write under way, a runner that starts after a pause finds
\* the phase that makes loadCheckpointIfNeeded restore it, and no runner is at
\* work while a gate under policy Fail waits; once the run is terminal, a runner
\* that resumeRunnerJob starts all the same has nothing to do.  All of it until
\* SaveAsync fails to write a checkpoint, which it only logs.
PauseInv == TypeOK /\ Supervised /\ ~creating /\ (NoSaveLost => Kept)
===========================================================================
