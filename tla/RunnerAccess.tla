---------------------------- MODULE RunnerAccess ----------------------------
(***************************************************************************)
(* What the reconciler puts in place before it creates the runner's Job:   *)
(* the ServiceAccount, its two ClusterRoleBindings, the RoleBinding that   *)
(* lets it write checkpoints, copied Secrets and the CA ConfigMap.         *)
(*                                                                         *)
(* Each object has a fixed name, so an outsider may own it, change it or   *)
(* delete it; the reconciler reads the bindings from a cache.  An object   *)
(* is a uid, what it says, and a value: for the RoleBinding the uid of the *)
(* ServiceAccount that owns it, for the ConfigMap the version of the CA.   *)
(***************************************************************************)
EXTENDS Naturals

CONSTANTS
  MaxUid,      \* bound on objects ever created
  MaxChanges   \* bound on what outsiders do, and on interrupted reconciles

VARIABLES
  obj,         \* the shared objects at the API server
  seen,        \* their cached copies
  account,     \* uid of the ServiceAccount, 0 when there is none
  caVersion,   \* the certificate in the CA Secret
  known,       \* uid of the ServiceAccount this reconcile knows, 0 if none
  caRead,      \* the certificate this reconcile has read
  at,          \* where the reconcile is
  jobMade,     \* the runner's Job exists
  uids, changes, touched

accessVars == <<obj, seen, account, caVersion, known, caRead, at, jobMade,
                uids, changes, touched>>

Objects == {"binding", "caller", "writer", "cm"}
None == [uid |-> 0, says |-> "none", val |-> 0]
Managed == {"right", "wrongRole", "wrongSubject"}

\* Without OttoFlow's label: somebody else's object, or one of ours whose label was
\* taken off in place, which keeps its uid and its owner.
Unmanaged == {"foreign", "unlabelled"}
ours(val) == [uid |-> uids + 1, says |-> "right", val |-> val]

\* Left by earlier runs and by outsiders, at most one object at a time; the caches
\* have settled.  The account may be the second of its name, and the first may
\* still own the RoleBinding.
Init ==
  /\ account \in {0, 2}
  /\ obj \in [binding : {None} \cup [uid : {1}, says : {"wrongRole", "foreign"}, val : {0}],
              caller : {None} \cup [uid : {1}, says : {"wrongRole"}, val : {0}],
              writer : {None} \cup [uid : {1}, says : {"right", "wrongRole"}, val : {1, 2}],
              cm : {None} \cup [uid : {1}, says : {"right"}, val : {0}]]
  /\ account = 0 => obj.writer.val # 2
  /\ \A o, p \in Objects : obj[o] # None /\ obj[p] # None => o = p
  /\ seen = obj
  /\ caVersion = 1 /\ known = 0 /\ caRead = 0 /\ at = "build"
  /\ jobMade = FALSE /\ uids = 2 /\ changes = 0 /\ touched = FALSE

goto(pc) == at' = pc /\ UNCHANGED <<seen, account, caVersion, jobMade, changes, touched>>
leave(pc) == goto(pc) /\ UNCHANGED <<obj, known, caRead, uids>>

\* A failed write requeues: the reconcile starts again.
restart == IF jobMade THEN "watch" ELSE "build"

\* buildWorkflowRunnerJob, its credentials and Secret checks: it goes on, is
\* requeued after a transient error, or fails the run.
Build == at = "build" /\ (leave("account") \/ leave("failed"))

\* ensureRunnerAccess.  ServiceAccounts are never cached: the Get is of the API
\* server.  When somebody else creates the account between the Get and the
\* Create, AlreadyExists leaves its uid unknown.
EnsureAccount ==
  /\ at = "account"
  /\ IF account # 0 THEN known' = account /\ UNCHANGED <<account, uids, changes>>
     ELSE /\ uids < MaxUid /\ account' = uids + 1 /\ uids' = uids + 1
          /\ \/ known' = uids + 1 /\ UNCHANGED changes
             \/ changes < MaxChanges /\ changes' = changes + 1 /\ known' = 0
  /\ at' = "binding"
  /\ UNCHANGED <<obj, seen, caVersion, caRead, jobMade, touched>>

write(o, new, pc) ==
  /\ obj' = [obj EXCEPT ![o] = new]
  /\ uids' = IF new.uid > uids THEN new.uid ELSE uids
  /\ goto(pc) /\ UNCHANGED <<known, caRead>>

create(o, val, pc, exists) ==
  IF obj[o] = None THEN uids < MaxUid /\ write(o, ours(val), pc) ELSE leave(exists)

\* Delete with the cached uid as a precondition; what is gone already is fine.
deleteSeen(o, pc) ==
  IF obj[o] = None \/ obj[o].uid = seen[o].uid THEN write(o, None, pc) ELSE leave(restart)

\* Update carries the cached resourceVersion.
updateSeen(o, pc) ==
  IF obj[o] = seen[o] THEN write(o, [obj[o] EXCEPT !.says = "right"], pc) ELSE leave(restart)

EnsureBinding ==
  /\ at = "binding"
  /\ LET b == seen.binding
     IN CASE b = None -> create("binding", 0, "caller", "caller")
          [] b.says \in Unmanaged -> leave("failed")
          [] b.says = "wrongRole" -> deleteSeen("binding", "rebind")
          [] b.says = "wrongSubject" -> updateSeen("binding", "caller")
          [] OTHER -> leave("caller")

\* The binding of the wrong role was deleted; somebody else may be faster.
Rebind ==
  /\ at = "rebind"
  /\ create("binding", 0, "caller", IF seen.binding.says \in {"right", "wrongSubject"} THEN "caller" ELSE "build")

\* ensureAgentExecutorCallerBinding leaves a binding alone that is not ours.
EnsureCaller ==
  /\ at = "caller"
  /\ LET b == seen.caller
     IN CASE b = None -> create("caller", 0, "writer", "writer")
          [] b.says = "wrongRole" -> deleteSeen("caller", "recall")
          [] b.says = "wrongSubject" -> updateSeen("caller", "writer")
          [] OTHER -> leave("writer")

Recall == at = "recall" /\ create("caller", 0, "writer", "build")

\* ensureRunnerConfigMapWriter, before the Job and on every reconcile after it;
\* then the reconcile goes on even if it fails.
afterWriter == IF jobMade THEN "watch" ELSE "secrets"

EnsureWriter_AnyOwner ==
  /\ at = "writer"
  /\ LET w == seen.writer
     IN CASE w = None -> leave("writer2")
          [] w.says \in Unmanaged -> leave(IF jobMade THEN "watch" ELSE "failed")
          [] w.says = "right" -> leave(afterWriter)
          [] w.says = "wrongSubject" -> updateSeen("writer", afterWriter)
          [] OTHER -> deleteSeen("writer", "writer2")

EnsureWriter ==
  /\ at = "writer"
  /\ LET w == seen.writer
         mine == w.says # "wrongRole" /\ (known = 0 \/ w.val = known)
     IN CASE w = None -> leave("writer2")
          [] w.says \in Unmanaged -> leave(IF jobMade THEN "watch" ELSE "failed")
          [] w.says = "right" /\ mine -> leave(afterWriter)
          [] w.says = "wrongSubject" /\ mine -> updateSeen("writer", afterWriter)
          [] OTHER -> deleteSeen("writer", "writer2")

CreateWriter ==
  /\ at = "writer2"
  /\ LET owner == IF known = 0 THEN account ELSE known
     IN IF owner = 0 THEN leave(restart) ELSE create("writer", owner, afterWriter, restart)

\* ensureRunnerSecrets copies the Secrets the run's own volumes name, unless
\* they are there, and never a minted volume's or a fenced TLS Secret.
EnsureSecrets == at = "secrets" /\ (leave("ca") \/ leave("build") \/ leave("failed"))

\* ensureAgentExecutorCA: everything is read from the API server.
ReadCA ==
  /\ at = "ca"
  /\ caRead' = caVersion /\ goto("cm") /\ UNCHANGED <<obj, known, uids>>

PublishCA ==
  /\ at = "cm"
  /\ \/ obj.cm = None /\ create("cm", caRead, "job", "build")
     \/ obj.cm.says \in Unmanaged /\ leave("failed")
     \/ obj.cm.says \in Managed /\ obj.cm.val = caRead /\ leave("job")
     \/ obj.cm.says \in Managed /\ obj.cm.val # caRead
        /\ write("cm", [obj.cm EXCEPT !.val = caRead], "job")

CreateJob ==
  /\ at = "job"
  /\ jobMade' = TRUE /\ at' = "watch"
  /\ UNCHANGED <<obj, seen, account, caVersion, known, caRead, uids, changes, touched>>

Watch_LeavesWriter == at = "watch" /\ UNCHANGED accessVars

\* A reconcile with the Job in place looks after the RoleBinding only, without
\* knowing a uid.
Watch ==
  /\ at = "watch"
  /\ known' = 0 /\ at' = "writer"
  /\ UNCHANGED <<obj, seen, account, caVersion, caRead, jobMade, uids, changes, touched>>

\* A transient API error, or a new controller process.
Interrupted ==
  /\ at \notin {"build", "watch", "failed"} /\ changes < MaxChanges
  /\ at' = restart /\ known' = 0 /\ changes' = changes + 1
  /\ UNCHANGED <<obj, seen, account, caVersion, caRead, jobMade, uids, touched>>

\* Outsiders, each a bounded number of times: they delete an object, put another in
\* its place, or edit one in place.
Outsider(o) ==
  /\ changes < MaxChanges /\ uids < MaxUid
  /\ \E new \in {None, [uid |-> uids + 1, says |-> "foreign", val |-> 0]}
                \cup (IF obj[o].says \in Managed THEN {[obj[o] EXCEPT !.says = how] : how \in {"wrongSubject", "unlabelled"}} ELSE {}) :
       obj' = [obj EXCEPT ![o] = new] /\ uids' = IF new.uid > uids THEN new.uid ELSE uids
  /\ changes' = changes + 1 /\ touched' = TRUE
  /\ UNCHANGED <<seen, account, caVersion, known, caRead, at, jobMade>>

\* The Workflow that owns the account is deleted, and may be created anew.
ReplaceAccount ==
  /\ changes < MaxChanges /\ uids < MaxUid
  /\ account' \in {0, uids + 1} /\ uids' = uids + 1
  /\ changes' = changes + 1 /\ touched' = TRUE
  /\ UNCHANGED <<obj, seen, caVersion, known, caRead, at, jobMade>>

RotateCA ==
  /\ changes < MaxChanges
  /\ caVersion' = caVersion + 1 /\ changes' = changes + 1
  /\ UNCHANGED <<obj, seen, account, known, caRead, at, jobMade, uids, touched>>

\* The garbage collector removes what an account owned that is gone.
CollectGarbage ==
  /\ obj.writer.says \in Managed \cup {"unlabelled"} /\ obj.writer.val # account
  /\ obj' = [obj EXCEPT !.writer = None]
  /\ UNCHANGED <<seen, account, caVersion, known, caRead, at, jobMade, uids, changes, touched>>

\* Informers, one per kind of object.
Informers == {{"binding", "caller"}, {"writer"}}

Sync(kind) ==
  /\ \E o \in kind : seen[o] # obj[o]
  /\ seen' = [o \in Objects |-> IF o \in kind THEN obj[o] ELSE seen[o]]
  /\ UNCHANGED <<obj, account, caVersion, known, caRead, at, jobMade, uids, changes, touched>>

Reconcile ==
  \/ Build \/ EnsureAccount \/ EnsureBinding \/ Rebind \/ EnsureCaller \/ Recall \/ EnsureWriter
  \/ CreateWriter \/ EnsureSecrets \/ ReadCA \/ PublishCA \/ CreateJob \/ Watch

Next ==
  \/ Reconcile \/ Interrupted \/ ReplaceAccount \/ RotateCA \/ CollectGarbage
  \/ \E kind \in Informers : Sync(kind)
  \/ \E o \in Objects : Outsider(o)

\* A run is reconciled again and again, informers deliver, the collector runs.
Fairness ==
  /\ WF_accessVars(Reconcile) /\ WF_accessVars(CollectGarbage)
  /\ \A kind \in Informers : WF_accessVars(Sync(kind))

Spec == Init /\ [][Next]_accessVars /\ Fairness
----------------------------------------------------------------------------
TypeOK ==
  /\ obj \in [Objects -> [uid : 0 .. MaxUid, says : Managed \cup Unmanaged \cup {"none"}, val : Nat]]
  /\ account \in 0 .. MaxUid /\ known \in 0 .. MaxUid /\ uids \in 0 .. MaxUid
  /\ jobMade \in BOOLEAN /\ changes \in 0 .. MaxChanges

(* The reconciler never changes or deletes an object that is not OttoFlow's, *)
(* not even one that took the place of the object its cache still shows.  One *)
(* whose label was taken off in place keeps its uid, which is all the Delete  *)
(* asks for: while the cache shows the label it may still be deleted, but it  *)
(* is never changed.                                                          *)
ForeignUntouched ==
  at' # at => \A o \in Objects :
    /\ obj[o].says = "foreign" => obj'[o] = obj[o]
    /\ obj[o].says = "unlabelled" => obj'[o] \in {obj[o], None}

(* Whatever state earlier runs and outsiders left the objects in, and however *)
(* often the reconcile was interrupted: when the Job is created, unless an    *)
(* outsider has interfered meanwhile, its account exists, is bound to the     *)
(* right role, and, if the reconcile has learnt the account's uid, owns the   *)
(* RoleBinding that lets it write checkpoints.  (AlreadyExists hides the uid: *)
(* then a former account's RoleBinding passes, and WriterHeals repairs it.)   *)
AccessBeforeJob ==
  jobMade' /\ ~jobMade /\ ~touched =>
    /\ account # 0
    /\ obj.binding.says = "right"
    /\ obj.caller.says \in {"right", "foreign"}
    /\ known # 0 => obj.writer.says = "right" /\ obj.writer.val = account

(* A runner starts with a ConfigMap of ours in its namespace that holds the   *)
(* CA as it was when this reconcile read it, or that an outsider took away.   *)
CAPublished ==
  jobMade' /\ ~jobMade /\ ~touched => obj.cm.says = "right" /\ obj.cm.val = caRead

(* After outsiders are done, the RoleBinding of a running Job is repaired:    *)
(* one owned by an account that is gone is collected and made anew for the    *)
(* present one, although the cache may show the old binding for a while.      *)
healed ==
  jobMade /\ account # 0 /\ uids < MaxUid /\ obj.writer.says \notin Unmanaged
    => obj.writer.says # "none" /\ obj.writer.val = account
WriterHeals == <>[]healed

(* The reconciler provides for the Job it creates and for nothing else: all   *)
(* the runner needs is there, and what is not OttoFlow's stays as it is.      *)
AccessSound == [][ForeignUntouched /\ AccessBeforeJob /\ CAPublished]_accessVars

============================================================================
