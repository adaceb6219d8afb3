------------------------------ MODULE MCSafety ------------------------------
(***************************************************************************)
(* Model-checking instance of the parts whose safety needs the larger      *)
(* bounds: the cycle check, the pool of MCP clients, the walk that builds  *)
(* the runner's Job, the collector of old bindings, the webhook server,    *)
(* admission, the run policy, the runner's access, exposure, the          *)
(* ConfigMaps a runner leaves behind and the steps that write to the       *)
(* target cluster.                                                         *)
(*                                                                         *)
(* As in MCProgress, a behaviour is a behaviour of one part.  No part      *)
(* needs fairness here: the run policy, access and exposure have theirs in *)
(* MCProgress.                                                             *)
(***************************************************************************)
EXTENDS CycleCheck, FiniteSets

CONSTANTS
  Callers, MaxConfig, MaxTicks, Grace, MaxCalls, MaxIterations,            \* McpPool
  RunNs, Worlds, MaxRefDepth,                                              \* SecretWalk
  Jobs, MaxPods, MaxVersions,                                              \* LegacyGC
  Messages, Handlers, Window, DedupWindow, Delay, Burst, MaxTime, MaxEditions, \* WebhookServer
  Names, Submissions,                                                      \* Admission
  Runs, MaxAllowed, Retention, Rewrites, MaxClock,                         \* FinishedRuns
  MaxUid, MaxChanges,                                                      \* RunnerAccess
  MaxEdits,                                                                \* Exposure
  MaxOthers,                                                               \* Exposure, TargetWrites
  MaxFaults,                                                               \* FinishedRuns, Exposure
  MaxRuns, NSteps, LaterSteps, MaxCrashes,                                 \* RunRecords
  Children, Executors, Paths, Asks                                         \* TargetWrites

VARIABLES
  part,
  server, cached, lastUsed, version, retired, closed, stored, dropped, caller, ticks, shut,
  world, stage, toWalk, walked, refs, found,
  legacyJob, crb, judged, pinned, gcAt, unseen,
  now, sent, handler, limiter, keys, made, live, editions, restarted, admitted,
  spec, admAt, unverified, ended, executing,
  wfRun, wfCache, clock, counted, ends, queue, policy, late, faults,
  obj, seen, account, caVersion, known, caRead, at, jobMade, uids, changes, touched,
  wf, wfSeen, agentNow, agentOld, binding, bindingSeen, existing, saMade, crd, serveImage, copy,
  expAt, queued, edits, others, failures,
  current, born, cachedRun, runner, saves, checkpoint, snapshot, status, finished, saved, concluded, crashes,
  target, report, installed, probe, child, outside

MP == INSTANCE McpPool
SW == INSTANCE SecretWalk
GC == INSTANCE LegacyGC
WH == INSTANCE WebhookServer
AD == INSTANCE Admission
FR == INSTANCE FinishedRuns
RA == INSTANCE RunnerAccess
EX == INSTANCE Exposure
RR == INSTANCE RunRecords
TW == INSTANCE TargetWrites

\* What the proofs take for granted of the constants.  A server has a configuration.
ASSUME PoolAssumption ==
  MaxConfig \in Nat \ {0} /\ MaxTicks \in Nat /\ Grace \in Nat /\ MaxCalls \in Nat

\* A Workflow is a list of steps; the run's own exists, and there are finitely many.
Elems(q) == {q[j] : j \in 1 .. Len(q)}
IsSeq(q) == q \in Seq(Elems(q))
ASSUME WorldsAssumption ==
  /\ MaxRefDepth \in Nat
  /\ \A w \in Worlds :
       /\ <<"A", w.rootNs>> \in DOMAIN w.steps /\ IsFiniteSet(DOMAIN w.steps)
       /\ \A k \in DOMAIN w.steps : IsSeq(w.steps[k])

\* A Job has a pod and a binding a version.
ASSUME CollectorAssumption == MaxPods \in Nat \ {0} /\ MaxVersions \in Nat \ {0}

\* Bounds.
ASSUME WebhookAssumption ==
  /\ Messages # {} /\ Window \in Nat /\ Delay \in Nat /\ DedupWindow \in Nat
  /\ Burst \in Nat /\ MaxTime \in Nat \ {0} /\ MaxEditions \in Nat \ {0}

\* A step's name is not empty (the CRD's pattern), and its actions are those of
\* executeStep.
ActionNames == {AD!ActionOrder[k] : k \in 1 .. 11}
ASSUME SubmissionsAssumption ==
  /\ "" \notin Names
  /\ \A w \in Submissions :
       /\ DOMAIN w.deps \subseteq Names
       /\ \A s \in DOMAIN w.deps :
            /\ w.order[s] \in Nat
            /\ w.acts[s] \subseteq ActionNames /\ w.innerActs[s] \subseteq ActionNames

\* The policy applies only with a limit and a retention that are positive, and is
\* called for a run.
ASSUME FinishedAssumption ==
  /\ Runs # {} /\ IsFiniteSet(Runs)
  /\ MaxAllowed \in Nat \ {0} /\ Retention \in Nat \ {0} /\ MaxClock \in Nat \ {0} /\ MaxFaults \in Nat

\* The first account and its bindings have identities.
ASSUME AccessAssumption == MaxUid \in Nat /\ MaxUid >= 2 /\ MaxChanges \in Nat

\* Bounds.
ASSUME ExposureAssumption == MaxEdits \in Nat /\ MaxOthers \in Nat /\ MaxFaults \in Nat

\* There is a run.
ASSUME RecordsAssumption ==
  MaxRuns \in Nat \ {0} /\ NSteps \in Nat /\ LaterSteps \in Nat /\ MaxCrashes \in Nat

\* A step asks one operation of each path.
ASSUME TargetsAssumption ==
  Asks \subseteq [Paths -> TW!Operations] /\ MaxOthers \in Nat

\* The variables of each part.
mcpVars ==
  <<server, cached, lastUsed, version, retired, closed, stored,
    dropped, caller, ticks, shut>>
secretsVars == <<world, stage, toWalk, walked, refs, found>>
gcVars == <<legacyJob, crb, judged, pinned, gcAt, unseen>>
webhookVars == <<now, sent, handler, limiter, keys, made, live, editions, restarted, admitted>>
admissionVars == <<spec, admAt, unverified, ended, executing>>
finishedVars == <<wfRun, wfCache, clock, counted, ends, queue, policy, late, faults>>
accessVars ==
  <<obj, seen, account, caVersion, known, caRead, at,
    jobMade, uids, changes, touched>>
exposureVars ==
  <<wf, wfSeen, agentNow, agentOld, binding, bindingSeen, existing, saMade, crd, serveImage, copy,
    expAt, queued, edits, others, failures>>
recordsVars ==
  <<current, born, cachedRun, runner, saves, checkpoint, snapshot, status,
    finished, saved, concluded, crashes>>
targetsVars == <<target, report, installed, probe, child, outside>>
allVars ==
  <<part, vars, mcpVars, secretsVars, gcVars, webhookVars, admissionVars, finishedVars,
    accessVars, exposureVars, recordsVars, targetsVars>>

Parts ==
  {"cycle", "mcp", "secrets", "gc", "webhook", "admission", "finished", "access", "exposure",
   "records", "targets"}

\* Values for Worlds, Names, Submissions, Asks and Rewrites.
WorldCases == INSTANCE SecretWorlds
WorkflowCases == INSTANCE AdmissionCases
SomeWorlds == WorldCases!All
SomeNames == WorkflowCases!StepNames
SomeSubmissions == WorkflowCases!All
SomeAsks ==
  {[p |-> "add", q |-> "none"], [p |-> "remove", q |-> "add"],
   [p |-> "test", q |-> "replace"], [p |-> "none", q |-> "none"]}
\* One status is rewritten at most; the runs being alike, it may as well be this one's.
SomeRewrites == {CHOOSE r \in Runs : TRUE} \X {"again", "revive"}

\* The cycle check at rest; any value does for the variables of the other parts.
CycleAtRest == Init /\ deps = [s \in Steps |-> {}]
unused == "unused"

PartsInit ==
  /\ part \in Parts
  /\ IF part = "cycle" THEN Init ELSE CycleAtRest
  /\ IF part = "mcp" THEN MP!Init
     ELSE /\ server = unused /\ cached = unused /\ lastUsed = unused /\ version = unused
          /\ retired = unused /\ closed = unused /\ stored = unused /\ dropped = unused
          /\ caller = unused /\ ticks = unused /\ shut = unused
  /\ IF part = "secrets" THEN SW!Init
     ELSE /\ world = unused /\ stage = unused /\ toWalk = unused /\ walked = unused
          /\ refs = unused /\ found = unused
  /\ IF part = "gc" THEN GC!Init
     ELSE /\ legacyJob = unused /\ crb = unused /\ judged = unused /\ pinned = unused
          /\ gcAt = unused /\ unseen = unused
  /\ IF part = "webhook" THEN WH!Init
     ELSE /\ now = unused /\ sent = unused /\ handler = unused /\ limiter = unused
          /\ keys = unused /\ made = unused /\ live = unused /\ editions = unused
          /\ restarted = unused /\ admitted = unused
  /\ IF part = "admission" THEN AD!Init
     ELSE /\ spec = unused /\ admAt = unused /\ unverified = unused /\ ended = unused
          /\ executing = unused
  /\ IF part = "finished" THEN FR!Init
     ELSE /\ wfRun = unused /\ wfCache = unused /\ clock = unused /\ counted = unused
          /\ ends = unused /\ queue = unused /\ policy = unused /\ late = unused /\ faults = unused
  /\ IF part = "access" THEN RA!Init
     ELSE /\ obj = unused /\ seen = unused /\ account = unused
          /\ caVersion = unused /\ known = unused /\ caRead = unused /\ at = unused
          /\ jobMade = unused /\ uids = unused /\ changes = unused /\ touched = unused
  /\ IF part = "exposure" THEN EX!Init
     ELSE /\ wf = unused /\ wfSeen = unused /\ agentNow = unused /\ agentOld = unused
          /\ binding = unused /\ bindingSeen = unused /\ existing = unused
          /\ saMade = unused /\ crd = unused /\ serveImage = unused /\ copy = unused /\ expAt = unused
          /\ queued = unused /\ edits = unused /\ others = unused /\ failures = unused
  /\ IF part = "records" THEN RR!Init
     ELSE /\ current = unused /\ born = unused /\ cachedRun = unused /\ runner = unused
          /\ saves = unused /\ checkpoint = unused /\ snapshot = unused /\ status = unused
          /\ finished = unused /\ saved = unused /\ concluded = unused /\ crashes = unused
  /\ IF part = "targets" THEN TW!Init
     ELSE /\ target = unused /\ report = unused /\ installed = unused /\ probe = unused
          /\ child = unused /\ outside = unused

\* A step of part p leaves the variables of the other parts alone.
only(p) ==
  /\ part = p /\ UNCHANGED part
  /\ IF p = "cycle" THEN TRUE ELSE UNCHANGED vars
  /\ IF p = "mcp" THEN TRUE ELSE UNCHANGED mcpVars
  /\ IF p = "secrets" THEN TRUE ELSE UNCHANGED secretsVars
  /\ IF p = "gc" THEN TRUE ELSE UNCHANGED gcVars
  /\ IF p = "webhook" THEN TRUE ELSE UNCHANGED webhookVars
  /\ IF p = "admission" THEN TRUE ELSE UNCHANGED admissionVars
  /\ IF p = "finished" THEN TRUE ELSE UNCHANGED finishedVars
  /\ IF p = "access" THEN TRUE ELSE UNCHANGED accessVars
  /\ IF p = "exposure" THEN TRUE ELSE UNCHANGED exposureVars
  /\ IF p = "records" THEN TRUE ELSE UNCHANGED recordsVars
  /\ IF p = "targets" THEN TRUE ELSE UNCHANGED targetsVars

PartsNext ==
  \/ only("cycle") /\ Next
  \/ only("mcp") /\ MP!Next
  \/ only("secrets") /\ SW!Next
  \/ only("gc") /\ GC!Next
  \/ only("webhook") /\ WH!Next
  \/ only("admission") /\ AD!Next
  \/ only("finished") /\ FR!Next
  \/ only("access") /\ RA!Next
  \/ only("exposure") /\ EX!Next
  \/ only("records") /\ RR!Next
  \/ only("targets") /\ TW!Next

PartsSpec == PartsInit /\ [][PartsNext]_allVars
----------------------------------------------------------------------------
\* The properties of the parts, each stated and explained in the module of its
\* part and claimed here of the behaviours of that part.  CycleIsReal and
\* AcyclicIsReal are those of CycleCheck.

\* Every variable of the part at work has its type and keeps to its limit: a walk
\* through sub-workflows to maxWorkflowRefDepth, and so on.
PartsTypeOK ==
  CASE part = "cycle" -> TypeOK
    [] part = "mcp" -> MP!TypeOK
    [] part = "secrets" -> SW!TypeOK
    [] part = "gc" -> GC!TypeOK
    [] part = "webhook" -> WH!TypeOK
    [] part = "admission" -> AD!TypeOK
    [] part = "finished" -> FR!TypeOK
    [] part = "access" -> RA!TypeOK
    [] part = "exposure" -> EX!TypeOK
    [] part = "records" -> RR!TypeOK
    [] part = "targets" -> TW!TypeOK

\* GetClient never answers with an older configuration than the server had when
\* the call began, no client is closed under a caller that got it less than the
\* grace period ago, and every client stored is served, due to be closed or closed.
PoolSound == part = "mcp" => MP!PoolSound

\* The runner's Job mounts every Secret the runner will ask for and no agent of it
\* uses one of a namespace that is not allowed; a run is refused, for LLM
\* credentials it is denied too, only for a reason that is there.
WalkSound == part = "secrets" => SW!WalkSound

\* The collector deletes no binding that a live run's unfinished Job needs, unless
\* the Job or the run came after it listed Jobs, and none that has changed since it
\* was judged.
NeededIsKept == [][part = "gc" => GC!NeededIsKept]_allVars

\* A webhook message whose timestamp is refused before its key is forgotten makes a
\* second run only if a copy of it was being handled at the same time, the Workflow
\* was edited or deleted, or the controller restarted; and otherwise no more than burst
\* requests are admitted at one time.
WebhookSound ==
  /\ [](part = "webhook" => WH!BurstKept)
  /\ [][part = "webhook" => WH!RepeatMakesNoRun]_allVars

\* A step of an admitted Workflow reads nothing by a dotted name that cannot be there
\* yet, none of its actions is silently left out, what it refers to existed where the
\* executor will look if the run is in the Workflow's namespace, and the Workflow
\* never comes to a stop with steps left.
AdmittedCanRun == part = "admission" => AD!AdmittedCanRun

\* The metrics count a run at most once for each time it ends, across merged updates
\* and replicas, and applyRunPolicy deletes one only for its age or for enough newer
\* ones.
FinishedSound ==
  /\ [](part = "finished" => FR!CountedOnce)
  /\ [][part = "finished" => FR!DeletedForCause]_allVars

\* When the runner's Job is created its account, its bindings and the CA that this
\* reconcile read are in place, and no object that is not OttoFlow's was changed.
AccessSound ==
  [][part = "access" => RA!ForeignUntouched /\ RA!AccessBeforeJob /\ RA!CAPublished]_allVars

\* A Workflow that is gone left no Agent behind, nobody's Agent is taken over, and
\* a RoleBinding that grants what the pods need is never removed or spoilt.
ExposureSound ==
  /\ [](part = "exposure" => EX!NoOrphan)
  /\ [][part = "exposure" => EX!NoTakeover /\ EX!GoodBindingKept]_allVars

\* A runner skips only steps its own run has finished, a checkpoint is not put back
\* by a save that comes late, nor lost before it is deleted for the run's end, and a
\* snapshot that a run's status names is not garbage-collected while the run exists.
RecordsSound ==
  /\ [](part = "records" => RR!LoadIsOwn /\ RR!SavedIsKept)
  /\ [][part = "records" => RR!AuditKept]_allVars

\* A mutate step undoes no edit of a path it does not ask for, nobody's metadata of
\* a Report is lost, a Report is of one step, and the reporting steps of one executor
\* agree on whether there are Reports.
TargetsSound ==
  /\ [](part = "targets" => TW!ReportOfOneStep /\ TW!OneMode)
  /\ [][part = "targets" => TW!OnlyWhatIsAsked /\ TW!MetadataKept]_allVars
============================================================================
