----------------------------- MODULE MCProgress -----------------------------
(***************************************************************************)
(* Model-checking instance of the parts that must get somewhere: the step  *)
(* loop, forEach, agent calls, the servers that run Workflows for callers, *)
(* the trigger registry, the run policy, the runner's access, exposure and *)
(* the webhook's certificates.                                             *)
(*                                                                         *)
(* The parts share no state, so a behaviour is a behaviour of one of them: *)
(* part says of which, and the variables of the others stay put.  Each     *)
(* part is scheduled as its own specification says.                        *)
(***************************************************************************)
EXTENDS StepExecutor

CONSTANTS
  MaxItems, Limits,                                \* ForEach
  MaxRetries,                                      \* AgentCall
  Calls, Caps, MaxFlips, MaxCalls,                 \* RunServers
  Triggers, Specs, Slots, MaxEdits, MaxRefusals,   \* TriggerRegistry
  Runs, MaxAllowed, Retention, Rewrites, MaxClock, \* FinishedRuns
  MaxUid, MaxChanges,                              \* RunnerAccess
  MaxOwnerEdits, MaxOthers,                        \* Exposure
  MaxFaults,                                       \* FinishedRuns, Exposure
  Replicas, MaxKeys, MaxMishaps                    \* CertManager

VARIABLES
  part,
  loop, feed, worker, stopped, cancelled, results, failed, written, answer,
  kind, callAt, attempt, deadline, request, task, reply, agentRuns, verdictOf,
  cap, exposed, cacheOpen, flips, handlerAt, everOpen, admitMu, run, deleted, cut, told,
  wanted, edition, exists, pending, schedule, watcher, goroutine, refusals,
  wfRun, wfCache, clock, counted, ends, queue, policy, late, faults,
  obj, seen, account, caVersion, known, caRead, at, jobMade, uids, changes, touched,
  wf, wfSeen, agentNow, agentOld, binding, bindingSeen, existing, saMade, crd, serveImage, copy, expAt,
  queued, edits, others, failures,
  ca, leaf, vwc, replica, caKeys, mishaps

FE == INSTANCE ForEach
AC == INSTANCE AgentCall
RS == INSTANCE RunServers
TR == INSTANCE TriggerRegistry
FR == INSTANCE FinishedRuns
RA == INSTANCE RunnerAccess
EX == INSTANCE Exposure WITH MaxEdits <- MaxOwnerEdits
CM == INSTANCE CertManager

\* What the proofs take for granted of the constants.  isRetryableExecErr is asked
\* after the first attempt at the earliest.
ASSUME RetriesAssumption == MaxRetries \in Nat \ {0}

\* An item list has some length.
ASSUME ItemsAssumption == MaxItems \in Nat

\* The calls are the two of the A2A server and the tool call.
ASSUME ServersAssumption ==
  /\ Calls \subseteq {"stream", "send", "tool"}
  /\ Caps \subseteq Nat /\ MaxFlips \in Nat

\* Triggers and goroutines are numbered.
ASSUME RegistryAssumption ==
  /\ Triggers \subseteq Nat \ {0} /\ IsFiniteSet(Triggers)
  /\ Slots \subseteq Nat \ {0} /\ IsFiniteSet(Slots)
  /\ Specs \subseteq [Triggers -> TR!Kinds]
  /\ MaxEdits \in Nat \ {0}

\* There are runs, and time to finish them in.
ASSUME FinishedAssumption == Runs # {} /\ MaxClock \in Nat \ {0}

\* The first account and its bindings have identities.
ASSUME AccessAssumption == MaxUid \in Nat /\ MaxUid >= 2 /\ MaxChanges \in Nat

\* Bounds.
ASSUME ExposureAssumption == MaxOwnerEdits \in Nat /\ MaxOthers \in Nat /\ MaxFaults \in Nat

\* A CA can be made.
ASSUME CertAssumption == MaxKeys \in Nat \ {0} /\ MaxMishaps \in Nat

\* The variables of each part.
forEachVars ==
  <<loop, feed, worker, stopped, cancelled, results,
    failed, written, answer>>
agentVars ==
  <<kind, callAt, attempt, deadline, request, task,
    reply, agentRuns, verdictOf>>
serversVars ==
  <<cap, exposed, cacheOpen, flips, handlerAt, everOpen, admitMu,
    run, deleted, cut, told>>
triggersVars ==
  <<wanted, edition, exists, pending, schedule,
    watcher, goroutine, refusals>>
finishedVars == <<wfRun, wfCache, clock, counted, ends, queue, policy, late, faults>>
accessVars ==
  <<obj, seen, account, caVersion, known, caRead, at,
    jobMade, uids, changes, touched>>
exposureVars ==
  <<wf, wfSeen, agentNow, agentOld, binding, bindingSeen, existing, saMade, crd, serveImage, copy,
    expAt, queued, edits, others, failures>>
certVars == <<ca, leaf, vwc, replica, caKeys, mishaps>>
allVars ==
  <<part, vars, forEachVars, agentVars, serversVars, triggersVars, finishedVars, accessVars,
    exposureVars, certVars>>

Parts == {"steps", "forEach", "agent", "servers", "triggers", "finished", "access", "exposure",
          "certs"}

\* Values for TriggerRegistry's Specs: the kinds that differ, in both orders.
SomeTriggers ==
  {<<"event", "cron">>, <<"badCron", "event">>, <<"event", "badCron">>, <<"cron", "event">>,
   <<"badEvent", "cron">>, <<"event", "badEvent">>, <<"outOfScope", "webhook">>}

\* The step loop at rest; any value does for the variables of the other parts.
StepsAtRest ==
  /\ Init
  /\ deps = [s \in Steps |-> {}] /\ cont = {} /\ status = [s \in Steps |-> "Pending"]

unused == "unused"

PartsInit ==
  /\ part \in Parts
  /\ IF part = "steps" THEN Init ELSE StepsAtRest
  /\ IF part = "forEach" THEN FE!Init
     ELSE /\ loop = unused /\ feed = unused /\ worker = unused /\ stopped = unused
          /\ cancelled = unused /\ results = unused /\ failed = unused /\ written = unused
          /\ answer = unused
  /\ IF part = "agent" THEN AC!Init
     ELSE /\ kind = unused /\ callAt = unused /\ attempt = unused /\ deadline = unused
          /\ request = unused /\ task = unused /\ reply = unused /\ agentRuns = unused
          /\ verdictOf = unused
  /\ IF part = "servers" THEN RS!Init
     ELSE /\ cap = unused /\ exposed = unused /\ cacheOpen = unused /\ flips = unused
          /\ handlerAt = unused /\ everOpen = unused /\ admitMu = unused /\ run = unused
          /\ deleted = unused /\ cut = unused /\ told = unused
  /\ IF part = "triggers" THEN TR!Init
     ELSE /\ wanted = unused /\ edition = unused /\ exists = unused /\ pending = unused
          /\ schedule = unused /\ watcher = unused /\ goroutine = unused
          /\ refusals = unused
  /\ IF part = "finished" THEN FR!Init
     ELSE /\ wfRun = unused /\ wfCache = unused /\ clock = unused /\ counted = unused
          /\ ends = unused /\ queue = unused /\ policy = unused /\ late = unused /\ faults = unused
  /\ IF part = "access" THEN RA!Init
     ELSE /\ obj = unused /\ seen = unused /\ account = unused
          /\ caVersion = unused /\ known = unused /\ caRead = unused /\ at = unused
          /\ jobMade = unused /\ uids = unused /\ changes = unused /\ touched = unused
  /\ IF part = "exposure" THEN EX!Init
     ELSE /\ wf = unused /\ wfSeen = unused /\ agentNow = unused /\ agentOld = unused
          /\ binding = unused /\ bindingSeen = unused /\ existing = unused
          /\ saMade = unused /\ crd = unused /\ serveImage = unused /\ copy = unused /\ expAt = unused
          /\ queued = unused /\ edits = unused /\ others = unused /\ failures = unused
  /\ IF part = "certs" THEN CM!Init
     ELSE /\ ca = unused /\ leaf = unused /\ vwc = unused /\ replica = unused
          /\ caKeys = unused /\ mishaps = unused

\* A step of part p leaves the variables of the other parts alone.
only(p) ==
  /\ part = p /\ UNCHANGED part
  /\ IF p = "steps" THEN TRUE ELSE UNCHANGED vars
  /\ IF p = "forEach" THEN TRUE ELSE UNCHANGED forEachVars
  /\ IF p = "agent" THEN TRUE ELSE UNCHANGED agentVars
  /\ IF p = "servers" THEN TRUE ELSE UNCHANGED serversVars
  /\ IF p = "triggers" THEN TRUE ELSE UNCHANGED triggersVars
  /\ IF p = "finished" THEN TRUE ELSE UNCHANGED finishedVars
  /\ IF p = "access" THEN TRUE ELSE UNCHANGED accessVars
  /\ IF p = "exposure" THEN TRUE ELSE UNCHANGED exposureVars
  /\ IF p = "certs" THEN TRUE ELSE UNCHANGED certVars

PartsNext ==
  \/ only("steps") /\ Next
  \/ only("forEach") /\ FE!Next
  \/ only("agent") /\ AC!Next
  \/ only("servers") /\ RS!Next
  \/ only("triggers") /\ TR!Next
  \/ only("finished") /\ FR!Next
  \/ only("access") /\ RA!Next
  \/ only("exposure") /\ EX!Next
  \/ only("certs") /\ CM!Next

\* The Fairness of each part, of its own steps.
PartsFairness ==
  /\ WF_allVars(only("steps") /\ Next)
  /\ WF_allVars(only("forEach") /\ FE!NoItems) /\ WF_allVars(only("forEach") /\ FE!Feed)
  /\ WF_allVars(only("forEach") /\ FE!Return)
  /\ \A i \in 1 .. MaxItems : WF_allVars(only("forEach") /\ FE!WorkerStep(i))
  /\ WF_allVars(only("agent") /\ AC!StepMoves)
  /\ WF_allVars(only("agent") /\ kind = "external" /\ AC!Expire)
  /\ \A c \in Calls : WF_allVars(only("servers") /\ RS!Handler(c))
  /\ WF_allVars(only("triggers") /\ (TR!Register \/ TR!Unregister))
  /\ \A s \in Slots : /\ WF_allVars(only("triggers") /\ TR!ReaderStep(s))
                      /\ WF_allVars(only("triggers") /\ TR!EndsWithContext(s))
  /\ WF_allVars(only("finished") /\ FR!Reconcile) /\ WF_allVars(only("finished") /\ FR!Deliver)
  /\ WF_allVars(only("access") /\ RA!Reconcile) /\ WF_allVars(only("access") /\ RA!CollectGarbage)
  /\ \A kinds \in RA!Informers : WF_allVars(only("access") /\ RA!Sync(kinds))
  /\ WF_allVars(only("exposure") /\ EX!Worker) /\ WF_allVars(only("exposure") /\ EX!CacheSyncs)
  /\ \A r \in Replicas : WF_allVars(only("certs") /\ CM!Step(r))

PartsSpec == PartsInit /\ [][PartsNext]_allVars /\ PartsFairness
----------------------------------------------------------------------------
\* The properties of the parts, each stated and explained in the module of its
\* part and claimed here of the behaviours of that part.  NilMeansSucceeded and
\* KeepsPromise are those of StepExecutor.

\* Every variable of the part at work has its type and keeps to its limit: the
\* attempts of an agent call to execHTTPMaxRetries, and so on.
PartsTypeOK ==
  CASE part = "steps" -> TypeOK
    [] part = "forEach" -> FE!TypeOK
    [] part = "agent" -> AC!TypeOK
    [] part = "servers" -> RS!TypeOK
    [] part = "triggers" -> TR!TypeOK
    [] part = "finished" -> FR!TypeOK
    [] part = "access" -> RA!TypeOK
    [] part = "exposure" -> EX!TypeOK
    [] part = "certs" -> CM!TypeOK

\* A forEach step that returns nil earned it (an item succeeded, under policy Fail
\* none failed, unless it was cancelled every item has a result), what it publishes
\* agrees, and under policy Fail no queued worker starts once an item has failed.
ForEachSound ==
  /\ [](part = "forEach" => FE!NilIsEarned /\ FE!ResultsAgree)
  /\ [][part = "forEach" => FE!NothingStartsAfterFailure]_allVars

\* A step starts its agent at most once, whatever is lost or retried, and succeeds
\* only with the answer of an agent that finished.
CallSound == part = "agent" => AC!CallSound

\* Steps and their loop end: ExecuteWorkflow returns and stays returned, executeForEach
\* returns, whatever fails, stops or is cancelled, and so does an agent step although
\* the service or the remote task may hang.
StepsEnd ==
  /\ <>[](part = "steps" => pc = "returned")
  /\ <>[](part = "forEach" => answer # "none")
  /\ <>[](part = "agent" => callAt = "done")

\* The A2A and MCP servers never call a run completed that did not succeed, nor
\* failed one that merely outlasted the call; overlapping A2A calls do not push their
\* own runs over maxConcurrentRuns, and a call that only ever saw the Workflow opted
\* out creates no run.
ServersSound == part = "servers" => RS!AnswerIsTrue /\ RS!RunsAdmitted

\* Every call is answered: no lock is left behind and no run awaited for ever.
CallsAnswered == <>[](part = "servers" => RS!nobodyWaits)

\* A trigger is read by at most one goroutine that was not told to stop, the one
\* the trigger manager can stop.
OneReader == part = "triggers" => TR!OneReader

\* When edits end, what is registered is what the latest edition asks for, and a
\* watch goroutine whose trigger was replaced or removed ends.
TriggersConverge ==
  /\ <>[](part = "triggers" => TR!registered)
  /\ \A s \in Slots : []<>(part = "triggers" => ~TR!replaced(s))

\* Once runs stop ending, at most maxAllowed finished ones are left.
CapReached == <>[](part = "finished" => FR!underCap)

\* The RoleBinding of a running Job is repaired for the present account.
WriterHeals == <>[](part = "access" => RA!healed)

\* When edits end, what is published follows the Workflow.
ExposureFollows == <>[](part = "exposure" => EX!published)

\* Without a second CA, no replica serves a certificate that the webhook
\* configuration the replicas share does not trust, once one of them could patch it.
ServedIsTrusted == part = "certs" => CM!ServedIsTrusted

\* The replicas' passes over the certificate Secrets come to rest on a pair that
\* verifies, with every replica up, unless a Secret holds a key that decodes but
\* does not parse.
CertsSettle == <>[](part = "certs" => CM!stuck \/ CM!settled)
============================================================================
