----------------------------- MODULE SecretWalk -----------------------------
(***************************************************************************)
(* buildWorkflowRunnerJob: what the controller finds out about a Workflow  *)
(* before it creates the runner's Job.                                     *)
(*                                                                         *)
(* Three depth-first walks over the Workflow and everything it refers to:  *)
(* when the credentials Secret may not be read, does an agent that         *)
(* certainly runs need it (then the run fails); does any agent run at all  *)
(* (then the CA is mounted); which Secrets are referred to and in which    *)
(* namespace.  The Secrets of the last walk are checked against the policy *)
(* and mounted.  Every refusal is terminal: the run fails.  The runner     *)
(* resolves the same references again with code of its own: runnerReads is *)
(* translated from the runner's side, and the properties compare the two.  *)
(***************************************************************************)
EXTENDS Naturals, Sequences, FiniteSets

CONSTANTS
  RunNs,       \* the WorkflowRun's namespace
  Worlds,      \* the clusters and settings considered
  MaxRefDepth  \* maxWorkflowRefDepth

VARIABLES
  world,       \* the cluster the Job is built in
  stage,       \* the walk in progress, or how the build ended
  toWalk,      \* steps the walk has yet to look at, innermost first
  walked,      \* the visited Workflows
  refs,        \* resolved Secret references
  found        \* walks that answered true

walkVars == <<world, stage, toWalk, walked, refs, found>>

Walks == <<"creds", "agent", "secrets">>
namespaceOr(ns, effective) == IF ns = "" THEN effective ELSE ns
rootKey == <<"A", world.rootNs>>
item(step, ns, depth) == [step |-> step, ns |-> ns, depth |-> depth]
items(key, ns, depth) ==
  [i \in DOMAIN world.steps[key] |-> item(world.steps[key][i], ns, depth)]

\* The root's own steps resolve in the run's namespace, wherever the root is.
begin(walk) ==
  /\ stage' = walk
  /\ toWalk' = items(rootKey, RunNs, 0)
  /\ walked' = {rootKey}

\* rejectReservedRunnerEnv is part of reading the run's job settings.  The walk for
\* the credentials is made only where their Secret is configured, the run brings no
\* token of its own, and the review or the read of the Secret is denied.
Init ==
  /\ world \in Worlds
  /\ stage = CASE world.job = "reservedEnv" -> "rejected"
               [] world.job # "reservedEnv" /\ world.denied -> "creds"
               [] OTHER -> "agent"
  /\ toWalk = items(rootKey, RunNs, 0) /\ walked = {rootKey}
  /\ refs = {} /\ found = {}
----------------------------------------------------------------------------
ref(ns, name, key, optional, mount) ==
  [ns |-> ns, name |-> name, key |-> key, optional |-> optional, mount |-> mount]

externalAgentRefSecretRefs(b, effective) ==
  {ref(namespaceOr(b.ns, effective), "agent", k, FALSE, TRUE) : k \in {"ca.crt", "token"}}

mcpServerSecretRefs(ns, mount) ==
  LET s == world.server[ns]
      keys == CASE s.auth = "basic" -> {"username", "password"}
                [] s.auth = "clientCredentials" -> {"client_id", "client_secret"}
                [] s.auth \in {"bearer", "clientSecret"} -> {"token"}
                [] OTHER -> {}
  IN {ref(ns, "mcp", "env", s.env = "optional", mount) : e \in {s.env} \ {"none"}}
     \cup {ref(namespaceOr(s.ns, ns), "mcp", k, FALSE, mount) : k \in keys}

\* The servers of an agent are those of the Agent's namespace, and it is the
\* agent-executor that reads their Secrets.
agentRefSecretRefs(b, effective) == mcpServerSecretRefs(namespaceOr(b.ns, effective), FALSE)

head == Head(toWalk)
isWalk == stage \in {"creds", "agent", "secrets"}
next(more) == toWalk' = more \o Tail(toWalk)
reject == stage' = "rejected" /\ UNCHANGED <<world, toWalk, walked, refs, found>>
look(via) == isWalk /\ toWalk # <<>> /\ head.step.via = via
lookAt(kind) == look("direct") /\ head.step.body.kind = kind

\* stepMayNotRun, and forEach over a list that may be empty: a walk for what is
\* certainly needed does not go there.
skipped == stage = "creds" /\ (head.step.mayNotRun \/ head.step.via \in {"forEach", "forEachTemplate"})

Skip ==
  /\ isWalk /\ toWalk # <<>> /\ skipped
  /\ next(<<>>) /\ UNCHANGED <<world, stage, walked, refs, found>>

\* A template or a forEach stands for its body, walked with the namespace of
\* the step that refers to it; only the template itself is fetched elsewhere.
direct(body) == [via |-> "direct", mayNotRun |-> FALSE, body |-> body]

Expand ==
  /\ isWalk /\ toWalk # <<>> /\ ~skipped
  /\ head.step.via \in {"template", "forEachTemplate"}
  /\ LET ns == namespaceOr(head.step.ns, head.ns)
     IN IF ns \in DOMAIN world.template
        THEN /\ next(<<item(direct(world.template[ns]), head.ns, head.depth)>>)
             /\ UNCHANGED <<world, stage, walked, refs, found>>
        ELSE reject

ForEachStep ==
  /\ look("forEach") /\ ~skipped
  /\ next(<<item(direct(head.step.body), head.ns, head.depth)>>)
  /\ UNCHANGED <<world, stage, walked, refs, found>>

\* A step with nothing a walk looks for.
Plain ==
  /\ \/ lookAt("plain")
     \/ stage # "secrets" /\ (lookAt("external") \/ lookAt("mcp"))
  /\ ~skipped
  /\ next(<<>>) /\ UNCHANGED <<world, stage, walked, refs, found>>

collect(rs) == next(<<>>) /\ refs' = refs \cup rs /\ UNCHANGED <<world, stage, walked, found>>

External ==
  /\ stage = "secrets" /\ lookAt("external")
  /\ collect(externalAgentRefSecretRefs(head.step.body, head.ns))

McpTool ==
  /\ stage = "secrets" /\ lookAt("mcp")
  /\ IF head.ns \in DOMAIN world.server THEN collect(mcpServerSecretRefs(head.ns, TRUE)) ELSE reject

\* agentRefNeeds: the first agent ends the walk, for the credentials the first
\* whose provider is Nirmata.  agentRefSecretRefs fails without the Agent or one
\* of its servers.
Agent ==
  /\ lookAt("agent") /\ ~skipped
  /\ LET ns == namespaceOr(head.step.body.ns, head.ns)
         needed == \/ stage = "agent"
                   \/ stage = "creds" /\ ns \in DOMAIN world.provider /\ world.provider[ns] = "nirmata"
     IN IF stage = "secrets"
        THEN IF ns \in DOMAIN world.provider \cap DOMAIN world.server
             THEN collect(agentRefSecretRefs(head.step.body, head.ns)) ELSE reject
        ELSE /\ IF needed THEN toWalk' = <<>> /\ found' = found \cup {stage}
                ELSE next(<<>>) /\ UNCHANGED found
             /\ UNCHANGED <<world, stage, walked, refs>>

subKey_NoNamespace(b, effective) == <<b.name, RunNs>>

subKey(b, effective) == <<b.name, namespaceOr(b.ns, effective)>>

Descend_OneDeeper ==
  /\ lookAt("workflow") /\ ~skipped
  /\ LET key == subKey(head.step.body, head.ns)
     IN IF head.depth > MaxRefDepth \/ key \notin walked \cup DOMAIN world.steps THEN reject
        ELSE /\ next(IF key \in walked THEN <<>> ELSE items(key, key[2], head.depth + 1))
             /\ walked' = walked \cup {key}
             /\ UNCHANGED <<world, stage, refs, found>>

\* fromWorkflowRef: the depth is checked first; a Workflow visited before ends
\* the branch; the steps of a new one resolve in its own namespace.
Descend ==
  /\ lookAt("workflow") /\ ~skipped
  /\ LET key == subKey(head.step.body, head.ns)
     IN IF head.depth >= MaxRefDepth \/ key \notin walked \cup DOMAIN world.steps THEN reject
        ELSE /\ next(IF key \in walked THEN <<>> ELSE items(key, key[2], head.depth + 1))
             /\ walked' = walked \cup {key}
             /\ UNCHANGED <<world, stage, refs, found>>

\* handleDeniedLLMCredentialsRead fails the run that needs what it may not read; the
\* CA volume must not collide with a volume of the run.
refused ==
  \/ stage = "creds" /\ "creds" \in found
  \/ stage = "agent" /\ "agent" \in found /\ world.job = "caVolume"

EndWalk ==
  /\ stage \in {"creds", "agent"} /\ toWalk = <<>>
  /\ IF refused
     THEN stage' = "rejected" /\ UNCHANGED <<toWalk, walked>>
     ELSE begin(IF stage = "creds" THEN "agent" ELSE "secrets")
  /\ UNCHANGED <<world, refs, found>>

kubeconfigRef ==
  {ref(namespaceOr(ns, RunNs), "kubeconfig", "", FALSE, TRUE) : ns \in world.kubeconfig}

validateSecretRefPolicy(rs) ==
  \A r \in rs : r.ns = RunNs \/ (~r.mount /\ r.ns \in world.allowed)

\* A volume reaches Secrets of the pod's namespace only.  Names and keys that no
\* Secret can have are refused as well, and left out.
buildSecretMounts(rs) ==
  world.job # "reservedVolume" /\ \A r \in rs : r.mount => r.ns = RunNs

\* A Secret or a key of it that is mandatory, that the controller may look up, and
\* that is not there.
checkSecretMounts(rs) ==
  \A r \in rs : r.mount /\ ~r.optional => <<r.name, r.key>> \notin world.missing

Finish ==
  /\ stage = "secrets" /\ toWalk = <<>>
  /\ refs' = refs \cup kubeconfigRef
  /\ stage' = IF validateSecretRefPolicy(refs') /\ buildSecretMounts(refs') /\ checkSecretMounts(refs')
              THEN "built" ELSE "rejected"
  /\ UNCHANGED <<world, toWalk, walked, found>>

Next ==
  \/ Skip \/ Expand \/ ForEachStep \/ Plain \/ External \/ McpTool \/ Agent \/ Descend
  \/ EndWalk \/ Finish

Spec == Init /\ [][Next]_walkVars
----------------------------------------------------------------------------
\* Keys of one Secret that are mandatory for one step and optional for another
\* share no volume; a key that is both is mounted as mandatory.
id(r) == [ns |-> r.ns, name |-> r.name, key |-> r.key]
mandatory == {id(r) : r \in {r \in refs : r.mount /\ ~r.optional /\ r.name # "kubeconfig"}}
optionalKeys == {id(r) : r \in {r \in refs : r.mount /\ r.optional}} \ mandatory
mountsMap == mandatory \cup optionalKeys

\* What the runner resolves, from executeStep and the executors it calls: a
\* context is a Workflow and the namespace of the (inline) run that executes it.
Contexts == {<<rootKey, RunNs>>} \cup {<<k, k[2]>> : k \in DOMAIN world.steps}

bodyOf(s, ns) ==
  IF s.via \notin {"template", "forEachTemplate"} THEN s.body
  ELSE LET t == namespaceOr(s.ns, ns)
       IN IF t \in DOMAIN world.template THEN world.template[t] ELSE [kind |-> "plain"]

executed(c) == {bodyOf(world.steps[c[1]][i], c[2]) : i \in DOMAIN world.steps[c[1]]}

executeWorkflowReference(c) ==
  {LET ns == namespaceOr(b.ns, c[2]) IN <<<<b.name, ns>>, ns>> :
     b \in {b \in executed(c) : b.kind = "workflow"}}

reachable == {c \in Contexts :
  \A S \in SUBSET Contexts :
    <<rootKey, RunNs>> \in S /\ (\A d \in S : executeWorkflowReference(d) \cap Contexts \subseteq S) => c \in S}

secret(ns, name, key) == [ns |-> ns, name |-> name, key |-> key]

resolveAuthConfigs(ns, s) ==
  {secret(namespaceOr(s.ns, ns), "mcp", k) :
     k \in CASE s.auth \in {"bearer", "clientSecret"} -> {"token"}
             [] s.auth = "basic" -> {"username", "password"}
             [] s.auth = "clientCredentials" -> {"client_id", "client_secret"}
             [] OTHER -> {}}

\* buildMCPClientConfig reads env for stdio servers and auth for the others.
clientReads(ns) ==
  LET s == world.server[ns]
  IN IF s.transport = "stdio" THEN {secret(ns, "mcp", "env") : e \in {s.env} \ {"none"}}
     ELSE resolveAuthConfigs(ns, s)

bodyReads(b, ns) ==
  CASE b.kind = "external" -> {secret(namespaceOr(b.ns, ns), "agent", k) : k \in {"ca.crt", "token"}}
    [] b.kind = "mcp" -> clientReads(ns)
    [] OTHER -> {}

runnerReads == UNION {UNION {bodyReads(b, c[2]) : b \in executed(c)} : c \in reachable}

agentNamespaces ==
  UNION {{namespaceOr(b.ns, c[2]) : b \in {b \in executed(c) : b.kind = "agent"}} : c \in reachable}

\* A root outside the run's namespace that is reached again by reference runs
\* there a second time, but counts as visited.
rootReentered == rootKey # <<"A", RunNs>> /\ <<rootKey, rootKey[2]>> \in reachable
----------------------------------------------------------------------------
TypeOK ==
  /\ stage \in {"creds", "agent", "secrets", "built", "rejected"}
  /\ walked \subseteq DOMAIN world.steps
  /\ \A i \in DOMAIN toWalk : toWalk[i].depth <= MaxRefDepth
  /\ found \subseteq {"creds", "agent"}

(* A Job that is built mounts every Secret its runner will ask for: the     *)
(* walk and the executors default namespaces alike through sub-workflows,   *)
(* templates, forEach and servers.  The exception is a Workflow outside the *)
(* run's namespace that refers to itself.                                   *)
MountsSuffice == stage = "built" /\ ~rootReentered => runnerReads \subseteq mountsMap

(* A Job that is built lets no agent use a Secret of a namespace that is    *)
(* neither the run's nor allowed, and the CA is mounted exactly when some   *)
(* step of the run can call the agent-executor.                             *)
AgentsVetted ==
  stage = "built" /\ ~rootReentered =>
    /\ \A ns \in agentNamespaces : \A s \in clientReads(ns) : s.ns = RunNs \/ s.ns \in world.allowed
    /\ "agent" \in found <=> agentNamespaces # {}

\* What runs whenever the Workflow of the context does.
certainly(c) ==
  LET steps == {world.steps[c[1]][i] : i \in DOMAIN world.steps[c[1]]}
  IN {bodyOf(s, c[2]) : s \in {s \in steps : ~s.mayNotRun /\ s.via \in {"direct", "template"}}}

\* An agent that cannot be skipped, and whose provider needs the credentials.
credsNeeded ==
  \E c \in reachable : \E b \in certainly(c) :
    /\ b.kind = "agent"
    /\ LET ns == namespaceOr(b.ns, c[2]) IN ns \in DOMAIN world.provider /\ world.provider[ns] = "nirmata"

(* A run fails for credentials that may not be read only for an agent that  *)
(* cannot be skipped, and only when its provider needs them.                *)
CredsEarned == "creds" \in found => world.denied /\ credsNeeded

\* The number of Workflows referred to from the root, directly or not.
referred == Cardinality({c[1] : c \in reachable})

(* References that form a cycle are no reason to refuse a run: the depth    *)
(* limit is met only by a chain of that many different Workflows.           *)
DepthIsReal ==
  lookAt("workflow") /\ head.depth >= MaxRefDepth => referred > MaxRefDepth

\* Everything the run can reach exists and resolves in the run's namespace, no Secret
\* is known to be missing or needed and denied, and there are too few Workflows for a
\* chain of references to be too long.
local ==
  /\ world.job = "plain" /\ world.kubeconfig \subseteq {""}
  /\ world.missing = {} /\ (world.denied => ~credsNeeded)
  /\ RunNs \in DOMAIN world.server \cap DOMAIN world.provider
  /\ world.server[RunNs].ns = ""
  /\ referred <= MaxRefDepth
  /\ \A c \in reachable :
       /\ c[2] = RunNs
       /\ \A b \in executed(c) : b.kind = "plain" \/ b.ns = ""
       /\ \A b \in executed(c) : b.kind = "workflow" => <<b.name, RunNs>> \in DOMAIN world.steps
       /\ \A i \in DOMAIN world.steps[c[1]] :
            world.steps[c[1]][i].via \in {"template", "forEachTemplate"} =>
              namespaceOr(world.steps[c[1]][i].ns, RunNs) \in DOMAIN world.template

(* A run that needs nothing outside its namespace, nothing that is missing  *)
(* and no credentials it is denied is never refused, even when a template   *)
(* is fetched from another namespace.                                       *)
LocalIsAccepted == stage = "rejected" => ~local

(* The walks of the controller and the runner's own resolution agree: the  *)
(* Job has what the runner asks for, and none is refused without a reason. *)
WalkSound == MountsSuffice /\ AgentsVetted /\ CredsEarned /\ DepthIsReal /\ LocalIsAccepted

============================================================================
