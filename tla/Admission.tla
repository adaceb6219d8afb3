----------------------------- MODULE Admission -----------------------------
(***************************************************************************)
(* The Workflow admission webhook, and what the executor then does with a  *)
(* Workflow it let pass.                                                   *)
(*                                                                         *)
(* A submission is checked stage by stage and rejected at the first error. *)
(* Whatever is admitted is executed: a step whose dependencies are done    *)
(* starts, reads what its expressions refer to, and executeStep dispatches *)
(* on the first action that is set.  Expressions are reduced to the steps, *)
(* variables and inputs they mention, to how they write the name, and to   *)
(* the place they stand in.                                                *)
(***************************************************************************)
EXTENDS Naturals, Sequences, FiniteSets

CONSTANTS
  Names,        \* names of steps
  Submissions   \* the Workflows that are submitted

VARIABLES
  spec,         \* the Workflow
  admAt,        \* the stage of the webhook, then "admitted" or "rejected"
  unverified,   \* a lookup failed for another reason than NotFound
  ended,        \* steps that are done
  executing     \* the step being executed and the actions dispatched for it

admVars == <<spec, admAt, unverified, ended, executing>>

Nothing == [step |-> "", chain |-> <<>>]
steps == DOMAIN spec.deps

\* ValidateCreate starts with the scope of the event triggers; ValidateUpdate
\* does so only when the triggers change.
firstStage(s) == IF s.triggersChanged THEN "scope" ELSE "dag"

Init ==
  /\ spec \in Submissions
  /\ admAt = firstStage(spec)
  /\ unverified = FALSE /\ ended = {} /\ executing = Nothing

stage(here, ok, next) ==
  /\ admAt = here
  /\ admAt' = IF ok THEN next ELSE "rejected"
  /\ UNCHANGED <<spec, unverified, ended, executing>>

validateEventScope == stage("scope", spec.inScope, "dag")

\* BuildDAG: every dependency is a step, and there is no cycle.
BuildDAG ==
  stage("dag",
        /\ \A s \in steps : spec.deps[s] \subseteq steps
        /\ \A S \in (SUBSET steps) \ {{}} : \E s \in S : spec.deps[s] \cap S = {},
        "deps")

\* The steps whose outputs, or whose inline forEach step's outputs, have that name.
producers(v) == {s \in steps : v \in spec.writes[s]}

hasProducerDependency_AnyProducer(s, v) == producers(v) # {}

hasProducerDependency(s, v) ==
  \E p \in producers(v) : p = s \/ p \in spec.deps[s]

\* The strings of a step that are searched for references: those of the step
\* itself and those of an inline forEach step; of a forEach over a template only
\* the items, and nothing of the template.
collectCELStringsFromStep(s) == IF spec.place[s] = "step" THEN spec.reads[s] ELSE {}

collectCELStringsFromForEachStep(s) == IF spec.place[s] = "inner" THEN spec.reads[s] ELSE {}

scanned(s) == collectCELStringsFromStep(s) \cup collectCELStringsFromForEachStep(s)

\* A mention of a step, a variable or an input (its root) is written with a dot, with
\* the name in brackets and quotes, or stands in the text of a string literal.  stem
\* is its name up to the first character that is no letter and no digit.
mention(root, name, form, stem) == [root |-> root, name |-> name, form |-> form, stem |-> stem]

\* The patterns stepsRefRe, variablesRefRe and inputsRefRe: none sees a name in
\* brackets, the literals are cut out first except for variables, and the name of a
\* variable is taken to end with its stem (a step's name is all stem).
extractStepRefs(ms) == {m.name : m \in {m \in ms : m.root = "steps" /\ m.form = "dot"}}
extractVariableRefs(ms) == {m.stem : m \in {m \in ms : m.root = "variables" /\ m.form \in {"dot", "literal"}}}
extractInputRefs(ms) == {m.name : m \in {m \in ms : m.root = "inputs" /\ m.form = "dot"}}

ValidateStepDependencies ==
  stage("deps",
        \A s \in steps :
          /\ extractStepRefs(scanned(s)) \cap steps \subseteq spec.deps[s] \cup {s}
          /\ \A v \in extractVariableRefs(scanned(s)) \ spec.variables :
               producers(v) = {} \/ hasProducerDependency(s, v),
        "inputs")

\* In the steps, and in the Workflow's own variables and outputs.
ValidateInputRefs ==
  stage("inputs",
        /\ \A s \in steps : extractInputRefs(scanned(s)) \subseteq spec.inputs
        /\ extractInputRefs(spec.ownReads) \subseteq spec.inputs,
        "webhooks")

\* At most one, its Secret in the Workflow's namespace, its window an hour at most.
validateWebhookTriggers == stage("webhooks", spec.webhooksOK, "actions")

validateStepExclusiveAction(s) == Cardinality(spec.acts[s]) <= 1

validateForEachStepExclusiveAction(s) == Cardinality(spec.innerActs[s]) <= 1

\* https, or http inside the cluster when allowed and without token or CA.
ValidateExternalAgentTransport(r) ==
  r.scheme = "https" \/ (r.scheme = "http" /\ r.insecureOK /\ ~r.secret /\ r.clusterLocal)

\* A reference without a URL passes.
validateExternalAgentRef(s) ==
  "externalAgentRef" \in spec.acts[s] \cup spec.innerActs[s] /\ spec.remote.url =>
    ValidateExternalAgentTransport(spec.remote) /\ spec.remote.protocol = "a2a"

\* reportName and resultsExpression are given.
validateOpenReport(s) ==
  "openReport" \in spec.acts[s] \cup spec.innerActs[s] => spec.complete

\* A timeout that parses, and no forEach.
validateWaitForCallback(s) ==
  "waitForCallback" \in spec.acts[s] => spec.complete /\ "forEach" \notin spec.acts[s]

validateActions ==
  stage("actions",
        \A s \in steps :
          /\ validateStepExclusiveAction(s) /\ validateForEachStepExclusiveAction(s)
          /\ validateExternalAgentRef(s) /\ validateOpenReport(s) /\ validateWaitForCallback(s),
        "refs")

\* The Workflows and Agents the steps refer to, looked up in the reference's
\* namespace, else in the Workflow's; a name of one kind that was looked up once is
\* not looked up again.
namespaceOr(ns, fallback) == IF ns = "" THEN fallback ELSE ns

refName(s) == spec.ref[s].name
seenKey(s) == <<spec.ref[s].kind, refName(s)>>
earlier(s) == {t \in steps : refName(t) # "" /\ seenKey(t) = seenKey(s) /\ spec.order[t] < spec.order[s]}
object(s, fallback) == <<spec.ref[s].kind, refName(s), namespaceOr(spec.ref[s].ns, fallback)>>
found(s) == object(s, spec.ns) \in spec.exist

LookUp ==
  stage("refs", \A s \in steps : refName(s) = "" \/ earlier(s) # {} \/ found(s), "admitted")

\* Any other error than NotFound is a warning: the reference passes unseen.
LookUpFails ==
  /\ admAt = "refs" /\ \E s \in steps : refName(s) # "" /\ earlier(s) = {}
  /\ admAt' = "admitted" /\ unverified' = TRUE
  /\ UNCHANGED <<spec, ended, executing>>
----------------------------------------------------------------------------
\* The executor.
ready(s) ==
  /\ admAt = "admitted" /\ executing = Nothing
  /\ s \notin ended /\ spec.deps[s] \subseteq ended

\* checkMatchConditions: the step is skipped, or it starts.
checkMatchConditions(s) ==
  /\ ready(s)
  /\ \/ ended' = ended \cup {s} /\ UNCHANGED executing
     \/ executing' = [step |-> s, chain |-> <<>>] /\ UNCHANGED ended
  /\ UNCHANGED <<spec, admAt, unverified>>

ActionOrder ==
  <<"forEach", "stepTemplateRef", "workflowRef", "agentRef", "mcpToolCall", "externalAgentRef",
    "resourceQuery", "prometheusQuery", "mutate", "openReport", "waitForCallback">>

\* stepType, and executeStep's chain of ifs.
stepType(acts) ==
  IF acts = {} THEN "expression"
  ELSE ActionOrder[CHOOSE i \in DOMAIN ActionOrder :
         ActionOrder[i] \in acts /\ \A j \in 1 .. i - 1 : ActionOrder[j] \notin acts]

now == executing.step
dispatch(acts) ==
  /\ executing' = [executing EXCEPT !.chain = Append(@, stepType(acts))]
  /\ UNCHANGED <<spec, admAt, unverified, ended>>

executeStep == executing # Nothing /\ executing.chain = <<>> /\ dispatch(spec.acts[now])

\* executeForEach with an inline step: convertForEachStepToStep.
executeForEach ==
  /\ executing.chain = <<"forEach">> /\ spec.place[now] # "template"
  /\ dispatch(spec.innerActs[now])

\* executeStepTemplate, instantiateForEachStepTemplate: the action is the template's.
executeStepTemplate ==
  /\ \/ executing.chain = <<"stepTemplateRef">>
     \/ executing.chain = <<"forEach">> /\ spec.place[now] = "template"
  /\ dispatch(spec.templateActs)

\* The step ends: with its action, with an error that the failure policy lets
\* pass, or because its template cannot be fetched or instantiated.
StepEnds ==
  /\ executing # Nothing /\ executing.chain # <<>>
  /\ ended' = ended \cup {now} /\ executing' = Nothing
  /\ UNCHANGED <<spec, admAt, unverified>>

Next ==
  \/ validateEventScope \/ BuildDAG \/ ValidateStepDependencies \/ ValidateInputRefs
  \/ validateWebhookTriggers \/ validateActions \/ LookUp \/ LookUpFails
  \/ executeStep \/ executeForEach \/ executeStepTemplate \/ StepEnds
  \/ \E s \in steps : checkMatchConditions(s)

Spec == Init /\ [][Next]_admVars
----------------------------------------------------------------------------
TypeOK ==
  /\ admAt \in {"scope", "dag", "deps", "inputs", "webhooks", "actions", "refs", "admitted", "rejected"}
  /\ unverified \in BOOLEAN
  /\ ended \subseteq Names /\ executing.step \in Names \cup {""}
  /\ Len(executing.chain) <= 2

(* An admitted step never reads what cannot be there yet: the steps its      *)
(* expressions name are done when it starts, and so is one of the steps that *)
(* write a variable it names, in every order in which steps become ready.    *)
(* That is so of names written with a dot, the variables' of letters and     *)
(* digits only: a read in brackets or of another variable is not seen, and   *)
(* such a step may start too early.  Nor is what stands inside a template.   *)
reads(s, root) == {m.name : m \in {m \in scanned(s) : m.root = root /\ m.form = "dot" /\ m.stem = m.name}}

ReadsComeAfterWrites ==
  executing # Nothing =>
    /\ reads(now, "steps") \cap steps \subseteq ended \cup {now}
    /\ \A v \in reads(now, "variables") \ spec.variables :
         producers(v) = {} \/ producers(v) \cap (ended \cup {now}) # {}

(* An admitted Workflow never comes to a stop with steps left: as long as    *)
(* one is not done, one is ready.                                            *)
NeverStuck ==
  admAt = "admitted" /\ executing = Nothing /\ ended # steps => \E s \in steps : ready(s)

(* No action of an admitted step is silently left out: what executeStep      *)
(* dispatches on is all the step, or its inline forEach step, asks for.      *)
NothingIgnored ==
  /\ Len(executing.chain) >= 1 => spec.acts[now] \subseteq {executing.chain[1]}
  /\ Len(executing.chain) = 2 /\ executing.chain[1] = "forEach" /\ spec.place[now] # "template" =>
       spec.innerActs[now] \subseteq {executing.chain[2]}

(* Unless a lookup failed, the Workflow or Agent a step refers to existed    *)
(* where executeWorkflowReference and executeAgentStep will look for it: in  *)
(* the reference's namespace, else in the run's.  The exceptions are a run   *)
(* in another namespace than its Workflow's, where the webhook has looked,   *)
(* and a name referred to in two namespaces: only the first is looked up.    *)
ReferencesExist ==
  admAt = "admitted" /\ ~unverified =>
    \A s \in steps :
      /\ refName(s) # ""
      /\ spec.runNs = spec.ns \/ spec.ref[s].ns # ""
      /\ \A t \in earlier(s) : spec.ref[t].ns = spec.ref[s].ns
      => object(s, spec.runNs) \in spec.exist

(* What passes the webhook can be executed: nothing fails at run time that *)
(* the webhook was to find.                                                *)
AdmittedCanRun == ReadsComeAfterWrites /\ NeverStuck /\ NothingIgnored /\ ReferencesExist

============================================================================
