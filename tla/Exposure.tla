------------------------------ MODULE Exposure ------------------------------
(***************************************************************************)
(* WorkflowExposureReconciler (exposure_controller.go): one Workflow that  *)
(* opts in is published as a kagent Agent, with the ServiceAccount and     *)
(* RoleBinding its pod needs; opting out, inputs a prompt cannot fill, or  *)
(* deletion takes the Agent down again, guarded by a finalizer.            *)
(*                                                                         *)
(* One worker reconciles the Workflow, reading it and the RoleBinding from *)
(* the manager's cache and the Agent from the API server.  Meanwhile the   *)
(* owner edits, deletes and recreates the Workflow, an operator replaces   *)
(* the binding, somebody else creates an Agent of the same name, the CRD   *)
(* may be missing, and API calls fail.                                     *)
(***************************************************************************)
EXTENDS Naturals

CONSTANTS
    MaxEdits,   \* bound on what the Workflow's owner does
    MaxOthers,  \* bound on what others do to the Agent and to the binding
    MaxFaults   \* bound on API calls that fail

VARIABLES
    wf,         \* the Workflow, with its version; uid 0 when it does not exist
    wfSeen,     \* the copy in the cache
    agentNow,   \* who the Agent under the current name belongs to
    agentOld,   \* the same for the name an earlier release used
    binding,    \* the RoleBinding: its kind and a version
    bindingSeen,\* the copy in the cache
    existing,   \* the version of the binding this reconcile read
    saMade,     \* the ServiceAccount exists
    crd,        \* the Agent CRD is installed
    copy,       \* the Workflow this reconcile works on
    expAt,      \* the next call it makes
    queued,     \* the Workflow is in the work queue
    serveImage, \* the controller was started with a ServeA2AImage
    edits, others, failures

expVars == <<wf, wfSeen, agentNow, agentOld, binding, bindingSeen, existing, saMade, crd,
             copy, expAt, queued, serveImage, edits, others, failures>>

None == [uid |-> 0, expose |-> "no", deleting |-> FALSE, finalizer |-> FALSE, rv |-> 0]
Exposes == {"no", "yes", "unfit"}       \* unfit: opted in, with inputs a prompt cannot fill
Kinds == {"absent", "wrongRole", "wrongSubjects", "right"}
Absent == 0
Foreign == MaxEdits + 2                 \* an owner that is no Workflow's uid
Owners == 0..(MaxEdits + 2)

noCopy == [uid |-> 0, rv |-> 0]

TypeOK ==
    /\ \A w \in {wf, wfSeen} :
          /\ w.uid \in 0..(MaxEdits + 1) /\ w.rv \in Nat
          /\ w.expose \in Exposes /\ {w.deleting, w.finalizer} \subseteq BOOLEAN
    /\ copy.uid \in 0..(MaxEdits + 1) /\ copy.rv \in Nat /\ existing \in Nat
    /\ agentNow \in Owners /\ agentOld \in Owners
    /\ \A b \in {binding, bindingSeen} : b.kind \in Kinds /\ b.version \in Nat
    /\ saMade \in BOOLEAN /\ crd \in BOOLEAN /\ queued \in BOOLEAN /\ serveImage \in BOOLEAN
    /\ expAt \in {"idle", "deleteAgent", "unfinalize", "finalize", "account", "binding",
                  "rebind", "recreate", "agent", "prune"}
    /\ edits \in 0..MaxEdits /\ others \in 0..MaxOthers /\ failures \in 0..MaxFaults

(* A new Workflow in a namespace whose binding, and whose Agents, may stem  *)
(* from an earlier release or from somebody else.                           *)
Init ==
    /\ \E e \in Exposes : wf = [None EXCEPT !.uid = 1, !.expose = e, !.rv = 1]
    /\ wfSeen = wf /\ queued = TRUE
    /\ crd \in BOOLEAN /\ serveImage \in BOOLEAN
    /\ agentNow \in {Absent, Foreign} /\ agentOld \in {Absent, 1}
    /\ ~crd => agentNow = Absent /\ agentOld = Absent
    /\ \E k \in Kinds : binding = [kind |-> k, version |-> 1]
    /\ bindingSeen = binding
    /\ saMade = FALSE
    /\ copy = noCopy /\ existing = 0 /\ expAt = "idle"
    /\ edits = 0 /\ others = 0 /\ failures = 0

----------------------------------------------------------------------------
(* The reconciler. *)

world == <<wf, wfSeen, agentNow, agentOld, binding, bindingSeen, saMade, crd>>
outside == <<serveImage, edits, others, failures>>

(* IsKagentEnabled and inputsExposable *)
exposable(w) == w.expose = "yes"

done(again) ==
    expAt' = "idle" /\ copy' = noCopy /\ existing' = 0 /\ queued' = (queued \/ again)
then(next) == expAt' = next /\ UNCHANGED <<copy, existing, queued>>

(* The Workflow is read from the cache and the way chosen. *)
Reconcile ==
    /\ expAt = "idle" /\ queued
    /\ queued' = FALSE
    /\ expAt' = CASE wfSeen.uid = 0 -> "idle"
                  [] wfSeen.uid # 0 /\ exposable(wfSeen) /\ ~wfSeen.deleting /\ serveImage ->
                        IF wfSeen.finalizer THEN "account" ELSE "finalize"
                  [] OTHER -> IF wfSeen.finalizer THEN "deleteAgent" ELSE "idle"
    /\ copy' = IF expAt' = "idle" THEN noCopy ELSE [uid |-> wfSeen.uid, rv |-> wfSeen.rv]
    /\ UNCHANGED <<world, existing, outside>>

(* deleteAgent deletes by name alone; NotFound and NoMatch are fine. *)
deleteAgent ==
    /\ expAt = "deleteAgent"
    /\ agentNow' = Absent /\ then("unfinalize")
    /\ UNCHANGED <<wf, wfSeen, agentOld, binding, bindingSeen, saMade, crd, outside>>

(* An Update of the copy: it needs the current version.  A Workflow being   *)
(* deleted goes when its last finalizer does.                               *)
update(fin) ==
    wf' = IF wf.deleting /\ ~fin THEN [None EXCEPT !.rv = wf.rv + 1]
          ELSE [wf EXCEPT !.finalizer = fin, !.rv = @ + 1]

Unfinalize ==
    /\ expAt = "unfinalize"
    /\ IF wf.rv = copy.rv /\ wf.uid # 0
       THEN update(FALSE) /\ done(FALSE)
       ELSE UNCHANGED wf /\ done(wf.uid # 0)
    /\ UNCHANGED <<wfSeen, agentNow, agentOld, binding, bindingSeen, saMade, crd, outside>>

Finalize_IgnoresError ==
    /\ expAt = "finalize"
    /\ IF wf.rv = copy.rv /\ wf.uid # 0 THEN update(TRUE) ELSE UNCHANGED wf
    /\ then("account")
    /\ UNCHANGED <<wfSeen, agentNow, agentOld, binding, bindingSeen, saMade, crd, outside>>

Finalize ==
    /\ expAt = "finalize"
    /\ IF wf.rv = copy.rv /\ wf.uid # 0
       THEN update(TRUE) /\ then("account")
       ELSE UNCHANGED wf /\ done(TRUE)
    /\ UNCHANGED <<wfSeen, agentNow, agentOld, binding, bindingSeen, saMade, crd, outside>>

(* createIfAbsent *)
EnsureAccount ==
    /\ expAt = "account"
    /\ saMade' = TRUE /\ then("binding")
    /\ UNCHANGED <<wf, wfSeen, agentNow, agentOld, binding, bindingSeen, crd, outside>>

bind(k) == binding' = [kind |-> k, version |-> binding.version + 1]

reconcileRoleBinding_CreateIfAbsent ==
    /\ expAt = "binding"
    /\ IF bindingSeen.kind = "absent" /\ binding.kind = "absent"
       THEN bind("right") /\ then("agent")
       ELSE UNCHANGED binding /\ then("agent")
    /\ UNCHANGED <<wf, wfSeen, agentNow, agentOld, bindingSeen, saMade, crd, outside>>

(* Created when the cache has none; a wrong role is deleted, with the uid   *)
(* that was seen as a precondition, and created anew; wrong subjects are    *)
(* updated in place, which needs the version that was seen.                 *)
reconcileRoleBinding ==
    /\ expAt = "binding"
    /\ CASE bindingSeen.kind = "absent" ->
              IF binding.kind = "absent"
              THEN bind("right") /\ then("agent")
              ELSE UNCHANGED binding /\ done(TRUE)
         [] bindingSeen.kind = "wrongSubjects" ->
              IF binding.version = bindingSeen.version
              THEN bind("right") /\ then("agent")
              ELSE UNCHANGED binding /\ done(TRUE)
         [] bindingSeen.kind = "wrongRole" ->
              /\ expAt' = "rebind" /\ existing' = bindingSeen.version
              /\ UNCHANGED <<binding, copy, queued>>
         [] OTHER -> UNCHANGED binding /\ then("agent")
    /\ UNCHANGED <<wf, wfSeen, agentNow, agentOld, bindingSeen, saMade, crd, outside>>

(* Delete, then Create in a call of its own. *)
Rebind ==
    /\ expAt = "rebind"
    /\ \/ binding.version = existing /\ bind("absent") /\ then("recreate")
       \/ /\ binding.version # existing /\ UNCHANGED binding
          /\ IF binding.kind = "absent" THEN then("recreate") ELSE done(TRUE)
    /\ UNCHANGED <<wf, wfSeen, agentNow, agentOld, bindingSeen, saMade, crd, outside>>

Recreate ==
    /\ expAt = "recreate"
    /\ IF binding.kind = "absent" THEN bind("right") /\ then("agent")
       ELSE UNCHANGED binding /\ done(TRUE)
    /\ UNCHANGED <<wf, wfSeen, agentNow, agentOld, bindingSeen, saMade, crd, outside>>

managedBy(owner) == owner = copy.uid

(* Create, or update what this Workflow already owns; without the CRD the   *)
(* Workflow is looked at again later, and so it is after a refusal.         *)
upsertAgent ==
    /\ expAt = "agent"
    /\ IF crd /\ (agentNow = Absent \/ managedBy(agentNow))
       THEN agentNow' = copy.uid /\ then("prune")
       ELSE UNCHANGED agentNow /\ done(TRUE)
    /\ UNCHANGED <<wf, wfSeen, agentOld, binding, bindingSeen, saMade, crd, outside>>

(* Only Agents that carry this Workflow's labels go; then the resync timer. *)
pruneStaleAgents ==
    /\ expAt = "prune"
    /\ agentOld' = (IF managedBy(agentOld) THEN Absent ELSE agentOld)
    /\ done(TRUE)
    /\ UNCHANGED <<wf, wfSeen, agentNow, binding, bindingSeen, saMade, crd, outside>>

(* Any call of a reconcile may fail: it returns the error and is retried. *)
CallFails ==
    /\ expAt # "idle" /\ failures < MaxFaults
    /\ failures' = failures + 1 /\ done(TRUE)
    /\ UNCHANGED <<world, serveImage, edits, others>>

(* External: the controller is deployed again, with the other setting; the  *)
(* reconcile that was under way is lost, the cache is filled anew before    *)
(* the worker starts, and every Workflow is queued.                         *)
Redeploy ==
    /\ others < MaxOthers /\ others' = others + 1
    /\ serveImage' = ~serveImage /\ done(TRUE)
    /\ wfSeen' = wf /\ bindingSeen' = binding
    /\ UNCHANGED <<wf, agentNow, agentOld, binding, saMade, crd, edits, failures>>

----------------------------------------------------------------------------
(* Around it. *)

CacheSyncs ==
    /\ <<wfSeen, bindingSeen>> # <<wf, binding>>
    /\ wfSeen' = wf /\ bindingSeen' = binding
    /\ queued' = (queued \/ wfSeen # wf)
    /\ UNCHANGED <<wf, agentNow, agentOld, binding, saMade, crd, copy, existing, expAt,
                   outside>>

(* External: the owner opts in or out, changes the inputs, deletes the      *)
(* Workflow (it stays while it has a finalizer) or creates it again.        *)
Owner ==
    /\ edits < MaxEdits /\ edits' = edits + 1
    /\ \/ /\ wf.uid # 0 /\ ~wf.deleting
          /\ \E e \in Exposes \ {wf.expose} : wf' = [wf EXCEPT !.expose = e, !.rv = @ + 1]
       \/ /\ wf.uid # 0 /\ ~wf.deleting
          /\ wf' = IF wf.finalizer THEN [wf EXCEPT !.deleting = TRUE, !.rv = @ + 1]
                   ELSE [None EXCEPT !.rv = wf.rv + 1]
       \/ /\ wf.uid = 0
          /\ \E e \in Exposes :
                wf' = [None EXCEPT !.uid = edits + 2, !.expose = e, !.rv = wf.rv + 1]
    /\ UNCHANGED <<wfSeen, agentNow, agentOld, binding, bindingSeen, saMade, crd, copy,
                   existing, expAt, queued, serveImage, others, failures>>

(* External: others create an Agent of that name, repair the binding, or    *)
(* install the CRD.                                                         *)
Others ==
    /\ others < MaxOthers /\ others' = others + 1
    /\ \/ /\ crd /\ agentNow = Absent /\ agentNow' = Foreign
          /\ UNCHANGED <<binding, crd>>
       \/ binding.kind # "right" /\ bind("right") /\ UNCHANGED <<agentNow, crd>>
       \/ ~crd /\ crd' = TRUE /\ UNCHANGED <<agentNow, binding>>
    /\ UNCHANGED <<wf, wfSeen, agentOld, bindingSeen, saMade, copy, existing, expAt, queued,
                   serveImage, edits, failures>>

Worker ==
    \/ Reconcile \/ deleteAgent \/ Unfinalize \/ Finalize \/ EnsureAccount
    \/ reconcileRoleBinding \/ Rebind \/ Recreate \/ upsertAgent \/ pruneStaleAgents

Next == Worker \/ CallFails \/ Redeploy \/ CacheSyncs \/ Owner \/ Others

(* The worker serves its queue and the cache catches up. *)
Fairness == WF_expVars(Worker) /\ WF_expVars(CacheSyncs)

Spec == Init /\ [][Next]_expVars /\ Fairness

----------------------------------------------------------------------------
(* A Workflow that is gone left no Agent behind under its name, whatever    *)
(* the order of its deletion, a reconcile from an old copy, and failing     *)
(* calls: the finalizer is on before the Agent is made.                     *)
NoOrphan == agentNow \in {Absent, Foreign, wf.uid}

(* No Agent is ever taken over: whoever an Agent belongs to, it belongs to  *)
(* them until it is deleted.                                                *)
NoTakeover == agentNow # Absent /\ agentNow' # Absent => agentNow' = agentNow

(* A binding that grants what the pods need is never removed or spoilt, not *)
(* even by a reconcile that still sees an older one.                        *)
GoodBindingKept == binding.kind = "right" => binding'.kind = "right"

(* When the edits end, what is published follows the Workflow: its Agent is *)
(* up with its access in place, unless somebody else holds the name, and    *)
(* is down when it is not to be exposed or the controller has no image.     *)
published ==
    IF exposable(wf) /\ ~wf.deleting /\ wf.uid # 0 /\ crd /\ serveImage
    THEN /\ agentNow \in {wf.uid, Foreign}
         /\ saMade /\ binding.kind = "right"
    ELSE agentNow \in {Absent, Foreign}
ExposureFollows == <>[]published

(* What upsertAgent and pruneStaleAgents say of Agents this controller does *)
(* not manage ("refusing to overwrite it", "never deletes ... unmanaged     *)
(* Agents"): somebody else's Agent stays.                                   *)
ForeignAgentKept == [][agentNow = Foreign => agentNow' = Foreign]_expVars

(* A Workflow's Agent and binding come and go with it, and no other's do.   *)
ExposureSound == []NoOrphan /\ [][NoTakeover /\ GoodBindingKept]_expVars

============================================================================
