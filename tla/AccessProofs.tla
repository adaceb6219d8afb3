--------------------------- MODULE AccessProofs ---------------------------
(***************************************************************************)
(* What the program lets in and provides for: Agents that expose           *)
(* Workflows, the access of runners, webhook requests, submitted Workflows *)
(* and the Secrets of a Job.  Laid out as in StoreProofs; at the end the   *)
(* types of every part of MCSafety.                                        *)
(***************************************************************************)
EXTENDS StoreProofs, CycleCheckProofs
----------------------------------------------------------------------------
(* Exposure (Exposure).  A version tells whether a copy is current, and    *)
(* the finalizer is on while there is an Agent.                            *)

\* A Workflow, in the cluster or in the cache.
WorkflowState ==
  [uid : 0 .. (MaxEdits + 1), expose : EX!Exposes, deleting : BOOLEAN, finalizer : BOOLEAN, rv : Nat]

\* The binding that lets callers in.
BindingState == [kind : EX!Kinds, version : Nat]

\* To be published by a controller with an image, or without: there, opted in and not
\* being deleted.
ToPublish(w, image) == w.uid # 0 /\ w.expose = "yes" /\ ~w.deleting /\ image

\* The places of a reconcile that publishes.
Publishing == {"account", "binding", "rebind", "recreate", "agent", "prune"}

\* Types.
ExposureTyped ==
  /\ wf \in WorkflowState /\ wfSeen \in WorkflowState
  /\ copy \in [uid : 0 .. (MaxEdits + 1), rv : Nat] /\ existing \in Nat
  /\ agentNow \in EX!Owners /\ agentOld \in EX!Owners
  /\ binding \in BindingState /\ bindingSeen \in BindingState
  /\ expAt \in {"idle", "deleteAgent", "unfinalize", "finalize"} \cup Publishing
  /\ edits \in 0 .. MaxEdits /\ others \in 0 .. MaxOthers /\ failures \in 0 .. MaxFaults

\* Types of what is on or off.
SwitchesTyped ==
  saMade \in BOOLEAN /\ crd \in BOOLEAN /\ queued \in BOOLEAN /\ serveImage \in BOOLEAN

\* The cache is behind, or it is right.
CacheBehind(w, s) == s.rv <= w.rv /\ (s.rv = w.rv => s = w)

\* What the worker at pc knows of the cached Workflow s by its copy c.
CopyBehind(pc, c, s, image) ==
  pc # "idle" => /\ c.uid # 0 /\ c.rv <= s.rv
                 /\ c.rv = s.rv => /\ c.uid = s.uid
                                   /\ pc \in {"deleteAgent", "unfinalize"} => ~ToPublish(s, image)

\* Whoever is about to publish, or sees that it may, works on the Workflow that is
\* there, and its finalizer is on.
Guarded(w, s, pc, c, image) ==
  /\ s.finalizer /\ ToPublish(s, image) => w.uid = s.uid /\ w.finalizer
  /\ pc \in Publishing => w.uid = c.uid /\ w.finalizer

\* An Agent of ours belongs to the Workflow that is there, whose finalizer is set.
AgentGuarded(a, w, pc) ==
  /\ a \in {EX!Absent, EX!Foreign} \/ (a = w.uid /\ w.finalizer)
  /\ pc = "unfinalize" => a \in {EX!Absent, EX!Foreign}

\* The cache is behind the binding, and a rebind was decided on a binding that is
\* either still the wrong one or has changed its version.
BindingBehind(b, s, pc, e) ==
  /\ s.version <= b.version /\ (s.version = b.version => s = b)
  /\ pc = "rebind" => e <= b.version /\ (e = b.version => b.kind = "wrongRole")

\* The inductive invariant of exposure.
ExposureInv ==
  /\ ExposureTyped /\ SwitchesTyped
  /\ CacheBehind(wf, wfSeen) /\ CopyBehind(expAt, copy, wfSeen, serveImage) /\ Guarded(wf, wfSeen, expAt, copy, serveImage)
  /\ AgentGuarded(agentNow, wf, expAt) /\ BindingBehind(binding, bindingSeen, expAt, existing)

\* Nothing is exposed.
LEMMA ExposureInit == EX!Init => ExposureInv
<1> SUFFICES ASSUME EX!Init PROVE ExposureInv
  OBVIOUS
<1> USE ExposureAssumption
<1>1. PICK e \in EX!Exposes : wf = [EX!None EXCEPT !.uid = 1, !.expose = e, !.rv = 1]
  BY DEF EX!Init
<1>2. wf \in WorkflowState /\ wf.rv = 1 /\ ~wf.finalizer /\ wf.uid = 1
  <2>1. EX!None \in WorkflowState /\ ~EX!None.finalizer
    BY DEF EX!None, WorkflowState, EX!Exposes
  <2>2. 1 \in 0 .. (MaxEdits + 1) /\ 1 \in Nat
    OBVIOUS
  <2>3. wf \in WorkflowState
    BY <1>1, <2>1, <2>2 DEF WorkflowState
  <2>4. wf.rv = 1 /\ wf.uid = 1 /\ wf.finalizer = EX!None.finalizer
    BY <1>1, <2>1 DEF WorkflowState
  <2> QED BY <2>1, <2>3, <2>4
<1>3. PICK k \in EX!Kinds : binding = [kind |-> k, version |-> 1]
  BY DEF EX!Init
<1>4. binding \in BindingState /\ binding.version = 1
  BY <1>3 DEF BindingState
<1>5. /\ wfSeen = wf /\ bindingSeen = binding /\ expAt = "idle" /\ copy = [uid |-> 0, rv |-> 0] /\ existing = 0
      /\ agentNow \in {EX!Absent, EX!Foreign} /\ agentOld \in {EX!Absent, 1}
      /\ edits = 0 /\ others = 0 /\ failures = 0
  BY DEF EX!Init, EX!noCopy
<1>6. ExposureTyped
  BY <1>2, <1>4, <1>5 DEF ExposureTyped, EX!Owners, EX!Absent, EX!Foreign
<1>7. SwitchesTyped
  BY DEF EX!Init, SwitchesTyped
<1>8. CacheBehind(wf, wfSeen) /\ CopyBehind(expAt, copy, wfSeen, serveImage) /\ Guarded(wf, wfSeen, expAt, copy, serveImage)
  BY <1>2, <1>5 DEF CacheBehind, CopyBehind, Guarded, Publishing
<1>9. AgentGuarded(agentNow, wf, expAt) /\ BindingBehind(binding, bindingSeen, expAt, existing)
  BY <1>4, <1>5 DEF AgentGuarded, BindingBehind
<1> QED BY <1>6, <1>7, <1>8, <1>9 DEF ExposureInv

\* The Workflow is written: what the caches and the worker have is older.
LEMMA WorkflowWritten ==
  ASSUME NEW w \in WorkflowState, NEW w2 \in WorkflowState, NEW s \in WorkflowState,
         w2.rv = w.rv + 1, CacheBehind(w, s)
  PROVE  CacheBehind(w2, s)
  BY DEF CacheBehind, WorkflowState

\* A step that leaves the Workflow and its cached copy alone, of a worker that goes
\* on from pc to pc2 with the same copy.
LEMMA GoesOnWith ==
  ASSUME NEW w, NEW s, NEW c, NEW pc, NEW pc2, NEW image,
         CopyBehind(pc, c, s, image), Guarded(w, s, pc, c, image), pc # "idle",
         pc2 \in {"deleteAgent", "unfinalize"} => pc \in {"deleteAgent", "unfinalize"},
         pc2 \in Publishing => pc \in Publishing
  PROVE  CopyBehind(pc2, c, s, image) /\ Guarded(w, s, pc2, c, image)
  BY DEF CopyBehind, Guarded

\* A worker that is idle knows nothing and publishes nothing.
LEMMA GoesIdle ==
  ASSUME NEW w, NEW s, NEW c, NEW c2, NEW pc, NEW image, Guarded(w, s, pc, c, image)
  PROVE  CopyBehind("idle", c2, s, image) /\ Guarded(w, s, "idle", c2, image)
  BY DEF CopyBehind, Guarded, Publishing

\* The worker's own moves that write neither Workflow, Agents nor binding.
LEMMA WorkerGoesOn ==
  ASSUME ExposureInv, UNCHANGED <<wf, wfSeen, bindingSeen, crd, EX!outside>>, expAt # "idle",
         agentOld' \in EX!Owners, saMade' \in BOOLEAN, queued' \in BOOLEAN,
         agentNow' \in EX!Owners, binding' \in BindingState,
         \/ EX!done(TRUE)
         \/ /\ copy' = copy /\ expAt' \in {"unfinalize"} \cup Publishing
            /\ expAt' = "unfinalize" => expAt = "deleteAgent"
            /\ expAt' \in Publishing => expAt \in Publishing
            /\ existing' \in Nat,
         AgentGuarded(agentNow', wf, expAt'), BindingBehind(binding', bindingSeen, expAt', existing')
  PROVE  ExposureInv'
<1>1. /\ copy' \in [uid : 0 .. (MaxEdits + 1), rv : Nat] /\ existing' \in Nat
      /\ expAt' \in {"idle", "deleteAgent", "unfinalize", "finalize"} \cup Publishing
  BY ExposureAssumption DEF EX!done, EX!noCopy, ExposureInv, ExposureTyped
<1>2. ExposureTyped'
  BY <1>1 DEF ExposureTyped, ExposureInv, EX!outside
<1>3. SwitchesTyped'
  BY DEF SwitchesTyped, ExposureInv, EX!outside
<1>4. CopyBehind(expAt', copy', wfSeen, serveImage) /\ Guarded(wf, wfSeen, expAt', copy', serveImage)
  <2>1. CASE EX!done(TRUE)
    BY <2>1, GoesIdle DEF EX!done, ExposureInv
  <2>2. CASE copy' = copy /\ (expAt' = "unfinalize" => expAt = "deleteAgent") /\ expAt' \in {"unfinalize"} \cup Publishing
             /\ (expAt' \in Publishing => expAt \in Publishing)
    BY <2>2, GoesOnWith DEF ExposureInv, Publishing
  <2> QED BY <2>1, <2>2
<1> QED
  BY <1>2, <1>3, <1>4 DEF ExposureInv, EX!outside

\* A reconcile goes on with the Workflow it has read.
LEMMA WorkerNext ==
  ASSUME ExposureInv, UNCHANGED <<wf, wfSeen, bindingSeen, crd, EX!outside>>,
         NEW p \in {"unfinalize"} \cup Publishing, EX!then(p),
         p = "unfinalize" => expAt = "deleteAgent", p \in Publishing => expAt \in Publishing,
         agentOld' \in EX!Owners, saMade' \in BOOLEAN,
         agentNow' \in EX!Owners, binding' \in BindingState,
         AgentGuarded(agentNow', wf, p), BindingBehind(binding', bindingSeen, p, existing)
  PROVE  ExposureInv'
<1>1. expAt' = p /\ copy' = copy /\ existing' = existing /\ queued' = queued
  BY DEF EX!then
<1>2. queued' \in BOOLEAN
  BY <1>1 DEF ExposureInv, SwitchesTyped
<1>3. existing' \in Nat /\ expAt # "idle"
  BY <1>1 DEF ExposureInv, ExposureTyped, Publishing
<1> QED
  BY <1>1, <1>2, <1>3, WorkerGoesOn

\* A binding that is written anew has a version nobody has seen.
LEMMA Bound ==
  ASSUME ExposureInv, NEW k \in EX!Kinds, EX!bind(k), NEW pc, NEW e, pc # "rebind"
  PROVE  binding' \in BindingState /\ BindingBehind(binding', bindingSeen, pc, e)
<1>1. binding.version \in Nat /\ bindingSeen.version \in Nat /\ bindingSeen.version <= binding.version
  BY DEF ExposureInv, ExposureTyped, BindingState, BindingBehind
<1>2. binding' = [kind |-> k, version |-> binding.version + 1]
  BY DEF EX!bind
<1> QED BY <1>1, <1>2 DEF BindingState, BindingBehind

\* Every step of a reconcile keeps the invariant.
LEMMA ExposureWorker ==
  ASSUME ExposureInv, EX!Worker PROVE ExposureInv'
<1> USE ExposureAssumption
<1>t. ExposureTyped /\ SwitchesTyped /\ AgentGuarded(agentNow, wf, expAt) /\ BindingBehind(binding, bindingSeen, expAt, existing)
      /\ CacheBehind(wf, wfSeen) /\ CopyBehind(expAt, copy, wfSeen, serveImage) /\ Guarded(wf, wfSeen, expAt, copy, serveImage)
  BY DEF ExposureInv
<1>q. \A b \in BOOLEAN : EX!done(b) => queued' \in BOOLEAN
  BY <1>t DEF EX!done, SwitchesTyped
<1>n. \A p : EX!then(p) => queued' \in BOOLEAN /\ copy' = copy /\ existing' = existing /\ expAt' = p /\ existing' \in Nat
  BY <1>t DEF EX!then, SwitchesTyped, ExposureTyped
<1>o. agentNow \in EX!Owners /\ agentOld \in EX!Owners /\ saMade \in BOOLEAN /\ binding \in BindingState
  BY <1>t DEF ExposureTyped, SwitchesTyped
<1>a. \A p : p # "unfinalize" => AgentGuarded(agentNow, wf, p)
  BY <1>t DEF AgentGuarded
<1>b. \A p, e : p # "rebind" => BindingBehind(binding, bindingSeen, p, e)
  BY <1>t DEF BindingBehind
<1>i. EX!done(TRUE) => expAt' = "idle"
  BY DEF EX!done
<1>1. CASE EX!Reconcile
  <2>0. expAt = "idle" /\ UNCHANGED <<wf, wfSeen, agentNow, agentOld, binding, bindingSeen, saMade, crd, existing, serveImage, edits, others, failures>>
        /\ queued' = FALSE
    BY <1>1 DEF EX!Reconcile, EX!world, EX!outside
  <2>1. expAt' \in {"idle", "account", "finalize", "deleteAgent"}
    BY <1>1 DEF EX!Reconcile
  <2>2. copy' = IF expAt' = "idle" THEN EX!noCopy ELSE [uid |-> wfSeen.uid, rv |-> wfSeen.rv]
    BY <1>1 DEF EX!Reconcile
  <2>3. wfSeen.uid = 0 => expAt' = "idle"
    BY <1>1 DEF EX!Reconcile
  <2>4. expAt' = "account" => wfSeen.uid # 0 /\ ToPublish(wfSeen, serveImage) /\ wfSeen.finalizer
    BY <1>1 DEF EX!Reconcile, EX!exposable, ToPublish
  <2>5. expAt' = "deleteAgent" => ~ToPublish(wfSeen, serveImage)
    BY <1>1 DEF EX!Reconcile, EX!exposable, ToPublish
  <2>6. wfSeen.rv \in Nat /\ wfSeen.uid \in 0 .. (MaxEdits + 1)
    BY <1>t DEF ExposureTyped, WorkflowState
  <2>7. copy' \in [uid : 0 .. (MaxEdits + 1), rv : Nat]
    BY <2>2, <2>6 DEF EX!noCopy
  <2>8. expAt' # "idle" => copy'.uid = wfSeen.uid /\ copy'.rv = wfSeen.rv
    BY <2>2
  <2>9. CopyBehind(expAt', copy', wfSeen, serveImage)
    BY <2>1, <2>3, <2>5, <2>6, <2>8 DEF CopyBehind
  <2>10. Guarded(wf, wfSeen, expAt', copy', serveImage)
    BY <1>t, <2>1, <2>4, <2>8 DEF Guarded, Publishing
  <2>11. ExposureTyped'
    BY <1>t, <2>0, <2>1, <2>7 DEF ExposureTyped, Publishing
  <2>12. SwitchesTyped'
    BY <1>t, <2>0 DEF SwitchesTyped
  <2>13. AgentGuarded(agentNow, wf, expAt') /\ BindingBehind(binding, bindingSeen, expAt', existing)
    BY <1>a, <1>b, <2>1
  <2> QED
    BY <1>t, <2>0, <2>9, <2>10, <2>11, <2>12, <2>13 DEF ExposureInv
<1>2. CASE EX!deleteAgent
  <2>1. AgentGuarded(agentNow', wf, expAt') /\ agentNow' \in EX!Owners
    BY <1>2 DEF EX!deleteAgent, AgentGuarded, EX!Absent, EX!Owners
  <2> QED
    BY <1>2, <1>n, <1>o, <1>b, <2>1, WorkerNext DEF EX!deleteAgent, Publishing
<1>3. CASE EX!EnsureAccount
  <2>1. saMade' \in BOOLEAN
    BY <1>3 DEF EX!EnsureAccount
  <2> QED
    BY <1>3, <2>1, <1>o, <1>a, <1>b, WorkerNext DEF EX!EnsureAccount, Publishing
<1>4. CASE EX!reconcileRoleBinding
  <2>0. expAt = "binding" /\ UNCHANGED <<wf, wfSeen, agentNow, agentOld, bindingSeen, saMade, crd, EX!outside>>
    BY <1>4 DEF EX!reconcileRoleBinding
  <2>1. CASE EX!bind("right") /\ EX!then("agent")
    <3>1. binding' \in BindingState /\ BindingBehind(binding', bindingSeen, "agent", existing')
      BY <2>1, Bound DEF EX!Kinds
    <3> QED
      BY <2>0, <2>1, <3>1, <1>n, <1>o, <1>a, WorkerNext DEF Publishing
  <2>2. CASE binding' = binding /\ EX!done(TRUE)
    BY <2>0, <2>2, <1>i, <1>q, <1>o, <1>a, <1>b, WorkerGoesOn
  <2>3. CASE binding' = binding /\ EX!then("agent")
    BY <2>0, <2>3, <1>o, <1>a, <1>b, WorkerNext DEF Publishing
  <2>4. CASE bindingSeen.kind = "wrongRole" /\ expAt' = "rebind" /\ existing' = bindingSeen.version
             /\ UNCHANGED <<binding, copy, queued>>
    <3>1. bindingSeen.version \in Nat /\ queued \in BOOLEAN
      BY <1>t DEF ExposureTyped, BindingState, SwitchesTyped
    <3>2. BindingBehind(binding, bindingSeen, "rebind", bindingSeen.version)
      BY <1>t, <2>4 DEF BindingBehind
    <3> QED
      BY <2>0, <2>4, <3>1, <3>2, <1>o, <1>a, WorkerGoesOn DEF Publishing
  <2> QED
    BY <1>4, <2>1, <2>2, <2>3, <2>4 DEF EX!reconcileRoleBinding
<1>5. CASE EX!Rebind
  <2>0. expAt = "rebind" /\ UNCHANGED <<wf, wfSeen, agentNow, agentOld, bindingSeen, saMade, crd, EX!outside>>
    BY <1>5 DEF EX!Rebind
  <2>1. CASE EX!bind("absent") /\ EX!then("recreate")
    <3>1. binding' \in BindingState /\ BindingBehind(binding', bindingSeen, "recreate", existing')
      BY <2>1, Bound DEF EX!Kinds
    <3> QED
      BY <2>0, <2>1, <3>1, <1>n, <1>o, <1>a, WorkerNext DEF Publishing
  <2>2. CASE binding' = binding /\ EX!done(TRUE)
    BY <2>0, <2>2, <1>i, <1>q, <1>o, <1>a, <1>b, WorkerGoesOn
  <2>3. CASE binding' = binding /\ EX!then("recreate")
    BY <2>0, <2>3, <1>o, <1>a, <1>b, WorkerNext DEF Publishing
  <2> QED
    BY <1>5, <2>1, <2>2, <2>3 DEF EX!Rebind
<1>6. CASE EX!Recreate
  <2>0. expAt = "recreate" /\ UNCHANGED <<wf, wfSeen, agentNow, agentOld, bindingSeen, saMade, crd, EX!outside>>
    BY <1>6 DEF EX!Recreate
  <2>1. CASE EX!bind("right") /\ EX!then("agent")
    <3>1. binding' \in BindingState /\ BindingBehind(binding', bindingSeen, "agent", existing')
      BY <2>1, Bound DEF EX!Kinds
    <3> QED
      BY <2>0, <2>1, <3>1, <1>n, <1>o, <1>a, WorkerNext DEF Publishing
  <2>2. CASE binding' = binding /\ EX!done(TRUE)
    BY <2>0, <2>2, <1>i, <1>q, <1>o, <1>a, <1>b, WorkerGoesOn
  <2> QED
    BY <1>6, <2>1, <2>2 DEF EX!Recreate
<1>7. CASE EX!upsertAgent
  <2>0. expAt = "agent" /\ UNCHANGED <<wf, wfSeen, agentOld, binding, bindingSeen, saMade, crd, EX!outside>>
    BY <1>7 DEF EX!upsertAgent
  <2>1. CASE agentNow' = copy.uid /\ EX!then("prune")
    <3>1. copy.uid = wf.uid /\ wf.finalizer
      BY <1>t, <2>0 DEF Guarded, Publishing
    <3>2. AgentGuarded(agentNow', wf, "prune")
      BY <2>1, <3>1 DEF AgentGuarded
    <3>3. agentNow' \in EX!Owners
      BY <1>t, <2>1 DEF ExposureTyped, EX!Owners
    <3> QED
      BY <2>0, <2>1, <3>2, <3>3, <1>o, <1>b, WorkerNext DEF Publishing
  <2>2. CASE agentNow' = agentNow /\ EX!done(TRUE)
    BY <2>0, <2>2, <1>i, <1>q, <1>o, <1>a, <1>b, WorkerGoesOn
  <2> QED
    BY <1>7, <2>1, <2>2 DEF EX!upsertAgent
<1>8. CASE EX!pruneStaleAgents
  <2>1. agentOld' \in EX!Owners
    BY <1>8, <1>o DEF EX!pruneStaleAgents, EX!Owners, EX!Absent
  <2> QED
    BY <1>8, <2>1, <1>i, <1>q, <1>o, <1>a, <1>b, WorkerGoesOn DEF EX!pruneStaleAgents
<1>9. CASE EX!Unfinalize \/ EX!Finalize
  <2>0. /\ expAt \in {"unfinalize", "finalize"} /\ (EX!Unfinalize => expAt = "unfinalize") /\ (EX!Finalize => expAt = "finalize")
        /\ UNCHANGED <<wfSeen, agentNow, agentOld, binding, bindingSeen, saMade, crd, EX!outside>>
    BY <1>9 DEF EX!Unfinalize, EX!Finalize
  <2>1. CASE wf' = wf /\ EX!done(TRUE)
    BY <2>0, <2>1, <1>i, <1>q, <1>o, <1>a, <1>b, WorkerGoesOn
  <2>f. CASE wf' = wf /\ EX!done(FALSE)
    <3>1. expAt' = "idle" /\ copy' = EX!noCopy /\ existing' = 0 /\ queued' \in BOOLEAN
      BY <2>f, <1>q DEF EX!done
    <3>2. ExposureTyped'
      BY <1>t, <2>0, <2>f, <3>1 DEF ExposureTyped, EX!noCopy, EX!outside
    <3>3. SwitchesTyped'
      BY <1>t, <2>0, <3>1 DEF SwitchesTyped, EX!outside
    <3>4. CopyBehind(expAt', copy', wfSeen, serveImage) /\ Guarded(wf, wfSeen, expAt', copy', serveImage)
      BY <1>t, <3>1, GoesIdle
    <3> QED
      BY <1>t, <1>a, <1>b, <2>0, <2>f, <3>1, <3>2, <3>3, <3>4 DEF ExposureInv, EX!outside
  <2>2. CASE wf.rv = copy.rv /\ wf.uid # 0
    <3>1. wfSeen = wf /\ copy.uid = wf.uid /\ (expAt = "unfinalize" => ~ToPublish(wf, serveImage))
      <4>1. wf.rv \in Nat /\ wfSeen.rv \in Nat /\ copy.rv \in Nat
        BY <1>t DEF ExposureTyped, WorkflowState
      <4>2. copy.rv <= wfSeen.rv /\ wfSeen.rv <= wf.rv
        BY <1>t, <2>0 DEF CopyBehind, CacheBehind
      <4>3. copy.rv = wfSeen.rv /\ wfSeen.rv = wf.rv
        BY <2>2, <4>1, <4>2
      <4> QED
        BY <1>t, <2>0, <4>3 DEF CopyBehind, CacheBehind
    <3>w. wf \in WorkflowState
      BY <1>t DEF ExposureTyped
    <3>2. CASE EX!Finalize
      <4>0. EX!update(TRUE) /\ EX!then("account")
        BY <2>2, <3>2 DEF EX!Finalize
      <4>1. wf' = [wf EXCEPT !.finalizer = TRUE, !.rv = @ + 1]
        BY <4>0 DEF EX!update
      <4>2. wf' \in WorkflowState /\ wf'.rv = wf.rv + 1 /\ wf'.uid = wf.uid /\ wf'.finalizer
        <5>1. wf.rv + 1 \in Nat
          BY <3>w DEF WorkflowState
        <5>2. wf' \in WorkflowState
          BY <3>w, <4>1, <5>1 DEF WorkflowState
        <5>3. wf'.rv = wf.rv + 1 /\ wf'.uid = wf.uid /\ wf'.finalizer = TRUE
          BY <3>w, <4>1 DEF WorkflowState
        <5> QED BY <5>2, <5>3
      <4>3. CacheBehind(wf', wfSeen)
        BY <1>t, <3>1, <3>w, <4>2, WorkflowWritten DEF ExposureTyped
      <4>4. expAt' = "account" /\ copy' = copy /\ existing' = existing /\ queued' \in BOOLEAN
        BY <4>0, <1>n
      <4>5. CopyBehind(expAt', copy', wfSeen, serveImage)
        BY <1>t, <2>0, <4>4 DEF CopyBehind
      <4>6. Guarded(wf', wfSeen, expAt', copy', serveImage)
        BY <3>1, <4>2, <4>4 DEF Guarded
      <4>7. AgentGuarded(agentNow, wf', expAt')
        BY <1>t, <4>2, <4>4 DEF AgentGuarded
      <4>8. ExposureTyped'
        BY <1>t, <2>0, <4>2, <4>4 DEF ExposureTyped, EX!outside, Publishing
      <4>9. SwitchesTyped'
        BY <1>t, <2>0, <4>4 DEF SwitchesTyped, EX!outside
      <4> QED
        BY <1>b, <2>0, <4>3, <4>4, <4>5, <4>6, <4>7, <4>8, <4>9 DEF ExposureInv, EX!outside
    <3>3. CASE EX!Unfinalize
      <4>0. EX!update(FALSE) /\ EX!done(FALSE) /\ expAt = "unfinalize"
        BY <2>2, <3>3 DEF EX!Unfinalize
      <4>1. wf' \in WorkflowState /\ wf'.rv = wf.rv + 1
        <5>1. CASE wf.deleting
          <6>1. wf' = [EX!None EXCEPT !.rv = wf.rv + 1]
            BY <4>0, <5>1 DEF EX!update
          <6>2. EX!None \in WorkflowState /\ wf.rv + 1 \in Nat
            BY <3>w DEF EX!None, WorkflowState, EX!Exposes
          <6> QED BY <6>1, <6>2 DEF WorkflowState
        <5>2. CASE ~wf.deleting
          <6>1. wf' = [wf EXCEPT !.finalizer = FALSE, !.rv = @ + 1]
            BY <4>0, <5>2 DEF EX!update
          <6>2. wf.rv + 1 \in Nat
            BY <3>w DEF WorkflowState
          <6> QED BY <3>w, <6>1, <6>2 DEF WorkflowState
        <5> QED BY <5>1, <5>2
      <4>3. CacheBehind(wf', wfSeen)
        BY <1>t, <3>1, <3>w, <4>1, WorkflowWritten DEF ExposureTyped
      <4>4. expAt' = "idle" /\ copy' = EX!noCopy /\ existing' = 0 /\ queued' \in BOOLEAN
        BY <4>0, <1>q DEF EX!done
      <4>5. CopyBehind(expAt', copy', wfSeen, serveImage)
        BY <4>4 DEF CopyBehind
      <4>6. Guarded(wf', wfSeen, expAt', copy', serveImage)
        BY <3>1, <4>0, <4>4 DEF Guarded, Publishing
      <4>7. AgentGuarded(agentNow, wf', expAt')
        BY <1>t, <4>0, <4>4 DEF AgentGuarded
      <4>8. ExposureTyped'
        BY <1>t, <2>0, <4>1, <4>4 DEF ExposureTyped, EX!outside, EX!noCopy
      <4>9. SwitchesTyped'
        BY <1>t, <2>0, <4>4 DEF SwitchesTyped, EX!outside
      <4> QED
        BY <1>b, <2>0, <4>3, <4>4, <4>5, <4>6, <4>7, <4>8, <4>9 DEF ExposureInv, EX!outside
    <3> QED BY <1>9, <3>2, <3>3
  <2> QED
    BY <1>9, <2>1, <2>2, <2>f DEF EX!Unfinalize, EX!Finalize
<1> QED
  BY <1>1, <1>2, <1>3, <1>4, <1>5, <1>6, <1>7, <1>8, <1>9 DEF EX!Worker

\* Every step, those of owners and of other clients too, keeps it.
LEMMA ExposureStep == ExposureInv /\ [EX!Next]_exposureVars => ExposureInv'
<1> SUFFICES ASSUME ExposureInv, [EX!Next]_exposureVars PROVE ExposureInv'
  OBVIOUS
<1> USE ExposureAssumption
<1>t. ExposureTyped /\ SwitchesTyped /\ AgentGuarded(agentNow, wf, expAt) /\ BindingBehind(binding, bindingSeen, expAt, existing)
      /\ CacheBehind(wf, wfSeen) /\ CopyBehind(expAt, copy, wfSeen, serveImage) /\ Guarded(wf, wfSeen, expAt, copy, serveImage)
  BY DEF ExposureInv
<1>w. wf \in WorkflowState /\ wfSeen \in WorkflowState /\ wf.rv \in Nat /\ wfSeen.rv \in Nat
  BY <1>t DEF ExposureTyped, WorkflowState
<1>1. CASE EX!CallFails
  <2>1. /\ UNCHANGED <<wf, wfSeen, agentNow, agentOld, binding, bindingSeen, saMade, crd, serveImage, edits, others>>
        /\ failures' = failures + 1 /\ failures < MaxFaults
        /\ expAt' = "idle" /\ copy' = EX!noCopy /\ existing' = 0
    BY <1>1 DEF EX!CallFails, EX!world, EX!done
  <2>2. queued' \in BOOLEAN
    BY <1>1, <1>t DEF EX!CallFails, EX!done, SwitchesTyped
  <2>3. ExposureTyped'
    BY <1>t, <2>1 DEF ExposureTyped, EX!noCopy
  <2>4. SwitchesTyped'
    BY <1>t, <2>1, <2>2 DEF SwitchesTyped
  <2>5. CopyBehind("idle", copy', wfSeen, serveImage) /\ Guarded(wf, wfSeen, "idle", copy', serveImage)
    BY <1>t, GoesIdle
  <2>6. AgentGuarded(agentNow, wf, "idle") /\ BindingBehind(binding, bindingSeen, "idle", 0)
    BY <1>t DEF AgentGuarded, BindingBehind
  <2> QED BY <1>t, <2>1, <2>3, <2>4, <2>5, <2>6 DEF ExposureInv
<1>2. CASE EX!CacheSyncs
  <2>1. /\ UNCHANGED <<wf, agentNow, agentOld, binding, saMade, crd, copy, existing, expAt, serveImage, edits, others, failures>>
        /\ wfSeen' = wf /\ bindingSeen' = binding
    BY <1>2 DEF EX!CacheSyncs, EX!outside
  <2>2. queued' \in BOOLEAN
    BY <1>2, <1>t DEF EX!CacheSyncs, SwitchesTyped
  <2>3. ExposureTyped'
    BY <1>t, <2>1 DEF ExposureTyped
  <2>4. SwitchesTyped'
    BY <1>t, <2>1, <2>2 DEF SwitchesTyped
  <2>5. CopyBehind(expAt, copy, wf, serveImage)
    <3>1. copy.rv \in Nat
      BY <1>t DEF ExposureTyped
    <3> QED BY <1>t, <1>w, <3>1 DEF CopyBehind, CacheBehind
  <2>6. Guarded(wf, wf, expAt, copy, serveImage) /\ CacheBehind(wf, wf)
    BY <1>t, <1>w DEF Guarded, CacheBehind
  <2>7. BindingBehind(binding, binding, expAt, existing)
    BY <1>t DEF BindingBehind, ExposureTyped, BindingState
  <2> QED BY <1>t, <2>1, <2>3, <2>4, <2>5, <2>6, <2>7 DEF ExposureInv
<1>3. CASE EX!Owner
  <2>0. /\ UNCHANGED <<wfSeen, agentNow, agentOld, binding, bindingSeen, saMade, crd, copy, existing, expAt, queued, serveImage, others, failures>>
        /\ edits' = edits + 1 /\ edits < MaxEdits
    BY <1>3 DEF EX!Owner
  <2>n. EX!None \in WorkflowState /\ EX!None.uid = 0 /\ ~EX!None.finalizer /\ wf.rv + 1 \in Nat
    BY <1>w DEF EX!None, WorkflowState, EX!Exposes
  <2>1. /\ wf' \in WorkflowState /\ wf'.rv = wf.rv + 1
        /\ wf.uid # 0 /\ wf.finalizer => wf'.uid = wf.uid /\ wf'.finalizer
    <3>1. ASSUME wf.uid # 0, NEW e \in EX!Exposes, wf' = [wf EXCEPT !.expose = e, !.rv = @ + 1]
          PROVE  /\ wf' \in WorkflowState /\ wf'.rv = wf.rv + 1
                 /\ wf.finalizer => wf'.uid = wf.uid /\ wf'.finalizer
      <4>1. wf' \in WorkflowState
        BY <1>w, <2>n, <3>1 DEF WorkflowState
      <4>2. wf'.rv = wf.rv + 1 /\ wf'.uid = wf.uid /\ wf'.finalizer = wf.finalizer
        BY <1>w, <3>1 DEF WorkflowState
      <4> QED BY <4>1, <4>2
    <3>2. ASSUME wf.uid # 0, wf.finalizer, wf' = [wf EXCEPT !.deleting = TRUE, !.rv = @ + 1]
          PROVE  /\ wf' \in WorkflowState /\ wf'.rv = wf.rv + 1
                 /\ wf.finalizer => wf'.uid = wf.uid /\ wf'.finalizer
      <4>1. wf' \in WorkflowState
        BY <1>w, <2>n, <3>2 DEF WorkflowState
      <4>2. wf'.rv = wf.rv + 1 /\ wf'.uid = wf.uid /\ wf'.finalizer = wf.finalizer
        BY <1>w, <3>2 DEF WorkflowState
      <4> QED BY <4>1, <4>2
    <3>3. ASSUME ~wf.finalizer, wf' = [EX!None EXCEPT !.rv = wf.rv + 1]
          PROVE  /\ wf' \in WorkflowState /\ wf'.rv = wf.rv + 1
      BY <2>n, <3>3 DEF WorkflowState
    <3>4. ASSUME wf.uid = 0, NEW e \in EX!Exposes,
                 wf' = [EX!None EXCEPT !.uid = edits + 2, !.expose = e, !.rv = wf.rv + 1]
          PROVE  /\ wf' \in WorkflowState /\ wf'.rv = wf.rv + 1
      <4>1. edits + 2 \in 0 .. (MaxEdits + 1)
        BY <1>t, <2>0 DEF ExposureTyped
      <4> QED BY <2>n, <3>4, <4>1 DEF WorkflowState
    <3> QED
      BY <1>3, <3>1, <3>2, <3>3, <3>4 DEF EX!Owner
  <2>2. CacheBehind(wf', wfSeen)
    BY <1>t, <1>w, <2>1, WorkflowWritten
  <2>3. Guarded(wf', wfSeen, expAt, copy, serveImage)
    <3>1. expAt # "idle" => copy.uid # 0
      BY <1>t DEF CopyBehind
    <3> QED BY <1>t, <2>1, <3>1 DEF Guarded, ToPublish, Publishing
  <2>4. AgentGuarded(agentNow, wf', expAt)
    BY <1>t, <2>1 DEF AgentGuarded, EX!Absent
  <2>5. ExposureTyped'
    BY <1>t, <2>0, <2>1 DEF ExposureTyped
  <2>6. SwitchesTyped'
    BY <1>t, <2>0 DEF SwitchesTyped
  <2> QED BY <1>t, <2>0, <2>2, <2>3, <2>4, <2>5, <2>6 DEF ExposureInv
<1>4. CASE EX!Others
  <2>0. /\ UNCHANGED <<wf, wfSeen, agentOld, bindingSeen, saMade, copy, existing, expAt, queued, serveImage, edits, failures>>
        /\ others' = others + 1 /\ others < MaxOthers
    BY <1>4 DEF EX!Others
  <2>1. agentNow' = agentNow \/ agentNow' = EX!Foreign
    BY <1>4 DEF EX!Others
  <2>2. binding' = binding \/ EX!bind("right")
    BY <1>4 DEF EX!Others
  <2>3. crd' = crd \/ crd' = TRUE
    BY <1>4 DEF EX!Others
  <2>4. binding' \in BindingState /\ BindingBehind(binding', bindingSeen, expAt, existing)
    <3>1. CASE binding' = binding
      BY <1>t, <3>1 DEF ExposureTyped
    <3>2. CASE EX!bind("right")
      <4>1. binding.version \in Nat /\ bindingSeen.version \in Nat /\ existing \in Nat
        BY <1>t DEF ExposureTyped, BindingState
      <4>2. binding' = [kind |-> "right", version |-> binding.version + 1]
        BY <3>2 DEF EX!bind
      <4> QED BY <1>t, <4>1, <4>2 DEF BindingState, BindingBehind, EX!Kinds
    <3> QED BY <2>2, <3>1, <3>2
  <2>5. AgentGuarded(agentNow', wf, expAt)
    BY <1>t, <2>1 DEF AgentGuarded
  <2>6. ExposureTyped'
    BY <1>t, <2>0, <2>1, <2>4 DEF ExposureTyped, EX!Owners, EX!Foreign
  <2>7. SwitchesTyped'
    BY <1>t, <2>0, <2>3 DEF SwitchesTyped
  <2> QED BY <1>t, <2>0, <2>4, <2>5, <2>6, <2>7 DEF ExposureInv
<1>5. CASE UNCHANGED exposureVars
  <2> USE <1>5 DEF exposureVars
  <2>1. ExposureTyped'
    BY <1>t DEF ExposureTyped
  <2>2. SwitchesTyped'
    BY <1>t DEF SwitchesTyped
  <2> QED BY <1>t, <2>1, <2>2 DEF ExposureInv
<1>6. CASE EX!Redeploy
  <2>1. /\ UNCHANGED <<wf, agentNow, agentOld, binding, saMade, crd, edits, failures>>
        /\ wfSeen' = wf /\ bindingSeen' = binding
        /\ others' = others + 1 /\ others < MaxOthers
        /\ expAt' = "idle" /\ copy' = EX!noCopy /\ existing' = 0
    BY <1>6 DEF EX!Redeploy, EX!done
  <2>2. queued' \in BOOLEAN /\ serveImage' \in BOOLEAN
    BY <1>6, <1>t DEF EX!Redeploy, EX!done, SwitchesTyped
  <2>3. ExposureTyped'
    BY <1>t, <2>1 DEF ExposureTyped, EX!noCopy
  <2>4. SwitchesTyped'
    BY <1>t, <2>1, <2>2 DEF SwitchesTyped
  <2>5. CacheBehind(wf, wf) /\ CopyBehind("idle", copy', wf, serveImage') /\ Guarded(wf, wf, "idle", copy', serveImage')
    BY <1>w DEF CacheBehind, CopyBehind, Guarded, Publishing
  <2>6. AgentGuarded(agentNow, wf, "idle") /\ BindingBehind(binding, binding, "idle", 0)
    BY <1>t DEF AgentGuarded, BindingBehind, ExposureTyped, BindingState
  <2> QED BY <1>t, <2>1, <2>3, <2>4, <2>5, <2>6 DEF ExposureInv
<1> QED
  BY <1>1, <1>2, <1>3, <1>4, <1>5, <1>6, ExposureWorker DEF EX!Next

\* No Agent outlives the Workflow that it exposes.
LEMMA ExposureImplies == ExposureInv => EX!TypeOK /\ EX!NoOrphan
<1> SUFFICES ASSUME ExposureInv PROVE EX!TypeOK /\ EX!NoOrphan
  OBVIOUS
<1>1. EX!NoOrphan
  BY DEF ExposureInv, AgentGuarded, EX!NoOrphan
<1>2. \A w \in {wf, wfSeen} : w \in WorkflowState
  BY DEF ExposureInv, ExposureTyped
<1>3. \A w \in {wf, wfSeen} :
          /\ w.uid \in 0 .. (MaxEdits + 1) /\ w.rv \in Nat
          /\ w.expose \in EX!Exposes /\ {w.deleting, w.finalizer} \subseteq BOOLEAN
  BY <1>2 DEF WorkflowState
<1>4. \A b \in {binding, bindingSeen} : b.kind \in EX!Kinds /\ b.version \in Nat
  BY DEF ExposureInv, ExposureTyped, BindingState
<1>5. copy.uid \in 0 .. (MaxEdits + 1) /\ copy.rv \in Nat
  BY DEF ExposureInv, ExposureTyped
<1>6. EX!TypeOK
  BY <1>3, <1>4, <1>5 DEF EX!TypeOK, ExposureInv, ExposureTyped, SwitchesTyped, Publishing
<1> QED BY <1>1, <1>6

\* No Agent changes its owner.
LEMMA AgentNotTaken == ASSUME ExposureInv, EX!Next PROVE EX!NoTakeover
  BY DEF EX!NoTakeover, EX!Next, EX!Worker, EX!Reconcile, EX!deleteAgent, EX!Unfinalize, EX!Finalize,
     EX!EnsureAccount, EX!reconcileRoleBinding, EX!Rebind, EX!Recreate, EX!upsertAgent, EX!pruneStaleAgents,
     EX!CallFails, EX!Redeploy, EX!CacheSyncs, EX!Owner, EX!Others, EX!managedBy, EX!Absent, EX!world

\* A binding that is right stays right.
LEMMA BindingStays == ASSUME ExposureInv, EX!Next PROVE EX!GoodBindingKept
<1> SUFFICES ASSUME binding.kind = "right" PROVE binding'.kind = "right"
  BY DEF EX!GoodBindingKept
<1>1. binding' = binding \/ EX!bind("right") \/ (EX!bind("absent") /\ expAt = "rebind" /\ binding.version = existing)
  <2>1. CASE EX!reconcileRoleBinding
    BY <2>1 DEF EX!reconcileRoleBinding
  <2>2. CASE EX!Rebind \/ EX!Recreate
    BY <2>2 DEF EX!Rebind, EX!Recreate
  <2>3. CASE EX!Others
    BY <2>3 DEF EX!Others
  <2>4. CASE EX!Reconcile \/ EX!CallFails \/ EX!Redeploy
    BY <2>4 DEF EX!Reconcile, EX!CallFails, EX!Redeploy, EX!world
  <2>5. CASE EX!deleteAgent \/ EX!Unfinalize \/ EX!Finalize \/ EX!EnsureAccount \/ EX!upsertAgent \/ EX!pruneStaleAgents
             \/ EX!CacheSyncs \/ EX!Owner
    BY <2>5 DEF EX!deleteAgent, EX!Unfinalize, EX!Finalize, EX!EnsureAccount, EX!upsertAgent, EX!pruneStaleAgents,
       EX!CacheSyncs, EX!Owner
  <2> QED BY <2>1, <2>2, <2>3, <2>4, <2>5 DEF EX!Next, EX!Worker
<1>2. ~(expAt = "rebind" /\ binding.version = existing)
  BY DEF ExposureInv, BindingBehind
<1> QED BY <1>1, <1>2 DEF EX!bind

\* reconcileExposure: a Workflow that is gone leaves no Agent behind, no Agent changes its
\* owner, and a good binding is never removed or spoilt, with stale caches and failing
\* calls: for every number of edits, of other writers and of faults.
THEOREM ExposureIsSound == EX!Spec => EX!ExposureSound
<1> DEFINE Kept == EX!NoTakeover /\ EX!GoodBindingKept
<1>1. /\ [EX!Next]_exposureVars <=> [EX!Next]_EX!expVars
      /\ [Kept]_exposureVars <=> [Kept]_EX!expVars
  BY DEF exposureVars, EX!expVars
<1>2. ExposureInv => EX!NoOrphan
  BY ExposureImplies
<1>3. ExposureInv /\ [EX!Next]_exposureVars => [Kept]_exposureVars
  BY AgentNotTaken, BindingStays
<1> HIDE DEF Kept
<1>4. EX!Spec => []EX!NoOrphan /\ [][Kept]_EX!expVars
  BY <1>1, <1>2, <1>3, ExposureInit, ExposureStep, PTL DEF EX!Spec
<1> QED BY <1>4 DEF Kept, EX!ExposureSound

\* The same of exposure as MCSafety runs it.
THEOREM ExposurePart == PartsSpec => ExposureSound
<1> DEFINE PartInv == part = "exposure" => ExposureInv
           OK == part = "exposure" => EX!NoOrphan
           Kept == part = "exposure" => EX!NoTakeover /\ EX!GoodBindingKept
<1>1. PartsInit => PartInv
  BY ExposureInit DEF PartsInit
<1>2. [PartsNext]_allVars => part' = part /\ (part = "exposure" => [EX!Next]_exposureVars)
  BY DEF PartsNext, allVars, only
<1>3. PartInv /\ [PartsNext]_allVars => PartInv'
  BY <1>2, ExposureStep
<1>4. PartInv => OK
  BY ExposureImplies
<1>5. PartInv /\ [PartsNext]_allVars => [Kept]_allVars
  <2> SUFFICES ASSUME PartInv, PartsNext, part = "exposure" PROVE EX!NoTakeover /\ EX!GoodBindingKept
    OBVIOUS
  <2>1. ExposureInv /\ EX!Next
    BY DEF PartsNext, only
  <2> QED BY <2>1, AgentNotTaken, BindingStays
<1> HIDE DEF PartInv, OK, Kept
<1>6. PartsSpec => []OK /\ [][Kept]_allVars
  BY <1>1, <1>3, <1>4, <1>5, PTL DEF PartsSpec
<1> QED
  BY <1>6 DEF ExposureSound, OK, Kept

----------------------------------------------------------------------------
(* The runner's access (RunnerAccess).  What nobody outside touched is as  *)
(* the reconcile left it, and each place of the reconcile has what the     *)
(* ones before it provided.                                                *)

\* The places of a reconcile once the ServiceAccount is there.
AfterAccount ==
  {"binding", "rebind", "caller", "recall", "writer", "writer2", "secrets", "ca", "cm", "job", "watch"}

\* Once the runner's binding is there.
AfterBinding == AfterAccount \ {"binding", "rebind"}

\* Once the caller's binding is there.
AfterCaller == AfterBinding \ {"caller", "recall"}

\* Once the checkpoint writer's binding is there.
AfterWriter == {"secrets", "ca", "cm", "job"}

\* Every place of a reconcile.
AccessPlaces == AfterAccount \cup {"build", "account", "failed"}

\* An object in the cluster or in the cache.
Object == [uid : 0 .. MaxUid, says : RA!Managed \cup RA!Unmanaged \cup {"none"}, val : Nat]

\* An object has a uid of its own, up to n of them are used; no object is None.
Numbered(x, n) == /\ x \in Object /\ x.uid <= n
                  /\ x.uid = 0 => x = RA!None
                  /\ x.says = "none" => x = RA!None

\* x at the API server, y in the cache: as long as the uid is the same, the owner is.
SameOwner(x, y) == x.uid = y.uid => (x.says = "foreign" <=> y.says = "foreign")

\* Of a cluster role binding that no outsider has touched.
BindingCalm(x, y) ==
  /\ x.says \notin {"wrongSubject", "unlabelled"} /\ y.says \notin {"wrongSubject", "unlabelled"}
  /\ x.uid = y.uid => x = y
  /\ x.says \in {"wrongRole", "foreign"} => y = x
  /\ y.says = "right" => x.says = "right"

\* Of the RoleBinding that no outsider has touched, while the account is acc.
WriterCalm(x, y, acc, n) ==
  /\ x.says \in {"none", "right", "wrongRole"} /\ y.says \in {"none", "right", "wrongRole"}
  /\ x.uid = y.uid => x = y
  /\ x.val <= n /\ y.val <= n
  /\ acc # 0 /\ y.says = "right" /\ y.val = acc => x.says = "right" /\ x.val = acc

\* What nobody outside has touched is as the controller left it.
Calm(b, s, acc, kn, n) ==
  /\ BindingCalm(b["binding"], s["binding"])
  /\ BindingCalm(b["caller"], s["caller"]) /\ b["caller"].says # "foreign" /\ s["caller"].says # "foreign"
  /\ WriterCalm(b["writer"], s["writer"], acc, n)
  /\ b["cm"].says \in {"none", "right"}
  /\ kn # 0 => kn = acc

\* What has been seen to by the time the reconcile is at pc.
Provided(pc, b, acc, kn, cr) ==
  /\ pc \in AfterAccount => acc # 0
  /\ pc \in AfterBinding => b["binding"].says = "right"
  /\ pc \in AfterCaller => b["caller"].says = "right"
  /\ pc \in AfterWriter /\ kn # 0 => b["writer"].says = "right" /\ b["writer"].val = acc
  /\ pc = "job" => b["cm"].says = "right" /\ b["cm"].val = cr

\* Types.
AccessTyped ==
  /\ obj \in [RA!Objects -> Object] /\ seen \in [RA!Objects -> Object]
  /\ uids \in 2 .. MaxUid /\ account \in 0 .. uids /\ known \in 0 .. uids
  /\ caVersion \in Nat /\ caRead \in Nat /\ at \in AccessPlaces
  /\ jobMade \in BOOLEAN /\ touched \in BOOLEAN /\ changes \in 0 .. MaxChanges

\* The inductive invariant of the runner's access.
AccessInv ==
  /\ AccessTyped
  /\ \A o \in RA!Objects : /\ Numbered(obj[o], uids) /\ Numbered(seen[o], uids)
                           /\ SameOwner(obj[o], seen[o])
  /\ jobMade => at \in {"writer", "writer2", "watch"}
  /\ ~touched => Calm(obj, seen, account, known, uids) /\ Provided(at, obj, account, known, caRead)

\* The object that is not there.
LEMMA NoObject == RA!None \in Object /\ RA!None.uid = 0 /\ RA!None.says = "none" /\ RA!None.val = 0
  BY AccessAssumption DEF RA!None, Object

\* The objects that a runner needs.
LEMMA ObjectNames ==
  /\ RA!Objects = {"binding", "caller", "writer", "cm"}
  /\ "binding" \in RA!Objects /\ "caller" \in RA!Objects /\ "writer" \in RA!Objects /\ "cm" \in RA!Objects
  BY DEF RA!Objects

\* Nothing has been provided yet.
LEMMA AccessInit == RA!Init => AccessInv
<1> SUFFICES ASSUME RA!Init PROVE AccessInv
  OBVIOUS
<1> USE AccessAssumption, NoObject, ObjectNames
<1>1. /\ obj["binding"] \in {RA!None} \cup [uid : {1}, says : {"wrongRole", "foreign"}, val : {0}]
      /\ obj["caller"] \in {RA!None} \cup [uid : {1}, says : {"wrongRole"}, val : {0}]
      /\ obj["writer"] \in {RA!None} \cup [uid : {1}, says : {"right", "wrongRole"}, val : {1, 2}]
      /\ obj["cm"] \in {RA!None} \cup [uid : {1}, says : {"right"}, val : {0}]
      /\ seen = obj /\ DOMAIN obj = RA!Objects /\ obj = [o \in RA!Objects |-> obj[o]]
  BY DEF RA!Init
<1>2. \A o \in RA!Objects : Numbered(obj[o], 2)
  BY <1>1 DEF Numbered, Object, RA!Managed, RA!Unmanaged
<1>3. obj \in [RA!Objects -> Object]
  BY <1>1, <1>2 DEF Numbered
<1>4. AccessTyped
  <2>1. /\ uids \in 2 .. MaxUid /\ account \in 0 .. uids /\ known \in 0 .. uids
        /\ caVersion \in Nat /\ caRead \in Nat /\ changes \in 0 .. MaxChanges
    BY DEF RA!Init
  <2>2. jobMade \in BOOLEAN /\ touched \in BOOLEAN /\ at \in AccessPlaces
    BY DEF RA!Init, AccessPlaces
  <2> QED BY <1>1, <1>3, <2>1, <2>2 DEF AccessTyped
<1>5. Calm(obj, seen, account, known, uids)
  BY <1>1 DEF RA!Init, Calm, BindingCalm, WriterCalm
<1>6. Provided(at, obj, account, known, caRead)
  BY DEF RA!Init, Provided, AfterAccount, AfterBinding, AfterCaller, AfterWriter
<1> QED
  BY <1>1, <1>2, <1>4, <1>5, <1>6 DEF RA!Init, AccessInv, SameOwner

\* The invariant, part by part.
LEMMA AccessBefore ==
  ASSUME AccessInv
  PROVE  /\ obj \in [RA!Objects -> Object] /\ seen \in [RA!Objects -> Object]
         /\ uids \in 2 .. MaxUid /\ account \in 0 .. uids /\ known \in 0 .. uids
         /\ caVersion \in Nat /\ caRead \in Nat /\ at \in AccessPlaces
         /\ jobMade \in BOOLEAN /\ touched \in BOOLEAN /\ changes \in 0 .. MaxChanges
         /\ \A o \in RA!Objects : /\ Numbered(obj[o], uids) /\ Numbered(seen[o], uids)
                                  /\ SameOwner(obj[o], seen[o])
         /\ jobMade => at \in {"writer", "writer2", "watch"}
         /\ ~touched => Calm(obj, seen, account, known, uids) /\ Provided(at, obj, account, known, caRead)
  BY DEF AccessInv, AccessTyped

\* What has to be shown of a step.
LEMMA AccessAfter ==
  ASSUME obj' \in [RA!Objects -> Object], seen' \in [RA!Objects -> Object],
         uids' \in 2 .. MaxUid, account' \in 0 .. uids', known' \in 0 .. uids',
         caVersion' \in Nat, caRead' \in Nat, at' \in AccessPlaces,
         jobMade' \in BOOLEAN, touched' \in BOOLEAN, changes' \in 0 .. MaxChanges,
         \A o \in RA!Objects : /\ Numbered(obj'[o], uids') /\ Numbered(seen'[o], uids')
                               /\ SameOwner(obj'[o], seen'[o]),
         jobMade' => at' \in {"writer", "writer2", "watch"},
         ~touched' => Calm(obj', seen', account', known', uids') /\ Provided(at', obj', account', known', caRead')
  PROVE  AccessInv'
<1>1. AccessTyped'
  BY DEF AccessTyped
<1> QED BY <1>1 DEF AccessInv

\* The reconcile goes on to pc and nothing else happens.
LEMMA Left ==
  ASSUME AccessInv, NEW pc \in AccessPlaces, RA!leave(pc),
         jobMade => pc \in {"writer", "writer2", "watch"},
         ~touched => Provided(pc, obj, account, known, caRead)
  PROVE  AccessInv'
<1>1. /\ at' = pc
      /\ UNCHANGED <<obj, seen, account, caVersion, known, caRead, jobMade, uids, changes, touched>>
  BY DEF RA!leave, RA!goto
<1>2. jobMade' \in BOOLEAN /\ touched' \in BOOLEAN
  BY <1>1, AccessBefore
<1> QED BY <1>1, <1>2, AccessBefore, AccessAfter

\* It begins again: nothing is provided yet, and the Job's objects are left alone.
LEMMA Restarted ==
  ASSUME AccessInv, \/ RA!leave(RA!restart)
                    \/ RA!leave("build") /\ ~jobMade
                    \/ RA!leave("failed") /\ ~jobMade
  PROVE  AccessInv'
<1>1. CASE RA!leave("build") /\ ~jobMade
  BY <1>1, Left DEF AccessPlaces, Provided, AfterAccount, AfterBinding, AfterCaller, AfterWriter
<1>2. CASE RA!leave("failed") /\ ~jobMade
  BY <1>2, Left DEF AccessPlaces, Provided, AfterAccount, AfterBinding, AfterCaller, AfterWriter
<1>3. CASE RA!leave("watch") /\ jobMade
  <2>1. ~touched => Provided("watch", obj, account, known, caRead)
    BY <1>3, AccessBefore DEF Provided, AfterAccount, AfterBinding, AfterCaller, AfterWriter
  <2> QED BY <1>3, <2>1, Left DEF AccessPlaces, AfterAccount
<1>4. CASE RA!leave(RA!restart)
  <2>1. CASE jobMade
    <3>1. RA!restart = "watch"
      BY <2>1 DEF RA!restart
    <3> QED BY <1>3, <1>4, <2>1, <3>1
  <2>2. CASE ~jobMade
    <3>1. RA!restart = "build"
      BY <2>2 DEF RA!restart
    <3> QED BY <1>1, <1>4, <2>2, <3>1
  <2> QED BY <2>1, <2>2
<1> QED BY <1>1, <1>2, <1>4

\* What a write does.
LEMMA Written ==
  ASSUME AccessInv, NEW o \in RA!Objects, NEW new \in Object, NEW pc \in AccessPlaces, RA!write(o, new, pc),
         \/ new = RA!None
         \/ /\ new # RA!None /\ new.uid # 0 /\ new.says # "none"
            /\ \/ new.uid = uids + 1 /\ uids < MaxUid
               \/ new.uid = obj[o].uid,
         SameOwner(new, seen[o]),
         jobMade => pc \in {"writer", "writer2", "watch"},
         ~touched => \A b, n : /\ n \in 2 .. MaxUid /\ uids <= n
                               /\ \A p \in RA!Objects : b[p] = IF p = o THEN new ELSE obj[p]
                               => Calm(b, seen, account, known, n) /\ Provided(pc, b, account, known, caRead)
  PROVE  AccessInv'
<1>1. /\ obj' = [obj EXCEPT ![o] = new] /\ uids' = (IF new.uid > uids THEN new.uid ELSE uids) /\ at' = pc
      /\ UNCHANGED <<seen, account, caVersion, jobMade, changes, touched, known, caRead>>
  BY DEF RA!write, RA!goto
<1>2. /\ obj' \in [RA!Objects -> Object] /\ \A p \in RA!Objects : obj'[p] = IF p = o THEN new ELSE obj[p]
  BY <1>1, AccessBefore
<1>3. uids' \in 2 .. MaxUid /\ uids <= uids' /\ new.uid <= uids' /\ uids \in Nat /\ uids' \in Nat
  <2>1. new.uid \in Nat /\ uids \in Nat /\ uids >= 2 /\ uids <= MaxUid
    BY AccessBefore, AccessAssumption DEF Object
  <2>2. new.uid <= MaxUid
    BY AccessAssumption DEF Object
  <2> QED BY <1>1, <2>1, <2>2, AccessAssumption
<1>4. account \in 0 .. uids' /\ known \in 0 .. uids'
  BY <1>3, AccessBefore
<1>5. ASSUME NEW p \in RA!Objects
      PROVE  Numbered(obj'[p], uids') /\ Numbered(seen[p], uids') /\ SameOwner(obj'[p], seen[p])
  <2>1. \A x : Numbered(x, uids) => Numbered(x, uids')
    <3> SUFFICES ASSUME NEW x, Numbered(x, uids) PROVE Numbered(x, uids')
      OBVIOUS
    <3>1. x.uid \in Nat
      BY AccessAssumption DEF Numbered, Object
    <3> QED BY <1>3, <3>1 DEF Numbered
  <2>2. Numbered(new, uids')
    BY <1>3, NoObject DEF Numbered
  <2> QED BY <1>2, <2>1, <2>2, AccessBefore
<1>6. jobMade' \in BOOLEAN /\ touched' \in BOOLEAN
  BY <1>1, AccessBefore
<1>7. ~touched => Calm(obj', seen, account, known, uids') /\ Provided(pc, obj', account, known, caRead)
  BY <1>2, <1>3
<1> QED BY <1>1, <1>2, <1>3, <1>4, <1>5, <1>6, <1>7, AccessBefore, AccessAfter

\* What this reconcile creates.
LEMMA OurObject ==
  ASSUME AccessInv, uids < MaxUid, NEW val \in Nat
  PROVE  /\ RA!ours(val) \in Object /\ RA!ours(val) # RA!None /\ RA!ours(val).uid = uids + 1
         /\ RA!ours(val).uid # 0 /\ RA!ours(val).says = "right" /\ RA!ours(val).val = val
         /\ \A o \in RA!Objects : seen[o].uid # uids + 1 /\ SameOwner(RA!ours(val), seen[o])
<1>1. uids \in Nat /\ uids + 1 \in 0 .. MaxUid /\ uids + 1 # 0
  BY AccessBefore, AccessAssumption
<1>2. /\ RA!ours(val) \in Object /\ RA!ours(val).uid = uids + 1
      /\ RA!ours(val).says = "right" /\ RA!ours(val).val = val
  BY <1>1 DEF RA!ours, Object, RA!Managed
<1>3. \A o \in RA!Objects : seen[o].uid # uids + 1
  <2> TAKE o \in RA!Objects
  <2>1. seen[o].uid \in Nat /\ seen[o].uid <= uids
    BY AccessBefore, AccessAssumption DEF Numbered, Object
  <2> QED BY <1>1, <2>1
<1> QED BY <1>1, <1>2, <1>3, NoObject DEF SameOwner

\* One object is replaced; what was true of the others remains true.
LEMMA CalmAfter ==
  ASSUME AccessInv, ~touched, NEW o \in RA!Objects, NEW new \in Object, NEW b, NEW n \in 2 .. MaxUid,
         uids <= n, \A p \in RA!Objects : b[p] = IF p = o THEN new ELSE obj[p],
         o \in {"binding", "caller"} => BindingCalm(new, seen[o]),
         o = "caller" => new.says # "foreign",
         o = "writer" => WriterCalm(new, seen["writer"], account, n),
         o = "cm" => new.says \in {"none", "right"}
  PROVE  Calm(b, seen, account, known, n)
<1> USE ObjectNames
<1>1. Calm(obj, seen, account, known, uids) /\ uids \in Nat /\ n \in Nat
  BY AccessBefore, AccessAssumption
<1>2. BindingCalm(b["binding"], seen["binding"])
  BY <1>1 DEF Calm
<1>3. BindingCalm(b["caller"], seen["caller"]) /\ b["caller"].says # "foreign" /\ seen["caller"].says # "foreign"
  BY <1>1 DEF Calm
<1>4. WriterCalm(b["writer"], seen["writer"], account, n)
  <2>1. CASE o = "writer"
    BY <2>1
  <2>2. CASE o # "writer"
    <3>1. WriterCalm(obj["writer"], seen["writer"], account, uids) /\ b["writer"] = obj["writer"]
      BY <1>1, <2>2 DEF Calm
    <3>2. obj["writer"].val \in Nat /\ seen["writer"].val \in Nat
      BY AccessBefore DEF Object
    <3> QED BY <1>1, <3>1, <3>2 DEF WriterCalm
  <2> QED BY <2>1, <2>2
<1>5. b["cm"].says \in {"none", "right"} /\ (known # 0 => known = account)
  BY <1>1 DEF Calm
<1> QED BY <1>2, <1>3, <1>4, <1>5 DEF Calm

\* The places, listed.
LEMMA AccessPlace ==
  /\ {"build", "account", "failed", "binding", "rebind", "caller", "recall", "writer", "writer2", "secrets",
      "ca", "cm", "job", "watch"} \subseteq AccessPlaces
  BY DEF AccessPlaces, AfterAccount

\* What Provided says, place by place.
LEMMA ProvidedAt ==
  ASSUME NEW b, NEW acc, NEW kn, NEW cr
  PROVE  /\ \A pc \in {"binding", "rebind"} : Provided(pc, b, acc, kn, cr) <=> acc # 0
         /\ \A pc \in {"caller", "recall"} :
              Provided(pc, b, acc, kn, cr) <=> acc # 0 /\ b["binding"].says = "right"
         /\ \A pc \in {"writer", "writer2", "watch"} :
              Provided(pc, b, acc, kn, cr) <=>
                acc # 0 /\ b["binding"].says = "right" /\ b["caller"].says = "right"
         /\ \A pc \in {"secrets", "ca", "cm"} :
              Provided(pc, b, acc, kn, cr) <=>
                /\ acc # 0 /\ b["binding"].says = "right" /\ b["caller"].says = "right"
                /\ kn # 0 => b["writer"].says = "right" /\ b["writer"].val = acc
         /\ Provided("job", b, acc, kn, cr) <=>
              /\ acc # 0 /\ b["binding"].says = "right" /\ b["caller"].says = "right"
              /\ kn # 0 => b["writer"].says = "right" /\ b["writer"].val = acc
              /\ b["cm"].says = "right" /\ b["cm"].val = cr
         /\ Provided("build", b, acc, kn, cr) /\ Provided("account", b, acc, kn, cr)
         /\ Provided("failed", b, acc, kn, cr)
  BY DEF Provided, AfterAccount, AfterBinding, AfterCaller, AfterWriter

\* An object that is there is no None.
LEMMA SeenObject ==
  ASSUME AccessInv, NEW o \in RA!Objects
  PROVE  /\ seen[o] \in Object /\ obj[o] \in Object
         /\ seen[o].says = "none" => seen[o] = RA!None
         /\ obj[o].says = "none" => obj[o] = RA!None
         /\ seen[o] # RA!None => seen[o].uid # 0 /\ seen[o].says # "none"
         /\ obj[o] # RA!None => obj[o].uid # 0 /\ obj[o].says # "none"
         /\ obj[o].uid = seen[o].uid => (obj[o].says = "foreign" <=> seen[o].says = "foreign")
         /\ seen[o].says \in {"none", "right", "wrongRole", "wrongSubject", "foreign", "unlabelled"}
         /\ obj[o].says \in {"none", "right", "wrongRole", "wrongSubject", "foreign", "unlabelled"}
  BY AccessBefore, NoObject DEF Numbered, SameOwner, Object, RA!Managed, RA!Unmanaged

\* deleteSeen takes what the cache shows, or nothing.
LEMMA SeenDeleted ==
  ASSUME AccessInv, NEW o \in {"binding", "caller", "writer"}, NEW pc \in AccessPlaces, RA!deleteSeen(o, pc),
         seen[o].says \in RA!Managed,
         seen[o].says = "right" => o = "writer",
         jobMade => pc \in {"writer", "writer2", "watch"},
         o = "writer" /\ ~touched => ~(account # 0 /\ seen[o].says = "right" /\ seen[o].val = account),
         ~touched => Provided(at, obj, account, known, caRead),
         pc \in {"rebind", "recall", "writer2"},
         pc = "rebind" => o = "binding" /\ at = "binding",
         pc = "recall" => o = "caller" /\ at = "caller",
         pc = "writer2" => o = "writer" /\ at = "writer"
  PROVE  AccessInv'
<1>o. o \in RA!Objects
  BY ObjectNames
<1>s. seen[o] # RA!None /\ seen[o].uid # 0
  BY <1>o, SeenObject, NoObject DEF RA!Managed
<1>1. CASE RA!leave(RA!restart)
  BY <1>1, Restarted
<1>2. CASE RA!write(o, RA!None, pc)
  <2>1. SameOwner(RA!None, seen[o])
    BY <1>s, NoObject DEF SameOwner
  <2>2. ASSUME ~touched, NEW b, NEW n \in 2 .. MaxUid, uids <= n,
               \A p \in RA!Objects : b[p] = IF p = o THEN RA!None ELSE obj[p]
        PROVE  Calm(b, seen, account, known, n) /\ Provided(pc, b, account, known, caRead)
    <3>1. o \in {"binding", "caller"} => BindingCalm(RA!None, seen[o])
      <4>1. ASSUME o \in {"binding", "caller"} PROVE seen[o].says = "wrongRole"
        BY <2>2, <4>1, AccessBefore DEF Calm, BindingCalm, RA!Managed
      <4> QED BY <1>s, <4>1, NoObject DEF BindingCalm
    <3>2. o = "writer" => WriterCalm(RA!None, seen["writer"], account, n)
      <4>1. ASSUME o = "writer" PROVE WriterCalm(RA!None, seen["writer"], account, n)
        <5>1. WriterCalm(obj["writer"], seen["writer"], account, uids)
          BY <2>2, AccessBefore DEF Calm
        <5>2. seen["writer"].val \in Nat /\ seen["writer"].val <= n
          BY <1>o, <2>2, <4>1, <5>1, SeenObject, AccessBefore, AccessAssumption DEF WriterCalm, Object
        <5>3. 0 <= n
          BY <2>2, AccessAssumption
        <5> QED BY <1>s, <2>2, <4>1, <5>1, <5>2, <5>3, NoObject DEF WriterCalm
      <4> QED BY <4>1
    <3>3. Calm(b, seen, account, known, n)
      BY <1>o, <2>2, <3>1, <3>2, NoObject, CalmAfter
    <3>4. Provided(pc, b, account, known, caRead)
      BY <2>2, ProvidedAt, ObjectNames
    <3> QED BY <3>3, <3>4
  <2> QED BY <1>2, <1>o, <2>1, <2>2, NoObject, Written
<1> QED BY <1>1, <1>2 DEF RA!deleteSeen

\* updateSeen puts right what an outsider changed.
LEMMA SeenUpdated ==
  ASSUME AccessInv, NEW o \in {"binding", "caller", "writer"}, NEW pc \in AccessPlaces, RA!updateSeen(o, pc),
         seen[o].says = "wrongSubject", jobMade => pc \in {"writer", "writer2", "watch"}
  PROVE  AccessInv'
<1>o. o \in RA!Objects
  BY ObjectNames
<1>t. touched
  BY AccessBefore DEF Calm, BindingCalm, WriterCalm
<1>1. CASE RA!leave(RA!restart)
  BY <1>1, Restarted
<1>2. CASE obj[o] = seen[o] /\ RA!write(o, [obj[o] EXCEPT !.says = "right"], pc)
  <2> DEFINE new == [obj[o] EXCEPT !.says = "right"]
  <2>1. new \in Object /\ new.uid = obj[o].uid /\ new.says = "right"
    BY <1>o, SeenObject DEF Object, RA!Managed
  <2>2. obj[o].uid # 0 /\ new # RA!None
    BY <1>o, <1>2, <2>1, SeenObject, NoObject
  <2>3. SameOwner(new, seen[o])
    BY <2>1 DEF SameOwner
  <2> QED BY <1>2, <1>o, <1>t, <2>1, <2>2, <2>3, Written
<1> QED BY <1>1, <1>2 DEF RA!updateSeen

\* create, of a ClusterRoleBinding the cache does not show.
LEMMA BindingCreated ==
  ASSUME AccessInv, NEW o \in {"binding", "caller"}, NEW pc \in {"caller", "writer"},
         pc = "caller" => o = "binding" /\ at \in {"binding", "rebind"},
         pc = "writer" => o = "caller" /\ at \in {"caller", "recall"},
         seen[o].says # "right", obj[o] = RA!None, uids < MaxUid, RA!write(o, RA!ours(0), pc)
  PROVE  AccessInv'
<1>o. o \in RA!Objects /\ pc \in AccessPlaces /\ ~jobMade
  BY ObjectNames, AccessPlace, AccessBefore
<1>n. /\ RA!ours(0) \in Object /\ RA!ours(0) # RA!None /\ RA!ours(0).uid = uids + 1
      /\ RA!ours(0).uid # 0 /\ RA!ours(0).says = "right"
      /\ seen[o].uid # uids + 1 /\ SameOwner(RA!ours(0), seen[o])
  BY <1>o, OurObject
<1>2. ASSUME ~touched, NEW b, NEW n \in 2 .. MaxUid, uids <= n,
             \A p \in RA!Objects : b[p] = IF p = o THEN RA!ours(0) ELSE obj[p]
      PROVE  Calm(b, seen, account, known, n) /\ Provided(pc, b, account, known, caRead)
  <2>1. seen[o].says \notin {"wrongSubject", "unlabelled"}
    BY <1>2, AccessBefore DEF Calm, BindingCalm
  <2>2. BindingCalm(RA!ours(0), seen[o])
    BY <1>n, <2>1 DEF BindingCalm
  <2>3. Calm(b, seen, account, known, n)
    BY <1>o, <1>n, <1>2, <2>2, CalmAfter
  <2>4. Provided(at, obj, account, known, caRead)
    BY <1>2, AccessBefore
  <2>5. Provided(pc, b, account, known, caRead)
    BY <1>n, <1>2, <2>4, ProvidedAt, ObjectNames
  <2> QED BY <2>3, <2>5
<1> QED BY <1>o, <1>n, <1>2, Written

\* ensureBinding creates, keeps or replaces the runner's binding.
LEMMA BindingEnsured ==
  ASSUME AccessInv, RA!EnsureBinding \/ RA!Rebind
  PROVE  AccessInv'
<1>o. "binding" \in RA!Objects /\ AccessPlaces # {} /\ "caller" \in AccessPlaces /\ "rebind" \in AccessPlaces
  BY ObjectNames, AccessPlace
<1>j. ~jobMade /\ (~touched => Provided(at, obj, account, known, caRead) /\ Calm(obj, seen, account, known, uids))
  BY AccessBefore DEF RA!EnsureBinding, RA!Rebind
<1>1. CASE RA!EnsureBinding
  <2>a. at = "binding"
    BY <1>1 DEF RA!EnsureBinding
  <2>c. ASSUME seen["binding"].says \in {"none", "right"}, RA!leave("caller"), obj["binding"] # RA!None
        PROVE AccessInv'
    <3>1. ~touched => obj["binding"].says = "right"
      BY <1>j, <1>o, <2>c, SeenObject, NoObject DEF Calm, BindingCalm
    <3>2. ~touched => Provided("caller", obj, account, known, caRead)
      BY <1>j, <2>a, <3>1, ProvidedAt
    <3> QED BY <1>j, <1>o, <2>c, <3>2, Left
  <2>1. CASE seen["binding"] = RA!None
    <3>1. RA!create("binding", 0, "caller", "caller")
      BY <1>1, <2>1, NoObject DEF RA!EnsureBinding, RA!Unmanaged
    <3>2. CASE obj["binding"] = RA!None
      BY <2>1, <2>a, <3>1, <3>2, BindingCreated, NoObject DEF RA!create
    <3>3. CASE obj["binding"] # RA!None
      BY <2>1, <2>c, <3>1, <3>3, NoObject DEF RA!create
    <3> QED BY <3>2, <3>3
  <2>2. CASE seen["binding"] # RA!None /\ seen["binding"].says \in RA!Unmanaged
    <3>1. RA!leave("failed")
      BY <1>1, <2>2 DEF RA!EnsureBinding, RA!Unmanaged
    <3> QED BY <1>j, <3>1, Restarted
  <2>3. CASE seen["binding"] # RA!None /\ seen["binding"].says = "wrongRole"
    <3>1. RA!deleteSeen("binding", "rebind")
      BY <1>1, <2>3 DEF RA!EnsureBinding
    <3> QED BY <1>j, <1>o, <2>3, <2>a, <3>1, SeenDeleted DEF RA!Managed
  <2>4. CASE seen["binding"] # RA!None /\ seen["binding"].says = "wrongSubject"
    <3>1. RA!updateSeen("binding", "caller")
      BY <1>1, <2>4 DEF RA!EnsureBinding
    <3> QED BY <1>j, <1>o, <2>4, <3>1, SeenUpdated
  <2>5. CASE seen["binding"] # RA!None /\ seen["binding"].says = "right"
    <3>1. RA!leave("caller")
      BY <1>1, <2>5 DEF RA!EnsureBinding, RA!Unmanaged
    <3>2. ~touched => obj["binding"].says = "right"
      BY <1>j, <2>5 DEF Calm, BindingCalm
    <3>3. ~touched => Provided("caller", obj, account, known, caRead)
      BY <1>j, <2>a, <3>2, ProvidedAt
    <3> QED BY <1>j, <1>o, <3>1, <3>3, Left
  <2> QED BY <1>o, <2>1, <2>2, <2>3, <2>4, <2>5, SeenObject DEF RA!Unmanaged
<1>2. CASE RA!Rebind
  <2>a. at = "rebind" /\ RA!create("binding", 0, "caller",
          IF seen.binding.says \in {"right", "wrongSubject"} THEN "caller" ELSE "build")
    BY <1>2 DEF RA!Rebind
  <2>1. CASE obj["binding"] = RA!None
    <3>1. uids < MaxUid /\ RA!write("binding", RA!ours(0), "caller")
      BY <2>a, <2>1 DEF RA!create
    <3>2. CASE seen["binding"].says # "right"
      BY <2>1, <2>a, <3>1, <3>2, BindingCreated
    <3>3. CASE seen["binding"].says = "right"
      <4>1. touched
        BY <1>j, <2>1, <3>3, NoObject DEF Calm, BindingCalm
      <4>2. /\ RA!ours(0) \in Object /\ RA!ours(0) # RA!None /\ RA!ours(0).uid = uids + 1
            /\ RA!ours(0).uid # 0 /\ RA!ours(0).says = "right" /\ SameOwner(RA!ours(0), seen["binding"])
        BY <1>o, <3>1, OurObject
      <4> QED BY <1>j, <1>o, <3>1, <4>1, <4>2, Written
    <3> QED BY <3>2, <3>3
  <2>2. CASE obj["binding"] # RA!None /\ seen["binding"].says \in {"right", "wrongSubject"}
    <3>1. RA!leave("caller")
      BY <2>a, <2>2 DEF RA!create
    <3>2. ~touched => obj["binding"].says = "right"
      BY <1>j, <2>2 DEF Calm, BindingCalm
    <3>3. ~touched => Provided("caller", obj, account, known, caRead)
      BY <1>j, <2>a, <3>2, ProvidedAt
    <3> QED BY <1>j, <1>o, <3>1, <3>3, Left
  <2>3. CASE obj["binding"] # RA!None /\ seen["binding"].says \notin {"right", "wrongSubject"}
    <3>1. RA!leave("build")
      BY <2>a, <2>3 DEF RA!create
    <3> QED BY <1>j, <3>1, Restarted
  <2> QED BY <2>1, <2>2, <2>3
<1> QED BY <1>1, <1>2

\* The same of the caller's binding.
LEMMA CallerEnsured ==
  ASSUME AccessInv, RA!EnsureCaller \/ RA!Recall
  PROVE  AccessInv'
<1>o. "caller" \in RA!Objects /\ "writer" \in AccessPlaces /\ "recall" \in AccessPlaces
  BY ObjectNames, AccessPlace
<1>j. ~jobMade /\ (~touched => Provided(at, obj, account, known, caRead) /\ Calm(obj, seen, account, known, uids))
  BY AccessBefore DEF RA!EnsureCaller, RA!Recall
<1>1. CASE RA!EnsureCaller
  <2>a. at = "caller"
    BY <1>1 DEF RA!EnsureCaller
  <2>c. ASSUME RA!leave("writer"), ~touched => obj["caller"].says = "right" PROVE AccessInv'
    <3>2. ~touched => Provided("writer", obj, account, known, caRead)
      BY <1>j, <2>a, <2>c, ProvidedAt
    <3> QED BY <1>j, <1>o, <2>c, <3>2, Left
  <2>1. CASE seen["caller"] = RA!None
    <3>1. RA!create("caller", 0, "writer", "writer")
      BY <1>1, <2>1, NoObject DEF RA!EnsureCaller
    <3>2. CASE obj["caller"] = RA!None
      BY <2>1, <2>a, <3>1, <3>2, BindingCreated, NoObject DEF RA!create
    <3>3. CASE obj["caller"] # RA!None
      <4>1. ~touched => obj["caller"].says = "right"
        BY <1>j, <1>o, <2>1, <3>3, SeenObject, NoObject DEF Calm, BindingCalm
      <4> QED BY <2>c, <3>1, <3>3, <4>1 DEF RA!create
    <3> QED BY <3>2, <3>3
  <2>3. CASE seen["caller"] # RA!None /\ seen["caller"].says = "wrongRole"
    <3>1. RA!deleteSeen("caller", "recall")
      BY <1>1, <2>3 DEF RA!EnsureCaller
    <3> QED BY <1>j, <1>o, <2>3, <2>a, <3>1, SeenDeleted DEF RA!Managed
  <2>4. CASE seen["caller"] # RA!None /\ seen["caller"].says = "wrongSubject"
    <3>1. RA!updateSeen("caller", "writer")
      BY <1>1, <2>4 DEF RA!EnsureCaller
    <3> QED BY <1>j, <1>o, <2>4, <3>1, SeenUpdated
  <2>5. CASE seen["caller"] # RA!None /\ seen["caller"].says \in {"right"} \cup RA!Unmanaged
    <3>1. RA!leave("writer")
      BY <1>1, <2>5 DEF RA!EnsureCaller, RA!Unmanaged
    <3>2. ~touched => obj["caller"].says = "right"
      BY <1>j, <2>5 DEF Calm, BindingCalm, RA!Unmanaged
    <3> QED BY <2>c, <3>1, <3>2
  <2> QED BY <1>o, <2>1, <2>3, <2>4, <2>5, SeenObject DEF RA!Unmanaged
<1>2. CASE RA!Recall
  <2>a. at = "recall" /\ RA!create("caller", 0, "writer", "build")
    BY <1>2 DEF RA!Recall
  <2>1. CASE obj["caller"] = RA!None
    <3>1. uids < MaxUid /\ RA!write("caller", RA!ours(0), "writer")
      BY <2>a, <2>1 DEF RA!create
    <3>2. CASE seen["caller"].says # "right"
      BY <2>1, <2>a, <3>1, <3>2, BindingCreated
    <3>3. CASE seen["caller"].says = "right"
      <4>1. touched
        BY <1>j, <2>1, <3>3, NoObject DEF Calm, BindingCalm
      <4>2. /\ RA!ours(0) \in Object /\ RA!ours(0) # RA!None /\ RA!ours(0).uid = uids + 1
            /\ RA!ours(0).uid # 0 /\ RA!ours(0).says = "right" /\ SameOwner(RA!ours(0), seen["caller"])
        BY <1>o, <3>1, OurObject
      <4> QED BY <1>j, <1>o, <3>1, <4>1, <4>2, Written
    <3> QED BY <3>2, <3>3
  <2>2. CASE obj["caller"] # RA!None
    <3>1. RA!leave("build")
      BY <2>a, <2>2 DEF RA!create
    <3> QED BY <1>j, <3>1, Restarted
  <2> QED BY <2>1, <2>2
<1> QED BY <1>1, <1>2

\* The checkpoint writer's binding is for the account that is there.
LEMMA WriterEnsured ==
  ASSUME AccessInv, RA!EnsureWriter
  PROVE  AccessInv'
<1>o. /\ "writer" \in RA!Objects
      /\ {"writer2", "watch", "secrets"} \subseteq AccessPlaces
  BY ObjectNames, AccessPlace
<1>j. /\ at = "writer"
      /\ ~touched => Provided(at, obj, account, known, caRead) /\ Calm(obj, seen, account, known, uids)
  BY AccessBefore DEF RA!EnsureWriter
<1>p. ~touched => /\ account # 0 /\ obj["binding"].says = "right" /\ obj["caller"].says = "right"
                  /\ WriterCalm(obj["writer"], seen["writer"], account, uids) /\ (known # 0 => known = account)
  BY <1>j, ProvidedAt DEF Calm
<1>a. RA!afterWriter \in AccessPlaces /\ (jobMade => RA!afterWriter = "watch")
      /\ (~jobMade => RA!afterWriter = "secrets")
  BY <1>o DEF RA!afterWriter
<1> DEFINE mine == seen["writer"].says # "wrongRole" /\ (known = 0 \/ seen["writer"].val = known)
<1>1. CASE seen["writer"] = RA!None
  <2>1. RA!leave("writer2")
    BY <1>1, NoObject DEF RA!EnsureWriter, RA!Unmanaged
  <2>2. ~touched => Provided("writer2", obj, account, known, caRead)
    BY <1>p, ProvidedAt
  <2> QED BY <1>o, <2>1, <2>2, Left
<1>2. CASE seen["writer"] # RA!None /\ seen["writer"].says \in RA!Unmanaged
  <2>0. RA!leave(IF jobMade THEN "watch" ELSE "failed")
    BY <1>2 DEF RA!EnsureWriter, RA!Unmanaged
  <2>1. CASE jobMade
    <3>1. ~touched => Provided("watch", obj, account, known, caRead)
      BY <1>p, ProvidedAt
    <3> QED BY <1>o, <2>0, <2>1, <3>1, Left
  <2>2. CASE ~jobMade
    BY <2>0, <2>2, Restarted
  <2> QED BY <2>1, <2>2
<1>3. CASE seen["writer"] # RA!None /\ seen["writer"].says = "right" /\ mine
  <2>1. RA!leave(RA!afterWriter)
    BY <1>3 DEF RA!EnsureWriter
  <2>2. ~touched /\ known # 0 => obj["writer"].says = "right" /\ obj["writer"].val = account
    BY <1>3, <1>p DEF WriterCalm
  <2>3. ~touched => Provided(RA!afterWriter, obj, account, known, caRead)
    BY <1>a, <1>p, <2>2, ProvidedAt
  <2> QED BY <1>a, <2>1, <2>3, Left
<1>4. CASE seen["writer"] # RA!None /\ seen["writer"].says = "wrongSubject" /\ mine
  <2>1. RA!updateSeen("writer", RA!afterWriter)
    BY <1>4 DEF RA!EnsureWriter
  <2> QED BY <1>a, <1>4, <2>1, SeenUpdated
<1>5. CASE seen["writer"] # RA!None /\ seen["writer"].says \notin RA!Unmanaged /\ ~mine
  <2>1. RA!deleteSeen("writer", "writer2")
    BY <1>5 DEF RA!EnsureWriter
  <2>2. seen["writer"].says \in RA!Managed
    BY <1>o, <1>5, SeenObject DEF RA!Managed, RA!Unmanaged
  <2>3. ~touched => ~(account # 0 /\ seen["writer"].says = "right" /\ seen["writer"].val = account)
    BY <1>5, <1>p
  <2> QED BY <1>o, <1>j, <2>1, <2>2, <2>3, SeenDeleted
<1> QED BY <1>o, <1>1, <1>2, <1>3, <1>4, <1>5, SeenObject DEF RA!Managed, RA!Unmanaged

\* Its creation.
LEMMA WriterCreated ==
  ASSUME AccessInv, RA!CreateWriter
  PROVE  AccessInv'
<1> DEFINE owner == IF known = 0 THEN account ELSE known
<1>o. "writer" \in RA!Objects /\ {"watch", "secrets"} \subseteq AccessPlaces
  BY ObjectNames, AccessPlace
<1>j. /\ at = "writer2"
      /\ ~touched => Provided(at, obj, account, known, caRead) /\ Calm(obj, seen, account, known, uids)
  BY AccessBefore DEF RA!CreateWriter
<1>p. ~touched => /\ account # 0 /\ obj["binding"].says = "right" /\ obj["caller"].says = "right"
                  /\ WriterCalm(obj["writer"], seen["writer"], account, uids) /\ (known # 0 => known = account)
  BY <1>j, ProvidedAt DEF Calm
<1>a. RA!afterWriter \in AccessPlaces /\ (jobMade => RA!afterWriter = "watch")
      /\ (~jobMade => RA!afterWriter = "secrets")
  BY <1>o DEF RA!afterWriter
<1>w. owner \in Nat /\ owner <= uids /\ uids \in Nat
  BY AccessBefore
<1>1. CASE RA!leave(RA!restart)
  BY <1>1, Restarted
<1>2. CASE obj["writer"] = RA!None /\ uids < MaxUid /\ RA!write("writer", RA!ours(owner), RA!afterWriter)
  <2>n. /\ RA!ours(owner) \in Object /\ RA!ours(owner) # RA!None /\ RA!ours(owner).uid = uids + 1
        /\ RA!ours(owner).uid # 0 /\ RA!ours(owner).says = "right" /\ RA!ours(owner).val = owner
        /\ seen["writer"].uid # uids + 1 /\ SameOwner(RA!ours(owner), seen["writer"])
    BY <1>2, <1>o, <1>w, OurObject
  <2>2. ASSUME ~touched, NEW b, NEW n \in 2 .. MaxUid, uids <= n,
               \A p \in RA!Objects : b[p] = IF p = "writer" THEN RA!ours(owner) ELSE obj[p]
        PROVE  Calm(b, seen, account, known, n) /\ Provided(RA!afterWriter, b, account, known, caRead)
    <3>1. owner = account
      BY <1>p, <2>2
    <3>2. seen["writer"].val \in Nat /\ n \in Nat
      BY <1>o, SeenObject, AccessAssumption DEF Object
    <3>3. WriterCalm(RA!ours(owner), seen["writer"], account, n)
      BY <1>w, <1>p, <2>n, <2>2, <3>1, <3>2 DEF WriterCalm
    <3>4. Calm(b, seen, account, known, n)
      BY <1>o, <2>n, <2>2, <3>3, CalmAfter
    <3>5. b["binding"] = obj["binding"] /\ b["caller"] = obj["caller"] /\ b["writer"] = RA!ours(owner)
      BY <2>2, ObjectNames
    <3>6. Provided(RA!afterWriter, b, account, known, caRead)
      BY <1>a, <1>p, <2>n, <2>2, <3>1, <3>5, ProvidedAt
    <3> QED BY <3>4, <3>6
  <2> QED BY <1>2, <1>a, <1>o, <2>n, <2>2, Written
<1> QED BY <1>1, <1>2 DEF RA!CreateWriter, RA!create

\* The ServiceAccount is created, or known already.
LEMMA AccountEnsured ==
  ASSUME AccessInv, RA!EnsureAccount
  PROVE  AccessInv'
<1>b. /\ uids \in Nat /\ uids >= 2 /\ uids <= MaxUid /\ account \in 0 .. uids /\ changes \in 0 .. MaxChanges
      /\ ~jobMade /\ at = "account" /\ at' = "binding"
      /\ UNCHANGED <<obj, seen, caVersion, caRead, jobMade, touched>>
      /\ ~touched => Calm(obj, seen, account, known, uids)
  BY AccessBefore, AccessAssumption DEF RA!EnsureAccount
<1>1. /\ uids' \in 2 .. MaxUid /\ uids <= uids' /\ account' \in 0 .. uids' /\ account' # 0
      /\ known' \in 0 .. uids' /\ (known' # 0 => known' = account') /\ changes' \in 0 .. MaxChanges
      /\ account' = account \/ account' = uids + 1
  BY <1>b, AccessAssumption DEF RA!EnsureAccount
<1>2. ASSUME NEW o \in RA!Objects
      PROVE  Numbered(obj[o], uids') /\ Numbered(seen[o], uids') /\ SameOwner(obj[o], seen[o])
  <2>1. obj[o].uid \in Nat /\ seen[o].uid \in Nat /\ Numbered(obj[o], uids) /\ Numbered(seen[o], uids)
        /\ SameOwner(obj[o], seen[o])
    BY AccessBefore, AccessAssumption DEF Numbered, Object
  <2> QED BY <1>b, <1>1, <2>1 DEF Numbered
<1>3. ASSUME ~touched
      PROVE  Calm(obj, seen, account', known', uids') /\ Provided("binding", obj, account', known', caRead)
  <2>1. WriterCalm(obj["writer"], seen["writer"], account, uids)
    BY <1>b, <1>3 DEF Calm
  <2>2. obj["writer"].val \in Nat /\ seen["writer"].val \in Nat
    BY AccessBefore, ObjectNames DEF Object
  <2>3. WriterCalm(obj["writer"], seen["writer"], account', uids')
    BY <1>b, <1>1, <2>1, <2>2 DEF WriterCalm
  <2>4. Calm(obj, seen, account', known', uids')
    BY <1>b, <1>1, <1>3, <2>3 DEF Calm
  <2>5. Provided("binding", obj, account', known', caRead)
    BY <1>1, ProvidedAt
  <2> QED BY <2>4, <2>5
<1>4. jobMade' \in BOOLEAN /\ touched' \in BOOLEAN
  BY <1>b, AccessBefore
<1>5. at' \in AccessPlaces
  BY <1>b, AccessPlace
<1> QED BY <1>b, <1>1, <1>2, <1>3, <1>4, <1>5, AccessBefore, AccessAfter

\* The CA is read and published for the runner.
LEMMA CAEnsured ==
  ASSUME AccessInv, RA!ReadCA \/ RA!PublishCA
  PROVE  AccessInv'
<1>o. "cm" \in RA!Objects /\ "cm" \in AccessPlaces /\ "job" \in AccessPlaces
  BY ObjectNames, AccessPlace
<1>j. ~jobMade /\ caRead \in Nat /\ caVersion \in Nat /\ at \in {"ca", "cm"}
      /\ (~touched => Provided(at, obj, account, known, caRead) /\ Calm(obj, seen, account, known, uids))
  BY AccessBefore DEF RA!ReadCA, RA!PublishCA
<1>1. CASE RA!ReadCA
  <2>1. /\ at = "ca" /\ at' = "cm" /\ caRead' = caVersion
        /\ UNCHANGED <<obj, seen, account, caVersion, known, jobMade, uids, changes, touched>>
    BY <1>1 DEF RA!ReadCA, RA!goto
  <2>2. ~touched => Provided("cm", obj, account, known, caRead')
    BY <1>j, <2>1, ProvidedAt
  <2>3. jobMade' \in BOOLEAN /\ touched' \in BOOLEAN
    BY <2>1, AccessBefore
  <2> QED BY <1>j, <1>o, <2>1, <2>2, <2>3, AccessBefore, AccessAfter
<1>2. CASE RA!PublishCA
  <2>a. at = "cm"
    BY <1>2 DEF RA!PublishCA
  <2>w. ASSUME NEW new \in Object, new.says = "right" \/ touched, new.val = caRead, new # RA!None, new.uid # 0,
               new.says # "none",
               \/ new.uid = uids + 1 /\ uids < MaxUid
               \/ new.uid = obj["cm"].uid,
               SameOwner(new, seen["cm"]), RA!write("cm", new, "job")
        PROVE  AccessInv'
    <3>1. ASSUME ~touched, NEW b, NEW n \in 2 .. MaxUid, uids <= n,
                 \A p \in RA!Objects : b[p] = IF p = "cm" THEN new ELSE obj[p]
          PROVE  Calm(b, seen, account, known, n) /\ Provided("job", b, account, known, caRead)
      <4>1. Calm(b, seen, account, known, n)
        BY <1>o, <2>w, <3>1, CalmAfter
      <4>2. b["binding"] = obj["binding"] /\ b["caller"] = obj["caller"] /\ b["writer"] = obj["writer"] /\ b["cm"] = new
        BY <3>1, ObjectNames
      <4>3. Provided("job", b, account, known, caRead)
        BY <1>j, <2>a, <2>w, <3>1, <4>2, ProvidedAt
      <4> QED BY <4>1, <4>3
    <3> QED BY <1>o, <1>j, <2>w, <3>1, Written
  <2>1. CASE obj["cm"] = RA!None
    <3>1. uids < MaxUid /\ RA!write("cm", RA!ours(caRead), "job")
      BY <1>2, <2>1, NoObject DEF RA!PublishCA, RA!create, RA!Managed, RA!Unmanaged
    <3>2. /\ RA!ours(caRead) \in Object /\ RA!ours(caRead) # RA!None /\ RA!ours(caRead).uid = uids + 1
          /\ RA!ours(caRead).uid # 0 /\ RA!ours(caRead).says = "right" /\ RA!ours(caRead).val = caRead
          /\ SameOwner(RA!ours(caRead), seen["cm"])
      BY <1>o, <1>j, <3>1, OurObject
    <3> QED BY <2>w, <3>1, <3>2
  <2>2. CASE obj["cm"] # RA!None /\ obj["cm"].says \in RA!Unmanaged
    <3>1. RA!leave("failed")
      BY <1>2, <2>2 DEF RA!PublishCA, RA!Managed, RA!Unmanaged
    <3> QED BY <1>j, <3>1, Restarted
  <2>3. CASE obj["cm"] # RA!None /\ obj["cm"].says \notin RA!Unmanaged /\ obj["cm"].val = caRead
    <3>1. RA!leave("job")
      BY <1>2, <2>3 DEF RA!PublishCA
    <3>2. ~touched => obj["cm"].says = "right"
      BY <1>j, <1>o, <2>3, SeenObject DEF Calm
    <3>3. ~touched => Provided("job", obj, account, known, caRead)
      BY <1>j, <2>a, <2>3, <3>2, ProvidedAt
    <3> QED BY <1>o, <1>j, <3>1, <3>3, Left
  <2>4. CASE obj["cm"] # RA!None /\ obj["cm"].says \notin RA!Unmanaged /\ obj["cm"].val # caRead
    <3> DEFINE new == [obj["cm"] EXCEPT !.val = caRead]
    <3>1. RA!write("cm", new, "job")
      BY <1>2, <2>4 DEF RA!PublishCA
    <3>2. new \in Object /\ new.uid = obj["cm"].uid /\ new.says = obj["cm"].says /\ new.val = caRead
      BY <1>o, <1>j, SeenObject DEF Object
    <3>3. new.uid # 0 /\ new.says # "none" /\ new # RA!None
      BY <1>o, <2>4, <3>2, SeenObject, NoObject
    <3>4. SameOwner(new, seen["cm"])
      BY <1>o, <3>2, SeenObject DEF SameOwner
    <3>5. new.says = "right" \/ touched
      BY <1>j, <3>2, <3>3 DEF Calm
    <3> HIDE DEF new
    <3> QED BY <2>w, <3>1, <3>2, <3>3, <3>4, <3>5
  <2> QED BY <2>1, <2>2, <2>3, <2>4
<1> QED BY <1>1, <1>2

\* Steps that write nothing a runner needs.
LEMMA PlaceChanged ==
  ASSUME AccessInv,
         \/ RA!Build \/ RA!EnsureSecrets \/ RA!CreateJob \/ RA!Watch \/ RA!Interrupted \/ RA!RotateCA
         \/ UNCHANGED RA!accessVars
  PROVE  AccessInv'
<1>j. ~touched => Provided(at, obj, account, known, caRead) /\ Calm(obj, seen, account, known, uids)
  BY AccessBefore
<1>1. CASE RA!Build
  <2>1. ~jobMade
    BY <1>1, AccessBefore DEF RA!Build
  <2>2. CASE RA!leave("account")
    BY <2>1, <2>2, Left, ProvidedAt, AccessPlace
  <2>3. CASE RA!leave("failed")
    BY <2>1, <2>3, Restarted
  <2> QED BY <1>1, <2>2, <2>3 DEF RA!Build
<1>2. CASE RA!EnsureSecrets
  <2>1. ~jobMade /\ at = "secrets"
    BY <1>2, AccessBefore DEF RA!EnsureSecrets
  <2>2. CASE RA!leave("ca")
    <3>1. ~touched => Provided("ca", obj, account, known, caRead)
      BY <1>j, <2>1, ProvidedAt
    <3> QED BY <2>1, <2>2, <3>1, Left, AccessPlace
  <2>3. CASE RA!leave("failed") \/ RA!leave("build")
    BY <2>1, <2>3, Restarted
  <2> QED BY <1>2, <2>2, <2>3 DEF RA!EnsureSecrets
<1>3. ASSUME NEW pc \in AccessPlaces, at' = pc, UNCHANGED <<obj, seen, account, caRead, uids, touched>>,
             known' = known \/ known' = 0, caVersion' \in Nat, changes' \in 0 .. MaxChanges, jobMade' \in BOOLEAN,
             jobMade' => pc \in {"writer", "writer2", "watch"},
             ~touched => Provided(pc, obj, account, known', caRead)
      PROVE  AccessInv'
  <2>1. touched' \in BOOLEAN
    BY <1>3, AccessBefore
  <2>2. ~touched => Calm(obj, seen, account, known', uids)
    BY <1>j, <1>3 DEF Calm
  <2>3. known' \in 0 .. uids
    BY <1>3, AccessBefore
  <2> QED BY <1>3, <2>1, <2>2, <2>3, AccessBefore, AccessAfter
<1>4. CASE RA!CreateJob
  <2>1. ~touched => Provided("watch", obj, account, known, caRead)
    BY <1>j, <1>4, ProvidedAt DEF RA!CreateJob
  <2> QED BY <1>3, <1>4, <2>1, AccessBefore, AccessPlace DEF RA!CreateJob
<1>5. CASE RA!Watch
  <2>1. ~touched => Provided("writer", obj, account, 0, caRead)
    BY <1>j, <1>5, ProvidedAt DEF RA!Watch
  <2> QED BY <1>3, <1>5, <2>1, AccessBefore, AccessPlace DEF RA!Watch
<1>6. CASE RA!Interrupted
  <2>0. changes' \in 0 .. MaxChanges
    BY <1>6, AccessBefore, AccessAssumption DEF RA!Interrupted
  <2>u. /\ at' = RA!restart /\ known' = 0
        /\ UNCHANGED <<obj, seen, account, caVersion, caRead, jobMade, uids, touched>>
    BY <1>6 DEF RA!Interrupted
  <2>1. CASE jobMade
    <3>1. RA!restart = "watch" /\ at \in {"writer", "writer2", "watch"}
      BY <2>1, AccessBefore DEF RA!restart
    <3>2. ~touched => Provided("watch", obj, account, 0, caRead)
      BY <1>j, <3>1, ProvidedAt
    <3> QED BY <1>3, <2>0, <2>u, <3>1, <3>2, AccessBefore, AccessPlace
  <2>2. CASE ~jobMade
    <3>1. RA!restart = "build"
      BY <2>2 DEF RA!restart
    <3>2. Provided("build", obj, account, 0, caRead)
      BY ProvidedAt
    <3> QED BY <1>3, <2>0, <2>2, <2>u, <3>1, <3>2, AccessBefore, AccessPlace
  <2> QED BY <2>1, <2>2
<1>7. CASE RA!RotateCA
  <2>0. changes' \in 0 .. MaxChanges /\ caVersion' \in Nat
    BY <1>7, AccessBefore, AccessAssumption DEF RA!RotateCA
  <2>1. UNCHANGED <<obj, seen, account, known, caRead, at, jobMade, uids, touched>>
    BY <1>7 DEF RA!RotateCA
  <2> QED BY <1>3, <1>j, <2>0, <2>1, AccessBefore
<1>8. CASE UNCHANGED RA!accessVars
  <2>1. UNCHANGED <<obj, seen, account, caVersion, known, caRead, at, jobMade, uids, changes, touched>>
    BY <1>8 DEF RA!accessVars
  <2> QED BY <1>3, <1>j, <2>1, AccessBefore
<1> QED BY <1>1, <1>2, <1>4, <1>5, <1>6, <1>7, <1>8

\* Somebody outside replaces the account or edits an object.
LEMMA WorldChanged ==
  ASSUME AccessInv, RA!ReplaceAccount \/ \E o \in RA!Objects : RA!Outsider(o)
  PROVE  AccessInv'
<1>b. /\ uids \in Nat /\ uids >= 2 /\ uids < MaxUid /\ account \in 0 .. uids /\ known \in 0 .. uids
      /\ changes \in 0 .. MaxChanges /\ changes' = changes + 1 /\ changes < MaxChanges /\ touched' = TRUE
      /\ UNCHANGED <<seen, caVersion, known, caRead, at, jobMade>>
  BY AccessBefore, AccessAssumption DEF RA!ReplaceAccount, RA!Outsider
<1>c. changes' \in 0 .. MaxChanges
  BY <1>b, AccessAssumption
<1>t. touched' \in BOOLEAN /\ jobMade' \in BOOLEAN
  BY <1>b, AccessBefore
<1>m. ASSUME NEW x, NEW m \in Nat, Numbered(x, uids), uids <= m PROVE Numbered(x, m)
  <2>1. x.uid \in Nat
    BY <1>m, AccessAssumption DEF Numbered, Object
  <2> QED BY <1>b, <1>m, <2>1 DEF Numbered
<1>1. CASE RA!ReplaceAccount
  <2>1. obj' = obj /\ uids' = uids + 1 /\ account' \in {0, uids + 1}
    BY <1>1 DEF RA!ReplaceAccount
  <2>2. /\ uids' \in 2 .. MaxUid /\ uids' \in Nat /\ uids <= uids' /\ account' \in 0 .. uids'
        /\ known' \in 0 .. uids'
    BY <1>b, <2>1, AccessAssumption
  <2>3. \A o \in RA!Objects : /\ Numbered(obj'[o], uids') /\ Numbered(seen'[o], uids')
                               /\ SameOwner(obj'[o], seen'[o])
    BY <1>b, <1>m, <2>1, <2>2, AccessBefore
  <2> QED BY <1>b, <1>c, <1>t, <2>1, <2>2, <2>3, AccessBefore, AccessAfter
<1>2. ASSUME NEW o \in RA!Objects, RA!Outsider(o) PROVE AccessInv'
  <2> DEFINE foreign == [uid |-> uids + 1, says |-> "foreign", val |-> 0]
             changed(how) == [obj[o] EXCEPT !.says = how]
  <2>0. account' = account
    BY <1>2 DEF RA!Outsider
  <2>1. PICK new : /\ obj' = [obj EXCEPT ![o] = new] /\ uids' = (IF new.uid > uids THEN new.uid ELSE uids)
                   /\ \/ new = RA!None
                      \/ new = foreign
                      \/ /\ obj[o].says \in RA!Managed
                         /\ \E how \in {"wrongSubject", "unlabelled"} : new = changed(how)
    <3>1. PICK new \in {RA!None, foreign}
                        \cup (IF obj[o].says \in RA!Managed
                              THEN {changed(how) : how \in {"wrongSubject", "unlabelled"}} ELSE {}) :
             obj' = [obj EXCEPT ![o] = new] /\ uids' = IF new.uid > uids THEN new.uid ELSE uids
      BY <1>2 DEF RA!Outsider
    <3> HIDE DEF foreign, changed
    <3> QED BY <3>1
  <2>2. /\ new \in Object /\ new.uid <= uids + 1 /\ new.uid \in Nat /\ SameOwner(new, seen[o])
        /\ (new.uid = 0 => new = RA!None) /\ (new.says = "none" => new = RA!None)
    <3>1. CASE new = RA!None
      BY <1>b, <1>2, <3>1, NoObject, SeenObject DEF SameOwner
    <3>2. CASE new = foreign
      <4>1. seen[o].uid \in Nat /\ seen[o].uid <= uids
        BY <1>2, AccessBefore, AccessAssumption DEF Numbered, Object
      <4>2. uids + 1 \in 0 .. MaxUid /\ uids + 1 # 0 /\ uids + 1 # seen[o].uid
        BY <1>b, <4>1, AccessAssumption
      <4>3. foreign \in Object /\ foreign.uid = uids + 1 /\ foreign.says = "foreign"
        BY <4>2 DEF Object, RA!Managed, RA!Unmanaged
      <4> QED BY <1>b, <3>2, <4>2, <4>3 DEF SameOwner
    <3>3. ASSUME NEW how \in {"wrongSubject", "unlabelled"}, obj[o].says \in RA!Managed, new = changed(how)
          PROVE  /\ new \in Object /\ new.uid <= uids + 1 /\ new.uid \in Nat /\ SameOwner(new, seen[o])
                 /\ (new.uid = 0 => new = RA!None) /\ (new.says = "none" => new = RA!None)
      <4>1. obj[o] \in Object /\ Numbered(obj[o], uids) /\ SameOwner(obj[o], seen[o])
        BY <1>2, AccessBefore
      <4>2. new \in Object /\ new.uid = obj[o].uid /\ new.says = how
        BY <3>3, <4>1 DEF Object, RA!Managed, RA!Unmanaged
      <4>3. obj[o].says # "foreign" /\ obj[o] # RA!None /\ obj[o].uid # 0
        BY <3>3, <4>1, NoObject DEF RA!Managed, Numbered
      <4>4. obj[o].uid \in Nat /\ obj[o].uid <= uids
        BY <4>1, AccessAssumption DEF Numbered, Object
      <4>5. SameOwner(new, seen[o])
        BY <4>1, <4>2, <4>3 DEF SameOwner
      <4> QED BY <1>b, <4>2, <4>3, <4>4, <4>5
    <3> QED BY <2>1, <3>1, <3>2, <3>3
  <2> HIDE DEF foreign, changed
  <2>3. /\ uids' \in 2 .. MaxUid /\ uids' \in Nat /\ uids <= uids' /\ account' \in 0 .. uids'
        /\ known' \in 0 .. uids' /\ new.uid <= uids'
    BY <1>b, <2>0, <2>1, <2>2, AccessAssumption
  <2>4. Numbered(new, uids')
    BY <2>2, <2>3 DEF Numbered
  <2>5. obj' \in [RA!Objects -> Object] /\ \A p \in RA!Objects : obj'[p] = IF p = o THEN new ELSE obj[p]
    BY <1>2, <2>1, <2>2, AccessBefore
  <2>6. \A p \in RA!Objects : /\ Numbered(obj'[p], uids') /\ Numbered(seen'[p], uids')
                               /\ SameOwner(obj'[p], seen'[p])
    BY <1>b, <1>m, <2>2, <2>3, <2>4, <2>5, AccessBefore
  <2> QED BY <1>b, <1>c, <1>t, <2>3, <2>5, <2>6, AccessBefore, AccessAfter
<1> QED BY <1>1, <1>2

\* The garbage collector takes the bindings of an account that is gone.
LEMMA GarbageCollected ==
  ASSUME AccessInv, RA!CollectGarbage
  PROVE  AccessInv'
<1>o. "writer" \in RA!Objects
  BY ObjectNames
<1>1. /\ obj["writer"].says \in RA!Managed \cup {"unlabelled"} /\ obj["writer"].val # account
      /\ obj' = [obj EXCEPT !["writer"] = RA!None]
      /\ UNCHANGED <<seen, account, caVersion, known, caRead, at, jobMade, uids, changes, touched>>
  BY DEF RA!CollectGarbage
<1>2. obj' \in [RA!Objects -> Object] /\ \A p \in RA!Objects : obj'[p] = IF p = "writer" THEN RA!None ELSE obj[p]
  BY <1>o, <1>1, AccessBefore, NoObject
<1>3. \A p \in RA!Objects : /\ Numbered(obj'[p], uids) /\ Numbered(seen[p], uids) /\ SameOwner(obj'[p], seen[p])
  <2>1. Numbered(RA!None, uids)
    BY NoObject, AccessBefore DEF Numbered
  <2>2. SameOwner(RA!None, seen["writer"])
    BY <1>o, NoObject, SeenObject DEF SameOwner
  <2> QED BY <1>2, <2>1, <2>2, AccessBefore
<1>4. ASSUME ~touched
      PROVE  Calm(obj', seen, account, known, uids) /\ Provided(at, obj', account, known, caRead)
  <2>1. Calm(obj, seen, account, known, uids) /\ Provided(at, obj, account, known, caRead)
    BY <1>4, AccessBefore
  <2>2. WriterCalm(obj["writer"], seen["writer"], account, uids)
    BY <2>1 DEF Calm
  <2>3. seen["writer"] = RA!None \/ seen["writer"].uid # 0
    BY <1>o, SeenObject
  <2>u. 0 <= uids
    BY AccessBefore
  <2>4. WriterCalm(RA!None, seen["writer"], account, uids)
    BY <1>1, <2>2, <2>3, <2>u, NoObject DEF WriterCalm
  <2>5. Calm(obj', seen, account, known, uids)
    BY <1>2, <2>1, <2>4, ObjectNames DEF Calm
  <2>6. Provided(at, obj', account, known, caRead)
    BY <1>1, <1>2, <2>1, ObjectNames DEF Provided
  <2> QED BY <2>5, <2>6
<1>5. jobMade' \in BOOLEAN /\ touched' \in BOOLEAN
  BY <1>1, AccessBefore
<1> QED BY <1>1, <1>2, <1>3, <1>4, <1>5, AccessBefore, AccessAfter

\* The cache catches up with the cluster.
LEMMA Synced ==
  ASSUME AccessInv, NEW kind \in RA!Informers, RA!Sync(kind)
  PROVE  AccessInv'
<1>1. /\ seen' = [o \in RA!Objects |-> IF o \in kind THEN obj[o] ELSE seen[o]]
      /\ UNCHANGED <<obj, account, caVersion, known, caRead, at, jobMade, uids, changes, touched>>
  BY DEF RA!Sync
<1>2. seen' \in [RA!Objects -> Object] /\ \A o \in RA!Objects : seen'[o] = obj[o] \/ seen'[o] = seen[o]
  BY <1>1, AccessBefore
<1>3. \A o \in RA!Objects : Numbered(obj[o], uids) /\ Numbered(seen'[o], uids) /\ SameOwner(obj[o], seen'[o])
  BY <1>2, AccessBefore DEF SameOwner
<1>4. ~touched => Calm(obj, seen', account, known, uids)
  <2> SUFFICES ASSUME ~touched PROVE Calm(obj, seen', account, known, uids)
    OBVIOUS
  <2>1. Calm(obj, seen, account, known, uids)
    BY AccessBefore
  <2>2. BindingCalm(obj["binding"], seen'["binding"])
    BY <1>2, <2>1, ObjectNames DEF Calm, BindingCalm
  <2>3. BindingCalm(obj["caller"], seen'["caller"]) /\ seen'["caller"].says # "foreign"
    BY <1>2, <2>1, ObjectNames DEF Calm, BindingCalm
  <2>4. WriterCalm(obj["writer"], seen'["writer"], account, uids)
    BY <1>2, <2>1, ObjectNames DEF Calm, WriterCalm
  <2> QED BY <2>1, <2>2, <2>3, <2>4 DEF Calm
<1>5. jobMade' \in BOOLEAN /\ touched' \in BOOLEAN
  BY <1>1, AccessBefore
<1> QED BY <1>1, <1>2, <1>3, <1>4, <1>5, AccessBefore, AccessAfter

\* Every step keeps the invariant.
LEMMA AccessStep ==
  ASSUME AccessInv, RA!Next \/ UNCHANGED RA!accessVars
  PROVE  AccessInv'
<1>1. CASE RA!Reconcile
  BY <1>1, PlaceChanged, AccountEnsured, BindingEnsured, CallerEnsured, WriterEnsured, WriterCreated, CAEnsured
     DEF RA!Reconcile
<1>2. CASE RA!Interrupted \/ RA!RotateCA \/ UNCHANGED RA!accessVars
  BY <1>2, PlaceChanged
<1>3. CASE RA!ReplaceAccount \/ \E o \in RA!Objects : RA!Outsider(o)
  BY <1>3, WorldChanged
<1>4. CASE RA!CollectGarbage
  BY <1>4, GarbageCollected
<1>5. CASE \E kind \in RA!Informers : RA!Sync(kind)
  BY <1>5, Synced
<1> QED BY <1>1, <1>2, <1>3, <1>4, <1>5 DEF RA!Next

\* It has the types.
LEMMA AccessImplies == AccessInv => RA!TypeOK
<1> SUFFICES ASSUME AccessInv PROVE RA!TypeOK
  OBVIOUS
<1>1. /\ uids \in 0 .. MaxUid /\ account \in 0 .. MaxUid /\ known \in 0 .. MaxUid
  BY AccessBefore, AccessAssumption
<1>2. obj \in [RA!Objects -> [uid : 0 .. MaxUid, says : RA!Managed \cup RA!Unmanaged \cup {"none"}, val : Nat]]
  BY AccessBefore DEF Object
<1> QED BY <1>1, <1>2, AccessBefore DEF RA!TypeOK

\* What is not ours and is written anyway: never.
LEMMA ForeignStays ==
  ASSUME AccessInv, RA!Next \/ UNCHANGED RA!accessVars
  PROVE  RA!ForeignUntouched
<1> SUFFICES ASSUME at' # at, NEW o \in RA!Objects, obj[o].says \in RA!Unmanaged
             PROVE  obj'[o] = obj[o] \/ (obj[o].says = "unlabelled" /\ obj'[o] = RA!None)
  BY DEF RA!ForeignUntouched, RA!Unmanaged
<1> DEFINE Kept == obj'[o] = obj[o] \/ (obj[o].says = "unlabelled" /\ obj'[o] = RA!None)
<1>l. ASSUME NEW pc, RA!leave(pc) PROVE Kept
  BY <1>l DEF RA!leave
<1>w. ASSUME NEW p \in RA!Objects, NEW new, NEW pc, RA!write(p, new, pc), obj[p].says \notin RA!Unmanaged
      PROVE  Kept
  BY <1>w, AccessBefore DEF RA!write
<1>c. ASSUME NEW p \in RA!Objects, NEW val, NEW pc, NEW ex, RA!create(p, val, pc, ex) PROVE Kept
  BY <1>c, <1>l, <1>w, NoObject DEF RA!create, RA!Unmanaged
<1>d. ASSUME NEW p \in RA!Objects, NEW pc, RA!deleteSeen(p, pc), seen[p].says # "foreign" PROVE Kept
  <2>1. CASE RA!leave(RA!restart)
    BY <1>l, <2>1
  <2>2. CASE RA!write(p, RA!None, pc) /\ (obj[p] = RA!None \/ obj[p].uid = seen[p].uid)
    <3>1. obj[p].says # "foreign"
      BY <1>d, <2>2, NoObject, SeenObject
    <3>2. obj' = [obj EXCEPT ![p] = RA!None] /\ obj \in [RA!Objects -> Object]
      BY <2>2, AccessBefore DEF RA!write
    <3> QED BY <1>d, <3>1, <3>2 DEF RA!Unmanaged
  <2> QED BY <1>d, <2>1, <2>2 DEF RA!deleteSeen
<1>u. ASSUME NEW p \in RA!Objects, NEW pc, RA!updateSeen(p, pc), seen[p].says \notin RA!Unmanaged PROVE Kept
  BY <1>u, <1>l, <1>w DEF RA!updateSeen
<1>1. CASE RA!Build \/ RA!EnsureSecrets
  BY <1>1, <1>l DEF RA!Build, RA!EnsureSecrets
<1>2. CASE RA!EnsureAccount \/ RA!CreateJob \/ RA!Watch \/ RA!Interrupted \/ RA!ReadCA
  BY <1>2 DEF RA!EnsureAccount, RA!CreateJob, RA!Watch, RA!Interrupted, RA!ReadCA
<1>3. CASE RA!EnsureBinding
  BY <1>3, <1>l, <1>c, <1>d, <1>u, ObjectNames, NoObject DEF RA!EnsureBinding, RA!Unmanaged
<1>4. CASE RA!Rebind \/ RA!Recall
  BY <1>4, <1>c, ObjectNames DEF RA!Rebind, RA!Recall
<1>5. CASE RA!EnsureCaller
  BY <1>5, <1>l, <1>c, <1>d, <1>u, ObjectNames, NoObject DEF RA!EnsureCaller, RA!Unmanaged
<1>6. CASE RA!EnsureWriter
  BY <1>6, <1>l, <1>d, <1>u, ObjectNames, NoObject DEF RA!EnsureWriter, RA!Unmanaged
<1>7. CASE RA!CreateWriter
  BY <1>7, <1>l, <1>c, ObjectNames DEF RA!CreateWriter
<1>8. CASE RA!PublishCA
  BY <1>8, <1>l, <1>c, <1>w, ObjectNames, NoObject DEF RA!PublishCA, RA!Managed, RA!Unmanaged
<1>9. CASE RA!ReplaceAccount \/ RA!RotateCA \/ RA!CollectGarbage \/ (\E kind \in RA!Informers : RA!Sync(kind))
           \/ (\E p \in RA!Objects : RA!Outsider(p)) \/ UNCHANGED RA!accessVars
  BY <1>9 DEF RA!ReplaceAccount, RA!RotateCA, RA!CollectGarbage, RA!Sync, RA!Outsider, RA!accessVars
<1> QED BY <1>1, <1>2, <1>3, <1>4, <1>5, <1>6, <1>7, <1>8, <1>9 DEF RA!Next, RA!Reconcile

\* Only CreateJob makes the Job.
LEMMA OnlyCreateJob ==
  ASSUME RA!Next \/ UNCHANGED RA!accessVars, jobMade' # jobMade
  PROVE  at = "job"
<1>1. ASSUME NEW pc, RA!leave(pc) PROVE FALSE
  BY <1>1 DEF RA!leave, RA!goto
<1>2. ASSUME NEW p, NEW new, NEW pc, RA!write(p, new, pc) PROVE FALSE
  BY <1>2 DEF RA!write, RA!goto
<1>3. ~RA!Build /\ ~RA!EnsureSecrets
  BY <1>1 DEF RA!Build, RA!EnsureSecrets
<1>4. ~RA!EnsureAccount /\ ~RA!Watch /\ ~RA!Interrupted /\ ~RA!ReadCA
  BY DEF RA!EnsureAccount, RA!Watch, RA!Interrupted, RA!ReadCA, RA!goto
<1>c. ASSUME NEW p, NEW val, NEW pc, NEW ex, RA!create(p, val, pc, ex) PROVE FALSE
  BY <1>c, <1>1, <1>2 DEF RA!create
<1>d. ASSUME NEW p, NEW pc, RA!deleteSeen(p, pc) \/ RA!updateSeen(p, pc) PROVE FALSE
  BY <1>d, <1>1, <1>2 DEF RA!deleteSeen, RA!updateSeen
<1>5. ~RA!EnsureBinding
  BY <1>1, <1>c, <1>d DEF RA!EnsureBinding
<1>6. ~RA!Rebind /\ ~RA!Recall /\ ~RA!CreateWriter
  BY <1>1, <1>c DEF RA!Rebind, RA!Recall, RA!CreateWriter
<1>7. ~RA!EnsureCaller
  BY <1>1, <1>c, <1>d DEF RA!EnsureCaller
<1>8. ~RA!EnsureWriter
  BY <1>1, <1>d DEF RA!EnsureWriter
<1>9. ~RA!PublishCA
  BY <1>1, <1>2, <1>c DEF RA!PublishCA
<1>10. CASE RA!ReplaceAccount \/ RA!RotateCA \/ RA!CollectGarbage \/ (\E kind \in RA!Informers : RA!Sync(kind))
           \/ (\E p \in RA!Objects : RA!Outsider(p)) \/ UNCHANGED RA!accessVars
  BY <1>10 DEF RA!ReplaceAccount, RA!RotateCA, RA!CollectGarbage, RA!Sync, RA!Outsider, RA!accessVars
<1>11. CASE RA!CreateJob
  BY <1>11 DEF RA!CreateJob
<1> QED BY <1>3, <1>4, <1>5, <1>6, <1>7, <1>8, <1>9, <1>10, <1>11 DEF RA!Next, RA!Reconcile

\* The Job is created only after everything its runner needs.
LEMMA JobProvided ==
  ASSUME AccessInv, RA!Next \/ UNCHANGED RA!accessVars
  PROVE  RA!AccessBeforeJob /\ RA!CAPublished
<1> SUFFICES ASSUME jobMade', ~jobMade, ~touched
             PROVE  /\ account # 0 /\ obj["binding"].says = "right" /\ obj["caller"].says \in {"right", "foreign"}
                    /\ known # 0 => obj["writer"].says = "right" /\ obj["writer"].val = account
                    /\ obj["cm"].says = "right" /\ obj["cm"].val = caRead
  BY DEF RA!AccessBeforeJob, RA!CAPublished
<1>1. at = "job"
  BY OnlyCreateJob
<1>2. Provided("job", obj, account, known, caRead)
  BY <1>1, AccessBefore
<1> QED BY <1>2, ProvidedAt

\* The WorkflowRun reconciler creates the runner's Job, unless an outsider has interfered,
\* only when its account, its bindings and the CA are there and right, and changes no
\* object of somebody else: for every number of accounts and of changes.
THEOREM RunnerAccessSound == RA!Spec => RA!AccessSound
<1> DEFINE OK == RA!ForeignUntouched /\ RA!AccessBeforeJob /\ RA!CAPublished
<1>1. AccessInv /\ [RA!Next]_(RA!accessVars) => AccessInv'
  BY AccessStep
<1>2. AccessInv /\ [RA!Next]_(RA!accessVars) => OK
  BY ForeignStays, JobProvided
<1> HIDE DEF OK
<1>3. RA!Init /\ [][RA!Next]_(RA!accessVars) => [][OK]_(RA!accessVars)
  BY <1>1, <1>2, AccessInit, PTL
<1> QED BY <1>3, PTL DEF RA!Spec, RA!AccessSound, OK

\* The same of the runner's access as MCSafety runs it.
THEOREM AccessPart == PartsSpec => AccessSound
<1> DEFINE PartInv == part = "access" => AccessInv
           Kept == part = "access" => RA!ForeignUntouched /\ RA!AccessBeforeJob /\ RA!CAPublished
<1>1. PartsInit => PartInv
  BY AccessInit DEF PartsInit
<1>2. [PartsNext]_allVars => part' = part /\ (part = "access" => RA!Next \/ UNCHANGED RA!accessVars)
  BY DEF PartsNext, allVars, only, accessVars, RA!accessVars
<1>3. PartInv /\ [PartsNext]_allVars => PartInv'
  BY <1>2, AccessStep
<1>4. PartInv /\ [PartsNext]_allVars => Kept
  BY <1>2, ForeignStays, JobProvided
<1> HIDE DEF PartInv, Kept
<1>5. PartsSpec => [][Kept]_allVars
  BY <1>1, <1>3, <1>4, PTL DEF PartsSpec
<1> QED
  BY <1>5 DEF AccessSound, Kept

----------------------------------------------------------------------------
(* The webhook server (WebhookServer).  A key is remembered until every    *)
(* copy of its message is too old, unless its timestamp is far ahead.      *)

\* The places of a request.
Places == {"idle", "lookup", "limit", "dedup", "create", "record"}

\* What a handler holds.
Request == [pc : Places, msg : Messages, began : Nat, edition : Nat, alone : BOOLEAN]

\* A message as its sender signed it.
Signed == [at : Nat, by : Nat, signed : BOOLEAN]

\* A request in progress is of a message that was signed before it began, with a
\* timestamp that was not too old then.
InTime(p, s, n) ==
  p.pc # "idle" =>
    /\ s[p.msg].at # 0 /\ s[p.msg].by <= p.began /\ p.began <= s[p.msg].at + Window
    /\ p.began <= n /\ n <= p.began + Delay

\* A handler at the rate limit has looked a Workflow up.
KnowsEdition(p, e) == p.pc = "limit" => p.edition # 0 /\ p.edition <= e

\* Of two requests of one message neither counts as alone.
Apart(hs) ==
  \A g, h \in Handlers :
    g # h /\ hs[g].pc # "idle" /\ hs[h].pc # "idle" /\ hs[g].msg = hs[h].msg => ~hs[g].alone

\* A message that made a run has its key recorded, or a request that is about to.
KeyKnown(hs, s, ks, md) ==
  \A m \in md :
    /\ s[m].at # 0
    /\ \/ ks[m] # 0 /\ s[m].by <= ks[m]
       \/ \E g \in Handlers : hs[g].pc = "record" /\ hs[g].msg = m

\* The timestamp of the message is refused before its key is forgotten.
Refusable(s, m) == s[m].at + Window + Delay < s[m].by + DedupWindow

\* A handler that is alone with such a message makes the first run of it.
FirstRun(hs, s, md) ==
  \A h \in Handlers : hs[h].pc = "create" /\ hs[h].alone /\ Refusable(s, hs[h].msg) => hs[h].msg \notin md

\* Requests admitted and tokens left are together at most the burst.
Tokens(l, n) ==
  \/ l.edition = 0 /\ n = 0
  \/ l.edition = 1 /\ n + l.tokens <= Burst

\* Types.
HookTyped ==
  /\ now \in 1 .. MaxTime /\ keys \in [Messages -> 0 .. MaxTime] /\ made \subseteq Messages
  /\ limiter \in [edition : Nat, tokens : 0 .. Burst]
  /\ editions \in 1 .. MaxEditions /\ live \in 0 .. editions /\ admitted \in Nat
  /\ handler \in [Handlers -> Request] /\ sent \in [Messages -> Signed] /\ restarted \in BOOLEAN

\* The inductive invariant of the webhook server.
HookInv ==
  /\ HookTyped /\ \A m \in Messages : sent[m].by <= now
  /\ \A h \in Handlers : InTime(handler[h], sent, now) /\ KnowsEdition(handler[h], editions)
  /\ Apart(handler)
  /\ editions = 1 => live = 1
  /\ editions = 1 /\ ~restarted =>
                    /\ KeyKnown(handler, sent, keys, made) /\ FirstRun(handler, sent, made)
                    /\ Tokens(limiter, admitted)

\* A handler that waits.
LEMMA IdleRequest == WH!Idle \in Request /\ WH!Idle.pc = "idle"
  BY WebhookAssumption DEF WH!Idle, Request, Places

\* No request has come.
LEMMA HookInit == WH!Init => HookInv
<1> SUFFICES ASSUME WH!Init PROVE HookInv
  OBVIOUS
<1> USE WebhookAssumption, IdleRequest DEF WH!Init
<1>1. handler \in [Handlers -> Request] /\ \A h \in Handlers : handler[h].pc = "idle"
  OBVIOUS
<1>2. sent \in [Messages -> Signed]
  BY DEF Signed
<1>3. limiter \in [edition : Nat, tokens : 0 .. Burst] /\ Tokens(limiter, admitted)
  BY DEF WH!NoLimiter, Tokens
<1>r. restarted \in BOOLEAN
  BY Zenon
<1>k. keys \in [Messages -> 0 .. MaxTime] /\ now \in 1 .. MaxTime /\ editions \in 1 .. MaxEditions
      /\ live \in 0 .. editions /\ admitted \in Nat /\ made \subseteq Messages
  OBVIOUS
<1>4. HookTyped
  BY <1>1, <1>2, <1>3, <1>r, <1>k DEF HookTyped
<1>5. \A h \in Handlers : InTime(handler[h], sent, now) /\ KnowsEdition(handler[h], editions)
  BY <1>1 DEF InTime, KnowsEdition
<1>7. \A m \in Messages : sent[m].by <= now
  OBVIOUS
<1>6. Apart(handler) /\ KeyKnown(handler, sent, keys, made) /\ FirstRun(handler, sent, made)
  BY <1>1 DEF Apart, KeyKnown, FirstRun
<1> QED BY <1>3, <1>4, <1>5, <1>6, <1>7 DEF HookInv

\* A request goes on or ends, and leaves the runs and keys alone.
LEMMA RequestMoves ==
  ASSUME HookInv, NEW h \in Handlers, NEW q \in Request, handler' = [handler EXCEPT ![h] = q],
         handler[h].pc # "idle",
         q.pc # "idle" => /\ q.msg = handler[h].msg /\ q.began = handler[h].began
                          /\ q.alone = handler[h].alone,
         KnowsEdition(q, editions)
  PROVE  /\ handler' \in [Handlers -> Request]
         /\ \A g \in Handlers : InTime(handler'[g], sent, now) /\ KnowsEdition(handler'[g], editions)
         /\ Apart(handler')
         /\ \A g \in Handlers : handler'[g] = IF g = h THEN q ELSE handler[g]
<1>1. \A g \in Handlers : handler'[g] = IF g = h THEN q ELSE handler[g]
  BY DEF HookInv, HookTyped
<1>2. handler' \in [Handlers -> Request]
  BY DEF HookInv, HookTyped
<1>3. \A g \in Handlers : KnowsEdition(handler'[g], editions)
  BY <1>1 DEF HookInv
<1>4. \A g \in Handlers : InTime(handler'[g], sent, now)
  BY <1>1 DEF HookInv, InTime
<1>5. Apart(handler')
  BY <1>1 DEF HookInv, Apart
<1> QED BY <1>1, <1>2, <1>3, <1>4, <1>5

\* Except for the last steps of a request, which make the run and record its key.
LEMMA RequestGoesOn ==
  ASSUME HookInv, NEW h \in Handlers, NEW q \in Request, handler' = [handler EXCEPT ![h] = q],
         handler[h].pc \notin {"idle", "record"},
         q.pc # "idle" => /\ q.msg = handler[h].msg /\ q.began = handler[h].began
                          /\ q.alone = handler[h].alone,
         KnowsEdition(q, editions), q.pc = "create" /\ editions = 1 /\ ~restarted /\ q.alone /\ Refusable(sent, q.msg) => q.msg \notin made,
         UNCHANGED <<now, sent, live, editions, restarted, keys, made>>,
         limiter' \in [edition : Nat, tokens : 0 .. Burst], admitted' \in Nat,
         editions = 1 /\ ~restarted => Tokens(limiter', admitted')
  PROVE  HookInv'
<1>1. /\ handler' \in [Handlers -> Request]
      /\ \A g \in Handlers : InTime(handler'[g], sent, now) /\ KnowsEdition(handler'[g], editions)
      /\ Apart(handler')
      /\ \A g \in Handlers : handler'[g] = IF g = h THEN q ELSE handler[g]
  BY RequestMoves
<1>2. HookTyped'
  BY <1>1 DEF HookInv, HookTyped
<1>3. ASSUME editions = 1, ~restarted PROVE KeyKnown(handler', sent, keys, made) /\ FirstRun(handler', sent, made)
  <2>1. KeyKnown(handler', sent, keys, made)
    BY <1>1, <1>3 DEF HookInv, KeyKnown
  <2>2. FirstRun(handler', sent, made)
    BY <1>1, <1>3 DEF HookInv, FirstRun
  <2> QED BY <2>1, <2>2
<1>4. \A g \in Handlers : InTime(handler'[g], sent', now') /\ KnowsEdition(handler'[g], editions')
  BY <1>1 DEF KnowsEdition
<1> QED BY <1>1, <1>2, <1>3, <1>4 DEF HookInv

\* A request that is refused leaves nothing behind.
LEMMA Refused ==
  ASSUME HookInv, NEW h \in Handlers, WH!refuse(h), handler[h].pc \notin {"idle", "record"},
         UNCHANGED <<keys, made>>, limiter' \in [edition : Nat, tokens : 0 .. Burst], admitted' \in Nat,
         editions = 1 /\ ~restarted => Tokens(limiter', admitted')
  PROVE  HookInv'
<1>1. KnowsEdition(WH!Idle, editions)
  BY IdleRequest DEF KnowsEdition
<1> QED BY <1>1, IdleRequest, RequestGoesOn DEF WH!refuse, WH!go

\* A message that arrives while a copy of it is handled takes from that copy, too,
\* that it is alone.
LEMMA MessageArrives ==
  ASSUME HookInv, NEW h \in Handlers, NEW m \in Messages, WH!Arrive(h, m)
  PROVE  HookInv'
<1> DEFINE copies == {g \in Handlers : handler[g].pc # "idle" /\ handler[g].msg = m}
           lone == (copies = {})
           q == [pc |-> "lookup", msg |-> m, began |-> now, edition |-> 0, alone |-> lone]
<1>t. HookTyped
  BY DEF HookInv
<1>q. q \in Request /\ q.pc = "lookup" /\ q.msg = m /\ q.began = now /\ (q.alone <=> lone)
  <2>1. now \in Nat /\ lone \in BOOLEAN
    BY <1>t, WebhookAssumption DEF HookTyped
  <2> HIDE DEF lone
  <2> QED BY <2>1 DEF Request, Places
<1>c. \A g \in Handlers : LET c == [handler[g] EXCEPT !.alone = FALSE]
                          IN c \in Request /\ c.pc = handler[g].pc /\ c.msg = handler[g].msg
                             /\ c.began = handler[g].began /\ c.edition = handler[g].edition /\ ~c.alone
  BY <1>t DEF HookTyped, Request
<1>h. handler' = [g \in Handlers |-> IF g = h THEN q
                   ELSE IF g \in copies THEN [handler[g] EXCEPT !.alone = FALSE] ELSE handler[g]]
  BY DEF WH!Arrive
<1>u. /\ UNCHANGED <<now, sent, limiter, keys, made, live, editions, restarted, admitted>>
      /\ handler[h].pc = "idle" /\ sent[m].at # 0 /\ now <= sent[m].at + Window
  BY DEF WH!Arrive, WH!timely
<1> HIDE DEF q
<1>1. /\ handler' \in [Handlers -> Request] /\ handler'[h] = q
      /\ \A g \in Handlers \ {h} :
           /\ handler'[g].pc = handler[g].pc /\ handler'[g].msg = handler[g].msg
           /\ handler'[g].began = handler[g].began /\ handler'[g].edition = handler[g].edition
           /\ handler'[g].alone => handler[g].alone
           /\ g \in copies => ~handler'[g].alone
  <2>1. \A g \in Handlers : handler'[g] = IF g = h THEN q
                   ELSE IF g \in copies THEN [handler[g] EXCEPT !.alone = FALSE] ELSE handler[g]
    BY <1>h
  <2>2. \A g \in Handlers : handler'[g] \in Request
    BY <1>t, <1>q, <1>c, <2>1 DEF HookTyped
  <2> QED BY <1>c, <1>h, <2>1, <2>2
<1>2. HookTyped'
  BY <1>1, <1>t, <1>u DEF HookTyped
<1>3. ASSUME NEW g \in Handlers PROVE InTime(handler'[g], sent, now) /\ KnowsEdition(handler'[g], editions)
  <2>1. CASE g = h
    <3>1. sent[m].at \in Nat /\ sent[m].by \in Nat /\ now \in Nat
      BY <1>t, WebhookAssumption DEF HookTyped, Signed
    <3>2. sent[m].by <= now
      BY DEF HookInv
    <3> QED BY <1>1, <1>q, <1>u, <2>1, <3>1, <3>2, WebhookAssumption DEF InTime, KnowsEdition
  <2>2. CASE g # h
    BY <1>1, <2>2 DEF HookInv, InTime, KnowsEdition
  <2> QED BY <2>1, <2>2
<1>4. Apart(handler')
  <2> SUFFICES ASSUME NEW a \in Handlers, NEW b \in Handlers, a # b, handler'[a].pc # "idle",
                      handler'[b].pc # "idle", handler'[a].msg = handler'[b].msg
               PROVE  ~handler'[a].alone
    BY DEF Apart
  <2>1. CASE a = h
    BY <1>1, <1>q, <2>1
  <2>2. CASE a # h /\ b = h
    BY <1>1, <1>q, <2>2
  <2>3. CASE a # h /\ b # h
    BY <1>1, <2>3 DEF HookInv, Apart
  <2> QED BY <2>1, <2>2, <2>3
<1>5. ASSUME editions = 1, ~restarted PROVE KeyKnown(handler', sent, keys, made) /\ FirstRun(handler', sent, made)
  <2>1. KeyKnown(handler', sent, keys, made)
    BY <1>1, <1>5, <1>u DEF HookInv, KeyKnown
  <2>2. FirstRun(handler', sent, made)
    BY <1>1, <1>5, <1>q DEF HookInv, FirstRun
  <2> QED BY <2>1, <2>2
<1> QED BY <1>2, <1>3, <1>4, <1>5, <1>u DEF HookInv

\* The window of the keys outlasts the one of the timestamps and the slowest request.
LEMMA KeyStillKnown ==
  ASSUME HookInv, editions = 1, ~restarted, NEW h \in Handlers, handler[h].pc = "dedup", handler[h].alone,
         Refusable(sent, handler[h].msg),
         ~(keys[handler[h].msg] # 0 /\ now < keys[handler[h].msg] + DedupWindow)
  PROVE  handler[h].msg \notin made
<1> DEFINE m == handler[h].msg
<1>1. /\ m \in Messages /\ keys[m] \in Nat /\ now \in Nat /\ sent[m].at \in Nat /\ sent[m].by \in Nat
      /\ handler[h].began \in Nat
  BY WebhookAssumption DEF HookInv, HookTyped, Request, Signed
<1>2. /\ handler[h].began <= sent[m].at + Window /\ now <= handler[h].began + Delay
  BY DEF HookInv, InTime
<1>3. ASSUME m \in made PROVE FALSE
  <2>1. \/ keys[m] # 0 /\ sent[m].by <= keys[m]
        \/ \E g \in Handlers : handler[g].pc = "record" /\ handler[g].msg = m
    BY <1>1, <1>3 DEF HookInv, KeyKnown
  <2>2. CASE keys[m] # 0 /\ sent[m].by <= keys[m]
    BY <1>1, <1>2, <2>2, WebhookAssumption DEF Refusable
  <2>3. CASE \E g \in Handlers : handler[g].pc = "record" /\ handler[g].msg = m
    BY <2>3 DEF HookInv, Apart
  <2> QED BY <2>1, <2>2, <2>3
<1> QED BY <1>3

\* Every step of the handlers, of time and of the registry keeps it.
LEMMA HookStep == HookInv /\ [WH!Next]_webhookVars => HookInv'
<1> SUFFICES ASSUME HookInv, [WH!Next]_webhookVars PROVE HookInv'
  OBVIOUS
<1>t. HookTyped /\ limiter \in [edition : Nat, tokens : 0 .. Burst] /\ admitted \in Nat
      /\ (editions = 1 /\ ~restarted => Tokens(limiter, admitted))
  BY DEF HookInv, HookTyped
<1>1. ASSUME NEW h \in Handlers, NEW m \in Messages, WH!Arrive(h, m) PROVE HookInv'
  BY <1>1, MessageArrives
<1>2. ASSUME NEW h \in Handlers, WH!Lookup(h) PROVE HookInv'
  <2>1. CASE WH!refuse(h)
    BY <1>2, <1>t, <2>1, Refused DEF WH!Lookup
  <2>2. CASE live # 0 /\ WH!go(h, [handler[h] EXCEPT !.pc = "limit", !.edition = live])
    <3> DEFINE q == [handler[h] EXCEPT !.pc = "limit", !.edition = live]
    <3>1. /\ q \in Request /\ q.pc = "limit" /\ q.edition = live /\ q.msg = handler[h].msg
          /\ q.began = handler[h].began /\ q.alone = handler[h].alone
      <4>1. handler[h] \in Request /\ live \in Nat
        BY <1>t, WebhookAssumption DEF HookTyped
      <4> QED BY <4>1 DEF Request, Places
    <3> HIDE DEF q
    <3>2. KnowsEdition(q, editions)
      BY <1>t, <2>2, <3>1 DEF KnowsEdition, HookTyped
    <3>3. handler' = [handler EXCEPT ![h] = q] /\ UNCHANGED <<now, sent, live, editions, restarted>>
      BY <2>2 DEF q, WH!go
    <3> QED BY <1>2, <1>t, <3>1, <3>2, <3>3, RequestGoesOn DEF WH!Lookup
  <2> QED BY <1>2, <2>1, <2>2 DEF WH!Lookup
<1>3. ASSUME NEW h \in Handlers, WH!Limit(h) PROVE HookInv'
  <2> DEFINE l == WH!limiterFor(handler[h].edition)
             less == [l EXCEPT !.tokens = l.tokens - 1]
  <2>0. handler[h] \in Request /\ handler[h].edition # 0 /\ handler[h].edition <= editions
    BY <1>3, <1>t DEF HookTyped, HookInv, KnowsEdition, WH!Limit
  <2>1. l \in [edition : Nat, tokens : 0 .. Burst] /\ l.edition = handler[h].edition
    BY <1>t, <2>0, WebhookAssumption DEF WH!limiterFor, Request
  <2>2. ASSUME editions = 1, ~restarted PROVE l.edition = 1 /\ admitted + l.tokens <= Burst
    <3>1. handler[h].edition = 1
      BY <2>0, <2>2 DEF Request
    <3> QED BY <1>t, <2>2, <3>1, WebhookAssumption DEF WH!limiterFor, Tokens
  <2>c. \/ /\ l.tokens > 0 /\ limiter' = [l EXCEPT !.tokens = @ - 1] /\ admitted' = admitted + 1
           /\ WH!go(h, [handler[h] EXCEPT !.pc = "dedup"])
        \/ limiter' = l /\ WH!refuse(h) /\ UNCHANGED admitted
    BY <1>3 DEF WH!Limit
  <2> HIDE DEF l
  <2>3. CASE /\ l.tokens > 0 /\ limiter' = [l EXCEPT !.tokens = @ - 1] /\ admitted' = admitted + 1
             /\ WH!go(h, [handler[h] EXCEPT !.pc = "dedup"])
    <3> DEFINE q == [handler[h] EXCEPT !.pc = "dedup"]
    <3>1. /\ q \in Request /\ q.pc = "dedup" /\ q.msg = handler[h].msg
          /\ q.began = handler[h].began /\ q.alone = handler[h].alone
      BY <2>0 DEF Request, Places
    <3> HIDE DEF q
    <3>2. KnowsEdition(q, editions)
      BY <3>1 DEF KnowsEdition
    <3>3. handler' = [handler EXCEPT ![h] = q] /\ UNCHANGED <<now, sent, live, editions, restarted>>
      BY <2>3 DEF q, WH!go
    <3>4. limiter' = less
      BY <2>3
    <3>5. less \in [edition : Nat, tokens : 0 .. Burst] /\ less.edition = l.edition /\ less.tokens = l.tokens - 1
      <4>1. l.tokens - 1 \in 0 .. Burst
        BY <2>1, <2>3, WebhookAssumption
      <4> QED BY <2>1, <4>1
    <3> HIDE DEF less
    <3>6. editions = 1 /\ ~restarted => Tokens(less, admitted + 1)
      <4>1. l.tokens \in Nat
        BY <2>1, WebhookAssumption
      <4> QED BY <1>t, <2>2, <3>5, <4>1, WebhookAssumption DEF Tokens
    <3>7. /\ limiter' = less /\ admitted' = admitted + 1 /\ admitted' \in Nat
          /\ UNCHANGED <<keys, made>> /\ handler[h].pc \notin {"idle", "record"}
      BY <1>3, <1>t, <2>3, <3>4 DEF WH!Limit
    <3> QED BY <3>1, <3>2, <3>3, <3>5, <3>6, <3>7, RequestGoesOn
  <2>4. CASE limiter' = l /\ WH!refuse(h) /\ UNCHANGED admitted
    <3>1. editions = 1 /\ ~restarted => Tokens(l, admitted)
      BY <2>2 DEF Tokens
    <3> QED BY <1>3, <1>t, <2>1, <2>4, <3>1, Refused DEF WH!Limit
  <2> QED BY <2>c, <2>3, <2>4
<1>4. ASSUME NEW h \in Handlers, WH!Dedup(h) PROVE HookInv'
  <2>1. CASE WH!refuse(h)
    BY <1>4, <1>t, <2>1, Refused DEF WH!Dedup
  <2>2. CASE /\ ~(keys[handler[h].msg] # 0 /\ now < keys[handler[h].msg] + DedupWindow)
             /\ WH!go(h, [handler[h] EXCEPT !.pc = "create"])
    <3> DEFINE q == [handler[h] EXCEPT !.pc = "create"]
    <3>1. /\ q \in Request /\ q.pc = "create" /\ q.msg = handler[h].msg
          /\ q.began = handler[h].began /\ q.alone = handler[h].alone
      BY <1>t DEF HookTyped, Request, Places
    <3> HIDE DEF q
    <3>2. KnowsEdition(q, editions)
      BY <3>1 DEF KnowsEdition
    <3>3. handler' = [handler EXCEPT ![h] = q] /\ UNCHANGED <<now, sent, live, editions, restarted>>
      BY <2>2 DEF q, WH!go
    <3>4. editions = 1 /\ ~restarted /\ q.alone /\ Refusable(sent, q.msg) => q.msg \notin made
      BY <1>4, <2>2, <3>1, KeyStillKnown DEF WH!Dedup
    <3> QED BY <1>4, <1>t, <3>1, <3>2, <3>3, <3>4, RequestGoesOn DEF WH!Dedup
  <2> QED BY <1>4, <2>1, <2>2 DEF WH!Dedup
<1>5. ASSUME NEW h \in Handlers, WH!Create(h) PROVE HookInv'
  <2> DEFINE q == [handler[h] EXCEPT !.pc = "record"]
             m == handler[h].msg
  <2>1. /\ q \in Request /\ q.pc = "record" /\ q.msg = m
        /\ q.began = handler[h].began /\ q.alone = handler[h].alone /\ m \in Messages
    BY <1>t DEF HookTyped, Request, Places
  <2>2. /\ handler' = [handler EXCEPT ![h] = q] /\ made' = made \cup {m}
        /\ UNCHANGED <<now, sent, live, editions, restarted, limiter, keys, admitted>> /\ handler[h].pc = "create"
    BY <1>5, <1>t DEF WH!Create, WH!go, HookTyped
  <2> HIDE DEF q, m
  <2>3. KnowsEdition(q, editions)
    BY <2>1 DEF KnowsEdition
  <2>4. /\ handler' \in [Handlers -> Request]
        /\ \A g \in Handlers : InTime(handler'[g], sent, now) /\ KnowsEdition(handler'[g], editions)
        /\ Apart(handler')
        /\ \A g \in Handlers : handler'[g] = IF g = h THEN q ELSE handler[g]
    BY <2>1, <2>2, <2>3, RequestMoves DEF m
  <2>5. made' \subseteq Messages /\ \A n \in made' : n # m => n \in made
    BY <1>t, <2>1, <2>2 DEF HookTyped
  <2>6. HookTyped'
    BY <1>t, <2>2, <2>4, <2>5 DEF HookTyped
  <2>7. ASSUME editions = 1, ~restarted PROVE KeyKnown(handler', sent, keys, made')
    <3>1. sent[m].at # 0
      BY <2>2 DEF HookInv, InTime, m
    <3>2. ASSUME NEW n \in made
          PROVE  /\ sent[n].at # 0
                 /\ \/ keys[n] # 0 /\ sent[n].by <= keys[n]
                    \/ \E g \in Handlers : handler'[g].pc = "record" /\ handler'[g].msg = n
      <4>1. /\ sent[n].at # 0
            /\ \/ keys[n] # 0 /\ sent[n].by <= keys[n]
               \/ \E g \in Handlers : handler[g].pc = "record" /\ handler[g].msg = n
        BY <2>7, <3>2 DEF HookInv, KeyKnown
      <4>2. \A g \in Handlers : handler[g].pc = "record" => handler'[g] = handler[g]
        BY <2>2, <2>4
      <4> QED BY <4>1, <4>2
    <3> QED BY <2>1, <2>4, <2>5, <3>1, <3>2 DEF KeyKnown
  <2>8. ASSUME editions = 1, ~restarted PROVE FirstRun(handler', sent, made')
    <3> SUFFICES ASSUME NEW g \in Handlers, handler'[g].pc = "create", handler'[g].alone,
                        Refusable(sent, handler'[g].msg)
                 PROVE  handler'[g].msg \notin made'
      BY DEF FirstRun
    <3>1. g # h /\ handler'[g] = handler[g] /\ handler[g] \in Request
      BY <1>t, <2>1, <2>4 DEF HookTyped
    <3>2. handler[g].msg # m
      BY <2>2, <3>1 DEF HookInv, Apart, m
    <3>3. handler[g].msg \notin made
      BY <2>8, <3>1 DEF HookInv, FirstRun
    <3> QED BY <2>5, <3>1, <3>2, <3>3 DEF Request
  <2> QED BY <2>2, <2>4, <2>6, <2>7, <2>8 DEF HookInv
<1>6. ASSUME NEW h \in Handlers, WH!CreateFails(h) PROVE HookInv'
  BY <1>6, <1>t, Refused DEF WH!CreateFails
<1>7. ASSUME NEW h \in Handlers, WH!Record(h) PROVE HookInv'
  <2> DEFINE m == handler[h].msg
  <2>1. /\ handler' = [handler EXCEPT ![h] = WH!Idle] /\ keys' = [keys EXCEPT ![m] = now]
        /\ UNCHANGED <<now, sent, live, editions, restarted, limiter, made, admitted>> /\ handler[h].pc = "record"
    BY <1>7 DEF WH!Record, WH!refuse, WH!go
  <2>m. m \in Messages /\ now \in 1 .. MaxTime /\ now # 0
    BY <1>t DEF HookTyped, Request
  <2>i. InTime(handler[h], sent, now)
    BY DEF HookInv
  <2>n. now \in Nat /\ sent[m].by \in Nat /\ handler[h].began \in Nat
    BY <1>t, <2>m, WebhookAssumption DEF HookTyped, Signed, Request
  <2>s. sent[m].by <= now
    BY <2>1, <2>i, <2>n DEF InTime
  <2>2. KnowsEdition(WH!Idle, editions)
    BY IdleRequest DEF KnowsEdition
  <2> HIDE DEF m
  <2>4. /\ handler' \in [Handlers -> Request]
        /\ \A g \in Handlers : InTime(handler'[g], sent, now) /\ KnowsEdition(handler'[g], editions)
        /\ Apart(handler')
        /\ \A g \in Handlers : handler'[g] = IF g = h THEN WH!Idle ELSE handler[g]
    BY <2>1, <2>2, IdleRequest, RequestMoves
  <2>5. keys' \in [Messages -> 0 .. MaxTime] /\ keys'[m] = now
        /\ \A n \in Messages \ {m} : keys'[n] = keys[n]
    BY <1>t, <2>1, <2>m DEF HookTyped
  <2>6. HookTyped'
    BY <1>t, <2>1, <2>4, <2>5 DEF HookTyped
  <2>7. ASSUME editions = 1, ~restarted PROVE KeyKnown(handler', sent, keys', made)
    <3> SUFFICES ASSUME NEW n \in made
                 PROVE  /\ sent[n].at # 0
                        /\ \/ keys'[n] # 0 /\ sent[n].by <= keys'[n]
                           \/ \E g \in Handlers : handler'[g].pc = "record" /\ handler'[g].msg = n
      BY DEF KeyKnown
    <3>1. /\ sent[n].at # 0
          /\ \/ keys[n] # 0 /\ sent[n].by <= keys[n]
             \/ \E g \in Handlers : handler[g].pc = "record" /\ handler[g].msg = n
      BY <2>7 DEF HookInv, KeyKnown
    <3>0. n \in Messages
      BY <1>t DEF HookTyped
    <3>2. CASE n = m
      BY <2>5, <2>m, <2>s, <3>1, <3>2
    <3>3. CASE n # m
      <4>1. \A g \in Handlers : handler[g].msg = n => handler'[g] = handler[g]
        BY <2>4, <3>3 DEF m
      <4> QED BY <2>5, <3>0, <3>1, <3>3, <4>1
    <3> QED BY <3>2, <3>3
  <2>8. ASSUME editions = 1, ~restarted PROVE FirstRun(handler', sent, made)
    BY <2>4, <2>8, IdleRequest DEF HookInv, FirstRun
  <2> QED BY <2>1, <2>4, <2>6, <2>7, <2>8 DEF HookInv
<1>8. ASSUME NEW m \in Messages, WH!Sign(m) PROVE HookInv'
  <2>1. PICK ts \in 1 .. now + Window + 1, ok \in BOOLEAN :
          sent' = [sent EXCEPT ![m] = [at |-> ts, by |-> now, signed |-> ok]]
    BY <1>8 DEF WH!Sign
  <2> DEFINE q == [at |-> ts, by |-> now, signed |-> ok]
  <2>2. q \in Signed /\ q.by = now
    <3>1. now \in Nat /\ ts \in Nat
      BY <1>t, <2>1, WebhookAssumption DEF HookTyped
    <3> QED BY <3>1 DEF Signed
  <2> HIDE DEF q
  <2>3. sent' = [sent EXCEPT ![m] = q]
    BY <2>1 DEF q
  <2>4. sent' \in [Messages -> Signed] /\ \A n \in Messages \ {m} : sent'[n] = sent[n]
    BY <1>t, <2>2, <2>3 DEF HookTyped
  <2>5. sent[m].at = 0 /\ UNCHANGED <<now, handler, limiter, keys, made, live, editions, restarted, admitted>>
    BY <1>8 DEF WH!Sign
  <2>6. HookTyped'
    BY <1>t, <2>4, <2>5 DEF HookTyped
  <2>9. \A n \in Messages : sent'[n].by <= now
    <3>1. sent'[m].by = now /\ now \in Nat
      BY <1>t, <2>2, <2>3, WebhookAssumption DEF HookTyped
    <3> QED BY <2>4, <3>1 DEF HookInv
  <2>7. \A h \in Handlers : InTime(handler[h], sent', now)
    BY <1>t, <2>4, <2>5 DEF HookInv, InTime, HookTyped, Request
  <2>8. editions = 1 /\ ~restarted => KeyKnown(handler, sent', keys, made) /\ FirstRun(handler, sent', made)
    <3> SUFFICES ASSUME editions = 1, ~restarted PROVE KeyKnown(handler, sent', keys, made) /\ FirstRun(handler, sent', made)
      OBVIOUS
    <3>0. made \subseteq Messages /\ \A h \in Handlers : handler[h] \in Request
      BY <1>t DEF HookTyped
    <3>1. KeyKnown(handler, sent', keys, made)
      BY <2>4, <2>5, <3>0 DEF HookInv, KeyKnown
    <3>2. m \notin made
      BY <2>5 DEF HookInv, KeyKnown
    <3>3. \A n \in Messages \ {m} : Refusable(sent', n) <=> Refusable(sent, n)
      BY <2>4 DEF Refusable
    <3>4. FirstRun(handler, sent', made)
      BY <3>0, <3>2, <3>3 DEF HookInv, FirstRun, Request
    <3> QED BY <3>1, <3>4
  <2> QED BY <2>5, <2>6, <2>7, <2>8, <2>9 DEF HookInv
<1>9. CASE WH!EditWorkflow
  <2>1. /\ editions' = editions + 1 /\ live' \in {0, editions + 1} /\ editions < MaxEditions
        /\ UNCHANGED <<now, sent, handler, limiter, keys, made, restarted, admitted>>
    BY <1>9 DEF WH!EditWorkflow
  <2>2. HookTyped' /\ editions' # 1
    BY <1>t, <2>1, WebhookAssumption DEF HookTyped
  <2>3. \A h \in Handlers : KnowsEdition(handler[h], editions')
    <3>1. \A h \in Handlers : handler[h].edition \in Nat
      BY <1>t DEF HookTyped, Request
    <3>2. editions \in Nat
      BY <1>t, WebhookAssumption DEF HookTyped
    <3> QED BY <2>1, <3>1, <3>2 DEF HookInv, KnowsEdition
  <2> QED BY <2>1, <2>2, <2>3 DEF HookInv
<1>10. CASE WH!Forget
  <2>1. /\ live = 0 /\ keys' = [m \in Messages |-> 0] /\ limiter' = WH!NoLimiter
        /\ UNCHANGED <<now, sent, handler, made, live, editions, restarted, admitted>>
    BY <1>10 DEF WH!Forget
  <2>2. editions # 1
    BY <2>1 DEF HookInv
  <2>3. HookTyped'
    BY <1>t, <2>1, WebhookAssumption DEF HookTyped, WH!NoLimiter
  <2> QED BY <2>1, <2>2, <2>3 DEF HookInv
<1>11. CASE WH!Tick
  <2>1. /\ now < MaxTime /\ now' = now + 1 /\ admitted' = 0
        /\ \A h \in Handlers : handler[h].pc # "idle" => now < handler[h].began + Delay
        /\ UNCHANGED <<sent, handler, keys, made, live, editions, restarted>>
    BY <1>11 DEF WH!Tick
  <2>2. limiter' \in [edition : Nat, tokens : 0 .. Burst] /\ limiter'.edition = limiter.edition
        /\ limiter'.tokens <= Burst
    <3> DEFINE more == [limiter EXCEPT !.tokens = limiter.tokens + 1]
    <3>1. CASE limiter' = limiter
      BY <1>t, <3>1, WebhookAssumption
    <3>2. CASE limiter' = more /\ limiter.tokens < Burst
      <4>1. limiter.tokens + 1 \in 0 .. Burst /\ limiter.tokens + 1 <= Burst
        BY <1>t, <3>2, WebhookAssumption
      <4> QED BY <1>t, <3>2, <4>1
    <3> QED BY <1>11, <1>t, <3>1, <3>2 DEF WH!Tick
  <2>3. HookTyped'
    BY <1>t, <2>1, <2>2, WebhookAssumption DEF HookTyped
  <2>4. \A h \in Handlers : InTime(handler[h], sent, now')
    <3>1. \A h \in Handlers : handler[h].began \in Nat
      BY <1>t DEF HookTyped, Request
    <3>2. now \in Nat
      BY <1>t, WebhookAssumption DEF HookTyped
    <3> QED BY <2>1, <3>1, <3>2, WebhookAssumption DEF HookInv, InTime
  <2>5. editions = 1 /\ ~restarted => Tokens(limiter', admitted')
    <3>1. limiter'.tokens \in Nat
      BY <2>2, WebhookAssumption
    <3> QED BY <1>t, <2>1, <2>2, <3>1 DEF Tokens
  <2>6. \A m \in Messages : sent[m].by <= now'
    <3>1. \A m \in Messages : sent[m].by \in Nat
      BY <1>t DEF HookTyped, Signed
    <3>2. now \in Nat
      BY <1>t, WebhookAssumption DEF HookTyped
    <3> QED BY <2>1, <3>1, <3>2 DEF HookInv
  <2> QED BY <2>1, <2>3, <2>4, <2>5, <2>6 DEF HookInv
<1>13. CASE WH!Restart
  <2>1. /\ restarted' = TRUE /\ handler' = [h \in Handlers |-> WH!Idle]
        /\ keys' = [m \in Messages |-> 0] /\ limiter' = WH!NoLimiter
        /\ UNCHANGED <<now, sent, made, live, editions, admitted>>
    BY <1>13 DEF WH!Restart
  <2>2. HookTyped'
    BY <1>t, <2>1, IdleRequest, WebhookAssumption DEF HookTyped, WH!NoLimiter
  <2>3. \A h \in Handlers : handler'[h].pc = "idle"
    BY <2>1, IdleRequest
  <2>4. \A h \in Handlers : InTime(handler'[h], sent, now) /\ KnowsEdition(handler'[h], editions)
    BY <2>3 DEF InTime, KnowsEdition
  <2>5. Apart(handler')
    BY <2>3 DEF Apart
  <2> QED BY <2>1, <2>2, <2>4, <2>5 DEF HookInv
<1>12. CASE UNCHANGED webhookVars
  BY <1>12 DEF webhookVars, HookInv, HookTyped
<1> QED
  BY <1>1, <1>2, <1>3, <1>4, <1>5, <1>6, <1>7, <1>8, <1>9, <1>10, <1>11, <1>12, <1>13 DEF WH!Next

\* A Workflow that is not edited admits at most its burst.
LEMMA HookImplies == HookInv => WH!TypeOK /\ WH!BurstKept
<1> SUFFICES ASSUME HookInv PROVE WH!TypeOK /\ WH!BurstKept
  OBVIOUS
<1>1. \A h \in Handlers : handler[h].pc \in Places
  BY DEF HookInv, HookTyped, Request
<1>2. live \in 0 .. MaxEditions /\ limiter.tokens \in 0 .. Burst /\ admitted \in Nat
  BY WebhookAssumption DEF HookInv, HookTyped
<1>3. WH!TypeOK
  BY <1>1, <1>2 DEF HookInv, HookTyped, WH!TypeOK, Places
<1>4. WH!BurstKept
  BY <1>2, WebhookAssumption DEF HookInv, Tokens, WH!BurstKept
<1> QED BY <1>3, <1>4

\* A message that is sent again makes no second run.
LEMMA NoSecondRun == HookInv /\ WH!Next => WH!RepeatMakesNoRun
  BY DEF HookInv, FirstRun, Refusable, WH!RepeatMakesNoRun, WH!refusedInTime

\* The webhook server: a signed message delivered again makes no second run, unless two
\* deliveries overlap, the Workflow is edited, the controller restarts or its timestamp
\* is so far ahead that it outlives its key, and a Workflow that is not edited admits at
\* most its burst while the controller runs: for all windows and delays.
THEOREM WebhooksSound == WH!Spec => WH!WebhookSound
<1> DEFINE OK == WH!BurstKept
           Repeat == WH!RepeatMakesNoRun
<1>1. [WH!Next]_webhookVars <=> [WH!Next]_WH!hookVars
  BY DEF webhookVars, WH!hookVars
<1>2. HookInv => OK
  BY HookImplies
<1>3. HookInv /\ [WH!Next]_WH!hookVars => [Repeat]_WH!hookVars
  BY NoSecondRun
<1> HIDE DEF OK, Repeat
<1>4. WH!Spec => []OK /\ [][Repeat]_WH!hookVars
  BY <1>1, <1>2, <1>3, HookInit, HookStep, PTL DEF WH!Spec
<1> QED BY <1>4 DEF OK, Repeat, WH!WebhookSound

\* The same of the webhook server as MCSafety runs it.
THEOREM WebhookPart == PartsSpec => WebhookSound
<1> DEFINE PartInv == part = "webhook" => HookInv
           OK == part = "webhook" => WH!BurstKept
           Repeat == part = "webhook" => WH!RepeatMakesNoRun
<1>1. PartsInit => PartInv
  BY HookInit DEF PartsInit
<1>2. [PartsNext]_allVars => part' = part /\ (part = "webhook" => [WH!Next]_webhookVars)
  BY DEF PartsNext, allVars, only
<1>3. PartInv /\ [PartsNext]_allVars => PartInv'
  BY <1>2, HookStep
<1>4. PartInv => OK
  BY HookImplies
<1>5. PartInv /\ [PartsNext]_allVars => [Repeat]_allVars
  <2> SUFFICES ASSUME PartInv, PartsNext, part = "webhook" PROVE WH!RepeatMakesNoRun
    OBVIOUS
  <2>1. HookInv /\ WH!Next
    BY DEF PartsNext, only
  <2> QED BY <2>1, NoSecondRun
<1> HIDE DEF PartInv, OK, Repeat
<1>6. PartsSpec => []OK /\ [][Repeat]_allVars
  BY <1>1, <1>3, <1>4, <1>5, PTL DEF PartsSpec
<1> QED
  BY <1>6 DEF WebhookSound, OK, Repeat

----------------------------------------------------------------------------
(* Admission (Admission).  Each check that was passed is a fact about the  *)
(* submission, and the executor relies on those facts.                     *)

\* What the stages up to here have found out.
AfterDag == {"deps", "inputs", "webhooks", "actions", "refs", "admitted"}

\* Stages after the references between steps were checked.
AfterDeps == AfterDag \ {"deps"}

\* Stages after the actions were checked.
AfterActions == {"refs", "admitted"}

\* Every stage of admission.
AdmStages == AfterDag \cup {"scope", "dag", "rejected"}

\* The steps depend on steps that exist, and on no cycle of them.
DagFine ==
  /\ \A s \in AD!steps : spec.deps[s] \subseteq AD!steps
  /\ \A S \in (SUBSET AD!steps) \ {{}} : \E s \in S : spec.deps[s] \cap S = {}

\* What a step refers to is among its dependencies.
DepsFine ==
  \A s \in AD!steps :
    /\ AD!extractStepRefs(AD!scanned(s)) \cap AD!steps \subseteq spec.deps[s] \cup {s}
    /\ \A v \in AD!extractVariableRefs(AD!scanned(s)) \ spec.variables :
         AD!producers(v) = {} \/ AD!hasProducerDependency(s, v)

\* At most one action is set.
OneAction(A) == A = {} \/ \E k \in 1 .. 11 : A = {AD!ActionOrder[k]}

\* No step has two actions.
ActionsFine == \A s \in AD!steps : OneAction(spec.acts[s]) /\ OneAction(spec.innerActs[s])

\* What the steps name was found.
RefsFine == \A s \in AD!steps : AD!refName(s) = "" \/ AD!earlier(s) # {} \/ AD!found(s)

\* Of the step in execution: its dependencies are done, and the actions dispatched
\* are those it asks for.
Executing ==
  /\ executing.step \in AD!steps /\ executing.step \notin ended
  /\ spec.deps[executing.step] \subseteq ended
  /\ \/ executing = [step |-> executing.step, chain |-> <<>>]
     \/ executing = [step |-> executing.step, chain |-> <<AD!stepType(spec.acts[executing.step])>>]
     \/ \E x : /\ executing = [step |-> executing.step, chain |-> <<AD!stepType(spec.acts[executing.step]), x>>]
               /\ AD!stepType(spec.acts[executing.step]) = "forEach" /\ spec.place[executing.step] # "template"
                    => x = AD!stepType(spec.innerActs[executing.step])

\* The inductive invariant of admission and of the run that follows.
AdmInv ==
  /\ spec \in Submissions /\ admAt \in AdmStages /\ unverified \in BOOLEAN
  /\ admAt \in AfterDag => DagFine
  /\ admAt \in AfterDeps => DepsFine
  /\ admAt \in AfterActions => ActionsFine
  /\ admAt = "admitted" /\ ~unverified => RefsFine
  /\ ended \subseteq AD!steps
  /\ executing # AD!Nothing => admAt = "admitted" /\ Executing

\* The component's Cardinality is that of FiniteSets.
LEMMA AdmissionCardinality == \A S : AD!Cardinality(S) = Cardinality(S)
  BY DEF AD!Cardinality, Cardinality

\* A count of at most one leaves none or one.
LEMMA FewActions ==
  ASSUME NEW A, A \subseteq ActionNames, AD!Cardinality(A) <= 1
  PROVE  OneAction(A)
<1>1. IsFiniteSet(ActionNames)
  <2>1. IsFiniteSet(1 .. 11)
    <3>1. 1 \in Int /\ 11 \in Int
      OBVIOUS
    <3> QED BY <3>1, FS_Interval
  <2> DEFINE f == [k \in 1 .. 11 |-> AD!ActionOrder[k]]
  <2>2. ActionNames = {f[k] : k \in 1 .. 11}
    BY DEF ActionNames
  <2>3. ActionNames = Range(f)
    BY <2>2 DEF Range
  <2>4. f \in Surjection(1 .. 11, ActionNames)
    BY <2>2 DEF Surjection
  <2> QED BY <2>1, <2>4, FS_Surjection
<1>2. IsFiniteSet(A) /\ Cardinality(A) \in Nat
  BY <1>1, FS_Subset, FS_CardinalityType
<1>3. Cardinality(A) = 0 \/ Cardinality(A) = 1
  BY <1>2, AdmissionCardinality
<1>4. CASE Cardinality(A) = 0
  BY <1>2, <1>4, FS_EmptySet DEF OneAction
<1>5. CASE Cardinality(A) = 1
  <2>1. PICK x : A = {x}
    BY <1>2, <1>5, FS_Singleton
  <2> QED BY <2>1 DEF OneAction, ActionNames
<1> QED BY <1>3, <1>4, <1>5

\* The executor's switch and the validation agree when one action is set.
LEMMA StepTypeIsAction ==
  ASSUME NEW A, OneAction(A)
  PROVE  A \subseteq {AD!stepType(A)}
<1>1. CASE A = {}
  BY <1>1
<1>2. ASSUME NEW k \in 1 .. 11, A = {AD!ActionOrder[k]} PROVE A \subseteq {AD!stepType(A)}
  <2> DEFINE P(i) == i \in DOMAIN AD!ActionOrder /\ AD!ActionOrder[i] \in A
                     /\ \A j \in 1 .. i - 1 : AD!ActionOrder[j] \notin A
  <2>1. DOMAIN AD!ActionOrder = 1 .. 11
    BY DEF AD!ActionOrder
  <2>2. \A j \in 1 .. k - 1 : AD!ActionOrder[j] # AD!ActionOrder[k]
    BY DEF AD!ActionOrder
  <2>3. P(k)
    BY <1>2, <2>1, <2>2
  <2>4. AD!ActionOrder[CHOOSE i \in DOMAIN AD!ActionOrder :
           AD!ActionOrder[i] \in A /\ \A j \in 1 .. i - 1 : AD!ActionOrder[j] \notin A] \in A
    BY <2>3
  <2>5. A # {}
    BY <1>2
  <2>6. AD!stepType(A) \in A
    BY <2>4, <2>5 DEF AD!stepType
  <2> QED BY <1>2, <2>6
<1> QED BY <1>1, <1>2 DEF OneAction

\* A set of naturals has a least element.
LEMMA Least ==
  ASSUME NEW T, T \subseteq Nat, T # {}
  PROVE  \E x \in T : \A y \in T : ~(y < x)
<1>1. \E x \in T : \A y \in T : ~(<<y, x>> \in OpToRel(<, Nat))
  BY NatLessThanWellFounded, WFMin
<1> QED BY <1>1 DEF OpToRel

\* The order of steps is transitive.
LEMMA StepOrder ==
  ASSUME NEW s \in AD!steps, NEW t \in AD!steps, NEW u \in AD!steps, \A x \in AD!steps : spec.order[x] \in Nat,
         spec.order[s] < spec.order[t], spec.order[t] < spec.order[u]
  PROVE  spec.order[s] < spec.order[u]
  OBVIOUS

\* Appending to a chain of none or one.
LEMMA ChainGrows == \A x, y : Append(<<>>, x) = <<x>> /\ Append(<<x>>, y) = <<x, y>>
<1> SUFFICES ASSUME NEW x, NEW y PROVE Append(<<>>, x) = <<x>> /\ Append(<<x>>, y) = <<x, y>>
  OBVIOUS
<1>1. <<x>> \in Seq({x, y}) /\ <<>> \in Seq({x, y})
  OBVIOUS
<1>2. Append(<<>>, x) = <<x>>
  BY <1>1
<1>3. Append(<<x>>, y) = <<x, y>>
  <2>1. /\ Append(<<x>>, y) \in Seq({x, y}) /\ Len(Append(<<x>>, y)) = 2
        /\ Append(<<x>>, y)[1] = x /\ Append(<<x>>, y)[2] = y
    BY <1>1, AppendProperties
  <2>2. <<x, y>> \in Seq({x, y}) /\ Len(<<x, y>>) = 2 /\ <<x, y>>[1] = x /\ <<x, y>>[2] = y
    OBVIOUS
  <2>3. \A i \in 1 .. 2 : Append(<<x>>, y)[i] = <<x, y>>[i]
    BY <2>1, <2>2
  <2> QED BY <2>1, <2>2, <2>3, SeqEqual
<1> QED BY <1>2, <1>3

\* The lengths of short sequences.
LEMMA ChainLength == \A x, y : Len(<<>>) = 0 /\ Len(<<x>>) = 1 /\ Len(<<x, y>>) = 2
  OBVIOUS

\* Among steps that refer to one name there is a first one.
LEMMA FirstReference ==
  ASSUME spec \in Submissions, NEW s \in AD!steps, AD!refName(s) # "", AD!earlier(s) # {}
  PROVE  \E t \in AD!earlier(s) : AD!earlier(t) = {}
<1> DEFINE T == {spec.order[t] : t \in AD!earlier(s)}
<1>1. \A t \in AD!steps : spec.order[t] \in Nat
  BY SubmissionsAssumption DEF AD!steps
<1>2. T \subseteq Nat /\ T # {}
  BY <1>1 DEF AD!earlier
<1>4. PICK x \in T : \A y \in T : ~(y < x)
  <2> HIDE DEF T
  <2> QED BY <1>2, Least
<1>5. PICK t \in AD!earlier(s) : x = spec.order[t]
  OBVIOUS
<1>6. ASSUME NEW u \in AD!earlier(t) PROVE FALSE
  <2>1. u \in AD!steps /\ AD!refName(u) # "" /\ AD!seenKey(u) = AD!seenKey(s) /\ spec.order[u] < spec.order[t]
    BY <1>5, <1>6 DEF AD!earlier
  <2>2. t \in AD!steps /\ spec.order[t] < spec.order[s]
    BY <1>5 DEF AD!earlier
  <2>3. spec.order[u] < spec.order[s]
    BY <1>1, <2>1, <2>2, StepOrder
  <2>4. u \in AD!earlier(s)
    BY <2>1, <2>3 DEF AD!earlier
  <2> QED BY <1>4, <1>5, <2>1, <2>4
<1> QED BY <1>5, <1>6

\* A Workflow is submitted.
LEMMA AdmissionInit == AD!Init => AdmInv
<1> SUFFICES ASSUME AD!Init PROVE AdmInv
  OBVIOUS
<1>1. admAt \in {"scope", "dag"}
  BY DEF AD!Init, AD!firstStage
<1> QED BY <1>1 DEF AD!Init, AdmInv, AdmStages, AfterDag, AfterDeps, AfterActions

\* What was found out about a Workflow stays true of it.
LEMMA SameSpec ==
  ASSUME spec' = spec
  PROVE  /\ DagFine' <=> DagFine
         /\ DepsFine' <=> DepsFine
         /\ ActionsFine' <=> ActionsFine
         /\ RefsFine' <=> RefsFine
         /\ AD!steps' = AD!steps
<1>1. AD!steps' = AD!steps
  BY DEF AD!steps
<1>2. DagFine' <=> DagFine
  BY <1>1 DEF DagFine
<1>3. ActionsFine' <=> ActionsFine
  BY <1>1 DEF ActionsFine
<1>4. \A s : AD!scanned(s)' = AD!scanned(s)
  BY DEF AD!scanned, AD!collectCELStringsFromStep, AD!collectCELStringsFromForEachStep
<1>5. \A v : AD!producers(v)' = AD!producers(v)
  BY <1>1 DEF AD!producers
<1>6. \A s, v : AD!hasProducerDependency(s, v)' <=> AD!hasProducerDependency(s, v)
  BY <1>5 DEF AD!hasProducerDependency
<1>7. DepsFine' <=> DepsFine
  BY <1>1, <1>4, <1>5, <1>6 DEF DepsFine, AD!extractStepRefs, AD!extractVariableRefs
<1>8. \A s : AD!refName(s)' = AD!refName(s)
  BY DEF AD!refName
<1>9. \A s : AD!earlier(s)' = AD!earlier(s)
  BY <1>1, <1>8 DEF AD!earlier, AD!seenKey
<1>10. \A s : AD!found(s)' <=> AD!found(s)
  BY <1>8 DEF AD!found, AD!object, AD!namespaceOr
<1>11. RefsFine' <=> RefsFine
  BY <1>1, <1>8, <1>9, <1>10 DEF RefsFine
<1> QED BY <1>1, <1>2, <1>3, <1>7, <1>11

\* A stage of the webhook.
LEMMA StagePassed ==
  ASSUME AdmInv, NEW here \in AdmStages \ {"admitted"}, NEW ok, NEW next \in AdmStages,
         AD!stage(here, ok, next),
         ok => /\ next \in AfterDag => DagFine
               /\ next \in AfterDeps => DepsFine
               /\ next \in AfterActions => ActionsFine
               /\ next = "admitted" => RefsFine
  PROVE  AdmInv'
<1>1. admAt = here /\ admAt' = (IF ok THEN next ELSE "rejected") /\ UNCHANGED <<spec, unverified, ended, executing>>
  BY DEF AD!stage
<1>2. executing = AD!Nothing
  BY <1>1 DEF AdmInv
<1>3. /\ DagFine' <=> DagFine
      /\ DepsFine' <=> DepsFine
      /\ ActionsFine' <=> ActionsFine
      /\ RefsFine' <=> RefsFine
      /\ AD!steps' = AD!steps
  BY <1>1, SameSpec
<1>4. AD!Nothing' = AD!Nothing
  BY DEF AD!Nothing
<1>5. /\ spec' \in Submissions /\ admAt' \in AdmStages /\ unverified' \in BOOLEAN
      /\ ended' \subseteq AD!steps' /\ executing' = AD!Nothing
  BY <1>1, <1>2, <1>3 DEF AdmInv, AdmStages
<1>6. CASE ok
  BY <1>1, <1>3, <1>4, <1>5, <1>6 DEF AdmInv
<1>7. CASE ~ok
  BY <1>1, <1>4, <1>5, <1>7 DEF AdmInv, AfterDag, AfterDeps, AfterActions
<1> QED BY <1>6, <1>7

\* Every check of the admission webhook, passed or not.
LEMMA WebhookStep ==
  ASSUME AdmInv,
         \/ AD!validateEventScope \/ AD!BuildDAG \/ AD!ValidateStepDependencies \/ AD!ValidateInputRefs
         \/ AD!validateWebhookTriggers \/ AD!validateActions \/ AD!LookUp \/ AD!LookUpFails
  PROVE  AdmInv'
<1>a. /\ AdmStages = {"scope", "dag", "deps", "inputs", "webhooks", "actions", "refs", "admitted", "rejected"}
      /\ AfterDag = {"deps", "inputs", "webhooks", "actions", "refs", "admitted"}
      /\ AfterDeps = {"inputs", "webhooks", "actions", "refs", "admitted"}
      /\ AfterActions = {"refs", "admitted"}
  BY DEF AdmStages, AfterDag, AfterDeps, AfterActions
<1>s. \A here, ok, next : AD!stage(here, ok, next) => admAt = here
  BY DEF AD!stage
<1>1. CASE AD!validateEventScope
  BY <1>a, <1>1, StagePassed DEF AD!validateEventScope
<1>2. CASE AD!BuildDAG
  <2> DEFINE ok == /\ \A s \in AD!steps : spec.deps[s] \subseteq AD!steps
                   /\ \A S \in (SUBSET AD!steps) \ {{}} : \E s \in S : spec.deps[s] \cap S = {}
  <2>1. AD!stage("dag", ok, "deps")
    BY <1>2 DEF AD!BuildDAG
  <2>2. ok => DagFine
    BY DEF DagFine
  <2> HIDE DEF ok
  <2> QED BY <1>a, <2>1, <2>2, StagePassed
<1>3. CASE AD!ValidateStepDependencies
  <2> DEFINE ok == \A s \in AD!steps :
          /\ AD!extractStepRefs(AD!scanned(s)) \cap AD!steps \subseteq spec.deps[s] \cup {s}
          /\ \A v \in AD!extractVariableRefs(AD!scanned(s)) \ spec.variables :
               AD!producers(v) = {} \/ AD!hasProducerDependency(s, v)
  <2>1. AD!stage("deps", ok, "inputs")
    BY <1>3 DEF AD!ValidateStepDependencies
  <2>2. ok => DepsFine
    BY DEF DepsFine
  <2> HIDE DEF ok
  <2>3. DagFine
    BY <1>a, <1>s, <2>1 DEF AdmInv
  <2> QED BY <1>a, <2>1, <2>2, <2>3, StagePassed
<1>4. CASE AD!ValidateInputRefs
  <2> DEFINE ok == /\ \A s \in AD!steps : AD!extractInputRefs(AD!scanned(s)) \subseteq spec.inputs
                   /\ AD!extractInputRefs(spec.ownReads) \subseteq spec.inputs
  <2>1. AD!stage("inputs", ok, "webhooks")
    BY <1>4 DEF AD!ValidateInputRefs
  <2> HIDE DEF ok
  <2>3. DagFine /\ DepsFine
    BY <1>a, <1>s, <2>1 DEF AdmInv
  <2> QED BY <1>a, <2>1, <2>3, StagePassed
<1>5. CASE AD!validateWebhookTriggers
  <2>1. AD!stage("webhooks", spec.webhooksOK, "actions")
    BY <1>5 DEF AD!validateWebhookTriggers
  <2>3. DagFine /\ DepsFine
    BY <1>a, <1>s, <2>1 DEF AdmInv
  <2> QED BY <1>a, <2>1, <2>3, StagePassed
<1>6. CASE AD!validateActions
  <2> DEFINE ok == \A s \in AD!steps :
          /\ AD!validateStepExclusiveAction(s) /\ AD!validateForEachStepExclusiveAction(s)
          /\ AD!validateExternalAgentRef(s) /\ AD!validateOpenReport(s) /\ AD!validateWaitForCallback(s)
  <2>1. AD!stage("actions", ok, "refs")
    BY <1>6 DEF AD!validateActions
  <2>2. ASSUME ok, NEW s \in AD!steps PROVE OneAction(spec.acts[s]) /\ OneAction(spec.innerActs[s])
    <3>1. AD!Cardinality(spec.acts[s]) <= 1 /\ AD!Cardinality(spec.innerActs[s]) <= 1
      BY <2>2 DEF AD!validateStepExclusiveAction, AD!validateForEachStepExclusiveAction
    <3>2. spec.acts[s] \subseteq ActionNames /\ spec.innerActs[s] \subseteq ActionNames
      BY SubmissionsAssumption DEF AdmInv, AD!steps
    <3> QED BY <3>1, <3>2, FewActions
  <2>4. ok => ActionsFine
    BY <2>2 DEF ActionsFine
  <2> HIDE DEF ok
  <2>3. DagFine /\ DepsFine
    BY <1>a, <1>s, <2>1 DEF AdmInv
  <2> QED BY <1>a, <2>1, <2>3, <2>4, StagePassed
<1>7. CASE AD!LookUp
  <2> DEFINE ok == \A s \in AD!steps : AD!refName(s) = "" \/ AD!earlier(s) # {} \/ AD!found(s)
  <2>1. AD!stage("refs", ok, "admitted")
    BY <1>7 DEF AD!LookUp
  <2>2. ok => RefsFine
    BY DEF RefsFine
  <2> HIDE DEF ok
  <2>3. DagFine /\ DepsFine /\ ActionsFine
    BY <1>a, <1>s, <2>1 DEF AdmInv
  <2> QED BY <1>a, <2>1, <2>2, <2>3, StagePassed
<1>8. CASE AD!LookUpFails
  <2>1. /\ admAt = "refs" /\ admAt' = "admitted" /\ unverified' = TRUE
        /\ UNCHANGED <<spec, ended, executing>>
    BY <1>8 DEF AD!LookUpFails
  <2>2. DagFine /\ DepsFine /\ ActionsFine /\ executing = AD!Nothing
    BY <1>a, <2>1 DEF AdmInv
  <2>3. AD!Nothing' = AD!Nothing
    BY DEF AD!Nothing
  <2>4. DagFine' /\ DepsFine' /\ ActionsFine' /\ AD!steps' = AD!steps
    BY <2>1, <2>2, SameSpec
  <2> QED BY <1>a, <2>1, <2>2, <2>3, <2>4 DEF AdmInv
<1> QED BY <1>1, <1>2, <1>3, <1>4, <1>5, <1>6, <1>7, <1>8

\* Of the step in execution, one more action is dispatched or the step ends.
LEMMA ExecutorStep ==
  ASSUME AdmInv,
         \/ AD!executeStep \/ AD!executeForEach \/ AD!executeStepTemplate \/ AD!StepEnds
         \/ \E s \in AD!steps : AD!checkMatchConditions(s)
  PROVE  AdmInv'
<1>n. /\ AD!Nothing' = AD!Nothing /\ AD!Nothing = [step |-> "", chain |-> <<>>]
      /\ \A s \in AD!steps : s # ""
  BY SubmissionsAssumption DEF AdmInv, AD!Nothing, AD!steps
<1>x. executing # AD!Nothing => admAt = "admitted" /\ Executing
  BY DEF AdmInv
<1>q. ASSUME UNCHANGED <<spec, admAt, unverified>>, ended' \subseteq AD!steps,
             executing' # AD!Nothing => admAt = "admitted" /\ Executing'
      PROVE  AdmInv'
  <2>1. /\ DagFine' <=> DagFine
        /\ DepsFine' <=> DepsFine
        /\ ActionsFine' <=> ActionsFine
        /\ RefsFine' <=> RefsFine
        /\ AD!steps' = AD!steps
    BY <1>q, SameSpec
  <2> QED BY <1>n, <1>q, <2>1 DEF AdmInv
<1>t. \A A : AD!stepType(A)' = AD!stepType(A)
  BY DEF AD!stepType, AD!ActionOrder
<1>1. ASSUME NEW s \in AD!steps, AD!checkMatchConditions(s) PROVE AdmInv'
  <2>1. /\ admAt = "admitted" /\ s \notin ended /\ spec.deps[s] \subseteq ended
        /\ UNCHANGED <<spec, admAt, unverified>> /\ executing = AD!Nothing
    BY <1>1 DEF AD!checkMatchConditions, AD!ready
  <2>2. CASE ended' = ended \cup {s} /\ UNCHANGED executing
    BY <1>q, <2>1, <2>2 DEF AdmInv
  <2>3. CASE executing' = [step |-> s, chain |-> <<>>] /\ UNCHANGED ended
    <3>1. Executing'
      BY <2>1, <2>3 DEF Executing, AD!steps
    <3> QED BY <1>q, <2>1, <2>3, <3>1 DEF AdmInv
  <2> QED BY <1>1, <2>2, <2>3 DEF AD!checkMatchConditions
<1>2. CASE AD!StepEnds
  <2>1. /\ executing # AD!Nothing /\ ended' = ended \cup {executing.step} /\ executing' = AD!Nothing
        /\ UNCHANGED <<spec, admAt, unverified>>
    BY <1>2 DEF AD!StepEnds, AD!now
  <2>2. executing.step \in AD!steps
    BY <1>x, <2>1 DEF Executing
  <2> QED BY <1>q, <2>1, <2>2 DEF AdmInv
<1>3. ASSUME executing # AD!Nothing, NEW A, AD!dispatch(A),
             \/ executing.chain = <<>> /\ A = spec.acts[executing.step]
             \/ /\ executing.chain = <<AD!stepType(spec.acts[executing.step])>>
                /\ AD!stepType(spec.acts[executing.step]) = "forEach" /\ spec.place[executing.step] # "template"
                      => A = spec.innerActs[executing.step]
      PROVE  AdmInv'
  <2> DEFINE s == executing.step
             first == AD!stepType(spec.acts[s])
  <2>1. /\ executing' = [executing EXCEPT !.chain = Append(executing.chain, AD!stepType(A))]
        /\ UNCHANGED <<spec, admAt, unverified, ended>>
    BY <1>3 DEF AD!dispatch
  <2>2. admAt = "admitted" /\ Executing
    BY <1>x, <1>3
  <2>3. executing = [step |-> s, chain |-> executing.chain]
    BY <2>2 DEF Executing
  <2>4. executing' = [step |-> s, chain |-> Append(executing.chain, AD!stepType(A))]
    BY <2>1, <2>3
  <2>5. \/ executing' = [step |-> s, chain |-> <<first>>]
        \/ /\ executing' = [step |-> s, chain |-> <<first, AD!stepType(A)>>]
           /\ first = "forEach" /\ spec.place[s] # "template" => AD!stepType(A) = AD!stepType(spec.innerActs[s])
    <3>1. CASE executing.chain = <<>> /\ A = spec.acts[s]
      <4>1. Append(executing.chain, AD!stepType(A)) = <<AD!stepType(A)>>
        BY <3>1
      <4> QED BY <2>4, <3>1, <4>1
    <3>2. CASE /\ executing.chain = <<first>>
               /\ first = "forEach" /\ spec.place[s] # "template" => A = spec.innerActs[s]
      <4>1. Append(executing.chain, AD!stepType(A)) = <<first, AD!stepType(A)>>
        BY <3>2, ChainGrows
      <4>2. first = "forEach" /\ spec.place[s] # "template" => AD!stepType(A) = AD!stepType(spec.innerActs[s])
        BY <3>2
      <4> QED BY <2>4, <4>1, <4>2
    <3> QED BY <1>3, <3>1, <3>2
  <2>6. executing'.step = s /\ s \in AD!steps /\ s \notin ended /\ spec.deps[s] \subseteq ended
    BY <2>2, <2>4 DEF Executing
  <2>7. AD!steps' = AD!steps
    BY <2>1, SameSpec
  <2>8. Executing'
    <3> HIDE DEF first
    <3>1. CASE executing' = [step |-> s, chain |-> <<first>>]
      BY <1>t, <2>1, <2>6, <2>7, <3>1 DEF Executing, first
    <3>2. CASE /\ executing' = [step |-> s, chain |-> <<first, AD!stepType(A)>>]
               /\ first = "forEach" /\ spec.place[s] # "template" => AD!stepType(A) = AD!stepType(spec.innerActs[s])
      <4>1. \E x : /\ executing' = [step |-> s, chain |-> <<first, x>>]
                   /\ first = "forEach" /\ spec.place[s] # "template" => x = AD!stepType(spec.innerActs[s])
        BY <3>2
      <4> QED BY <1>t, <2>1, <2>6, <2>7, <4>1 DEF Executing, first
    <3> QED BY <2>5, <3>1, <3>2
  <2> QED BY <1>q, <2>1, <2>2, <2>8 DEF AdmInv
<1>4. CASE AD!executeStep
  BY <1>3, <1>4 DEF AD!executeStep, AD!now
<1>c. ASSUME executing.chain # <<>>, executing # AD!Nothing
      PROVE  /\ executing.chain[1] = AD!stepType(spec.acts[executing.step])
             /\ Len(executing.chain) = 1 => executing.chain = <<AD!stepType(spec.acts[executing.step])>>
  BY <1>x, <1>c DEF Executing
<1>5. CASE AD!executeForEach
  <2>1. executing.chain = <<"forEach">> /\ AD!dispatch(spec.innerActs[executing.step])
    BY <1>5 DEF AD!executeForEach, AD!now
  <2>2. executing # AD!Nothing
    <3>1. AD!Nothing.chain = <<>> /\ Len(<<>>) = 0
      BY <1>n
    <3>2. Len(executing.chain) = 1
      BY <2>1
    <3> QED BY <3>1, <3>2
  <2>3. executing.chain = <<AD!stepType(spec.acts[executing.step])>>
    BY <1>c, <2>1, <2>2
  <2> QED BY <1>3, <2>1, <2>2, <2>3
<1>6. CASE AD!executeStepTemplate
  <2>1. /\ \/ executing.chain = <<"stepTemplateRef">>
           \/ executing.chain = <<"forEach">> /\ spec.place[executing.step] = "template"
        /\ AD!dispatch(spec.templateActs)
    BY <1>6 DEF AD!executeStepTemplate, AD!now
  <2>2. executing # AD!Nothing
    <3>1. AD!Nothing.chain = <<>> /\ Len(<<>>) = 0
      BY <1>n
    <3>2. Len(executing.chain) = 1
      BY <2>1
    <3> QED BY <3>1, <3>2
  <2>3. executing.chain = <<AD!stepType(spec.acts[executing.step])>>
    BY <1>c, <2>1, <2>2
  <2>4. AD!stepType(spec.acts[executing.step]) = "forEach" => spec.place[executing.step] = "template"
    BY <2>1, <2>3
  <2> QED BY <1>3, <2>1, <2>2, <2>3, <2>4
<1> QED BY <1>1, <1>2, <1>4, <1>5, <1>6

\* The checks and the run that follows keep the invariant.
LEMMA AdmissionStep == AdmInv /\ [AD!Next]_admissionVars => AdmInv'
<1> SUFFICES ASSUME AdmInv, [AD!Next]_admissionVars PROVE AdmInv'
  OBVIOUS
<1>1. CASE AD!Next
  BY <1>1, WebhookStep, ExecutorStep DEF AD!Next
<1>2. CASE UNCHANGED admissionVars
  <2>1. UNCHANGED <<spec, admAt, unverified, ended, executing>>
    BY <1>2 DEF admissionVars
  <2>2. AD!Nothing' = AD!Nothing /\ \A A : AD!stepType(A)' = AD!stepType(A)
    BY DEF AD!Nothing, AD!stepType, AD!ActionOrder
  <2>3. AD!steps' = AD!steps
    BY <2>1, SameSpec
  <2>4. Executing' <=> Executing
    BY <2>1, <2>2, <2>3 DEF Executing
  <2> QED BY <2>1, <2>2, <2>3, <2>4, SameSpec DEF AdmInv
<1> QED BY <1>1, <1>2

\* What was admitted can run.
LEMMA AdmissionImplies == AdmInv => AD!TypeOK /\ AD!AdmittedCanRun
<1> SUFFICES ASSUME AdmInv PROVE AD!TypeOK /\ AD!AdmittedCanRun
  OBVIOUS
<1>n. AD!Nothing = [step |-> "", chain |-> <<>>]
  BY DEF AD!Nothing
<1>x. executing # AD!Nothing => admAt = "admitted" /\ Executing /\ DagFine /\ DepsFine /\ ActionsFine
  BY DEF AdmInv, AfterDag, AfterDeps, AfterActions
<1>1. AD!ReadsComeAfterWrites
  <2> SUFFICES ASSUME executing # AD!Nothing
               PROVE  /\ AD!extractStepRefs(AD!scanned(AD!now)) \cap AD!steps \subseteq ended \cup {AD!now}
                      /\ \A v \in AD!extractVariableRefs(AD!scanned(AD!now)) \ spec.variables :
                           AD!producers(v) = {} \/ AD!producers(v) \cap (ended \cup {AD!now}) # {}
    <3>1. AD!reads(AD!now, "steps") \subseteq AD!extractStepRefs(AD!scanned(AD!now))
      BY DEF AD!reads, AD!extractStepRefs
    <3>2. AD!reads(AD!now, "variables") \subseteq AD!extractVariableRefs(AD!scanned(AD!now))
      BY DEF AD!reads, AD!extractVariableRefs
    <3> QED BY <3>1, <3>2 DEF AD!ReadsComeAfterWrites
  <2>1. AD!now \in AD!steps /\ spec.deps[AD!now] \subseteq ended
    BY <1>x DEF Executing, AD!now
  <2> QED BY <1>x, <2>1 DEF DepsFine, AD!hasProducerDependency
<1>2. AD!NeverStuck
  <2> SUFFICES ASSUME admAt = "admitted", executing = AD!Nothing, ended # AD!steps
               PROVE  \E s \in AD!steps : AD!ready(s)
    BY DEF AD!NeverStuck
  <2> DEFINE S == AD!steps \ ended
  <2>1. S \in (SUBSET AD!steps) \ {{}} /\ DagFine /\ ended \subseteq AD!steps
    <3>1. DagFine /\ ended \subseteq AD!steps
      BY DEF AdmInv, AfterDag
    <3>2. S # {} /\ S \in SUBSET AD!steps
      BY <3>1
    <3> HIDE DEF S
    <3> QED BY <3>1, <3>2
  <2>2. PICK s \in S : spec.deps[s] \cap S = {}
    BY <2>1 DEF DagFine
  <2>3. spec.deps[s] \subseteq ended
    BY <2>1, <2>2 DEF DagFine
  <2> QED BY <2>2, <2>3 DEF AD!ready
<1>3. AD!NothingIgnored
  <2>1. CASE executing = AD!Nothing
    <3>1. Len(executing.chain) = 0
      BY <1>n, <2>1
    <3> QED BY <3>1 DEF AD!NothingIgnored
  <2>2. CASE executing # AD!Nothing
    <3> DEFINE s == executing.step
    <3>1. spec.acts[s] \subseteq {AD!stepType(spec.acts[s])} /\ spec.innerActs[s] \subseteq {AD!stepType(spec.innerActs[s])}
      BY <1>x, <2>2, StepTypeIsAction DEF ActionsFine, Executing
    <3>2. Len(executing.chain) >= 1 => executing.chain[1] = AD!stepType(spec.acts[s])
      BY <1>x, <2>2 DEF Executing
    <3>3. Len(executing.chain) = 2 /\ executing.chain[1] = "forEach" /\ spec.place[s] # "template"
             => executing.chain[2] = AD!stepType(spec.innerActs[s])
      BY <1>x, <2>2 DEF Executing
    <3> QED BY <3>1, <3>2, <3>3 DEF AD!NothingIgnored, AD!now
  <2> QED BY <2>1, <2>2
<1>4. AD!ReferencesExist
  <2> SUFFICES ASSUME admAt = "admitted", ~unverified, NEW s \in AD!steps, AD!refName(s) # "",
                      \A t \in AD!earlier(s) : spec.ref[t].ns = spec.ref[s].ns
               PROVE  AD!found(s)
    BY DEF AD!ReferencesExist, AD!found, AD!object, AD!namespaceOr
  <2>1. RefsFine /\ spec \in Submissions
    BY DEF AdmInv
  <2>2. CASE AD!earlier(s) = {}
    BY <2>1, <2>2 DEF RefsFine
  <2>3. CASE AD!earlier(s) # {}
    <3>1. PICK t \in AD!earlier(s) : AD!earlier(t) = {}
      BY <2>1, <2>3, FirstReference
    <3>2. /\ t \in AD!steps /\ AD!refName(t) # "" /\ spec.ref[t].ns = spec.ref[s].ns
          /\ spec.ref[t].kind = spec.ref[s].kind /\ AD!refName(t) = AD!refName(s)
      BY <3>1 DEF AD!earlier, AD!seenKey
    <3>3. AD!found(t)
      BY <2>1, <3>1, <3>2 DEF RefsFine
    <3> QED BY <3>2, <3>3 DEF AD!found, AD!object, AD!namespaceOr
  <2> QED BY <2>2, <2>3
<1>5. AD!TypeOK
  <2>1. AD!steps \subseteq Names
    BY SubmissionsAssumption DEF AdmInv, AD!steps
  <2>2. executing.step \in Names \cup {""} /\ Len(executing.chain) <= 2
    <3>1. CASE executing = AD!Nothing
      <4>1. executing.step = "" /\ executing.chain = <<>> /\ Len(<<>>) = 0
        BY <1>n, <3>1
      <4>2. Len(executing.chain) = 0
        BY <4>1
      <4>3. Len(executing.chain) <= 2
        BY <4>2
      <4> QED BY <4>1, <4>3
    <3>2. CASE executing # AD!Nothing
      <4>1. Executing
        BY <1>x, <3>2
      <4>2. executing.chain = <<>> \/ \E x, y : executing.chain = <<x>> \/ executing.chain = <<x, y>>
        BY <4>1 DEF Executing
      <4>3. Len(executing.chain) \in {0, 1, 2}
        BY <4>2, ChainLength
      <4>4. Len(executing.chain) <= 2
        <5>1. \A n \in {0, 1, 2} : n <= 2
          OBVIOUS
        <5> QED BY <4>3, <5>1
      <4> QED BY <2>1, <4>1, <4>4 DEF Executing
    <3> QED BY <3>1, <3>2
  <2> QED BY <2>1, <2>2 DEF AdmInv, AD!TypeOK, AdmStages, AfterDag
<1> QED BY <1>1, <1>2, <1>3, <1>4, <1>5 DEF AD!AdmittedCanRun

\* The admission webhook and the executor: in a Workflow that was admitted a step starts
\* after what it reads by a name the webhook sees, the run is never stuck, no action is
\* silently left out, and unless a lookup failed what a step names exists for a run in
\* the Workflow's namespace: for every set of submissions.
THEOREM AdmissionSound == AD!Spec => [](AD!TypeOK /\ AD!AdmittedCanRun)
<1>1. [AD!Next]_admissionVars <=> [AD!Next]_AD!admVars
  BY DEF admissionVars, AD!admVars
<1> QED
  BY <1>1, AdmissionInit, AdmissionStep, AdmissionImplies, PTL DEF AD!Spec

\* The same of admission as MCSafety runs it.
THEOREM AdmissionPart == PartsSpec => []AdmittedCanRun
<1> DEFINE PartInv == part = "admission" => AdmInv
<1>1. PartsInit => PartInv
  BY AdmissionInit DEF PartsInit
<1>2. [PartsNext]_allVars => part' = part /\ (part = "admission" => [AD!Next]_admissionVars)
  BY DEF PartsNext, allVars, only
<1>3. PartInv /\ [PartsNext]_allVars => PartInv'
  BY <1>2, AdmissionStep
<1>4. PartInv => AdmittedCanRun
  BY AdmissionImplies DEF AdmittedCanRun
<1> QED
  BY <1>1, <1>3, <1>4, PTL DEF PartsSpec

----------------------------------------------------------------------------
(* The walks over a Workflow (SecretWalk).  Every step of a visited        *)
(* Workflow is waiting or done, so a walk that ends has been wherever the  *)
(* runner will go.                                                         *)

\* Replacing the first of a list by others.
LEMMA NextItems ==
  ASSUME NEW q, IsSeq(q), q # <<>>, NEW m, IsSeq(m)
  PROVE  /\ IsSeq(m \o Tail(q)) /\ Head(q) \in Elems(q)
         /\ Elems(m) \subseteq Elems(m \o Tail(q))
         /\ Elems(m \o Tail(q)) \subseteq Elems(m) \cup Elems(q)
         /\ Elems(q) \subseteq Elems(m \o Tail(q)) \cup {Head(q)}
<1> DEFINE S == Elems(q) \cup Elems(m)
           t == Tail(q)
           r == m \o t
<1>1. q \in Seq(S) /\ m \in Seq(S)
  <2>1. q \in Seq(Elems(q)) /\ m \in Seq(Elems(m))
    BY DEF IsSeq
  <2> HIDE DEF Elems
  <2>2. q \in Seq(S)
    BY <2>1, SeqMonotonic
  <2>3. m \in Seq(S)
    BY <2>1, SeqMonotonic
  <2> QED BY <2>2, <2>3
<1> HIDE DEF S
<1>2. /\ t \in Seq(S) /\ Len(t) = Len(q) - 1 /\ Len(q) \in Nat /\ Len(q) >= 1
      /\ \A j \in 1 .. Len(t) : t[j] = q[j + 1]
      /\ Head(q) = q[1]
  BY <1>1
<1>3. /\ r \in Seq(S) /\ Len(r) = Len(m) + Len(t) /\ Len(m) \in Nat
      /\ \A j \in 1 .. Len(m) : r[j] = m[j]
      /\ \A j \in 1 .. Len(t) : r[Len(m) + j] = t[j]
  <2>1. t \in Seq(S)
    BY <1>2
  <2> HIDE DEF t
  <2>2. /\ r \in Seq(S) /\ Len(r) = Len(m) + Len(t) /\ Len(m) \in Nat /\ Len(t) \in Nat
        /\ \A i \in 1 .. Len(m) + Len(t) : r[i] = IF i <= Len(m) THEN m[i] ELSE t[i - Len(m)]
    BY <1>1, <2>1, ConcatProperties
  <2> HIDE DEF r
  <2>3. \A j \in 1 .. Len(m) : r[j] = m[j]
    BY <2>2
  <2>4. ASSUME NEW j \in 1 .. Len(t) PROVE r[Len(m) + j] = t[j]
    <3>1. Len(m) + j \in 1 .. Len(m) + Len(t) /\ ~(Len(m) + j <= Len(m)) /\ (Len(m) + j) - Len(m) = j
      BY <2>2
    <3> QED BY <2>2, <3>1
  <2> QED BY <2>2, <2>3, <2>4
<1> HIDE DEF t, r
<1>4. Head(q) \in Elems(q)
  BY <1>2 DEF Elems
<1>5. Elems(m) \subseteq Elems(r)
  <2> SUFFICES ASSUME NEW j \in 1 .. Len(m) PROVE m[j] \in Elems(r)
    BY DEF Elems
  <2>1. j \in 1 .. Len(r) /\ r[j] = m[j]
    BY <1>2, <1>3
  <2> QED BY <2>1 DEF Elems
<1>6. Elems(q) \subseteq Elems(r) \cup {Head(q)}
  <2> SUFFICES ASSUME NEW j \in 1 .. Len(q), j # 1 PROVE q[j] \in Elems(r)
    BY <1>2 DEF Elems
  <2>1. j - 1 \in 1 .. Len(t) /\ (j - 1) + 1 = j
    BY <1>2
  <2>2. Len(m) + (j - 1) \in 1 .. Len(r)
    BY <1>2, <1>3
  <2>3. r[Len(m) + (j - 1)] = q[j]
    BY <1>2, <1>3, <2>1
  <2> QED BY <2>2, <2>3 DEF Elems
<1>7. Elems(r) \subseteq Elems(m) \cup Elems(q)
  <2> SUFFICES ASSUME NEW j \in 1 .. Len(r) PROVE r[j] \in Elems(m) \cup Elems(q)
    BY DEF Elems
  <2>1. CASE j <= Len(m)
    BY <1>3, <2>1 DEF Elems
  <2>2. CASE ~(j <= Len(m))
    <3>1. j - Len(m) \in 1 .. Len(t) /\ Len(m) + (j - Len(m)) = j
      BY <1>2, <1>3, <2>2
    <3>2. r[j] = t[j - Len(m)] /\ t[j - Len(m)] = q[(j - Len(m)) + 1]
      BY <1>2, <1>3, <3>1
    <3>3. (j - Len(m)) + 1 \in 1 .. Len(q)
      BY <1>2, <3>1
    <3> QED BY <3>2, <3>3 DEF Elems
  <2> QED BY <2>1, <2>2
<1>8. IsSeq(r)
  <2>1. r = [j \in 1 .. Len(r) |-> r[j]] /\ Len(r) \in Nat
    BY <1>3
  <2>2. \A j \in 1 .. Len(r) : r[j] \in Elems(r)
    BY DEF Elems
  <2> QED BY <2>1, <2>2, IsASeq DEF IsSeq
<1> QED BY <1>4, <1>5, <1>6, <1>7, <1>8 DEF r, t

\* The namespace in which the walk resolves the steps of Workflow k.
CtxNs(k) == IF k = SW!rootKey THEN RunNs ELSE k[2]

\* The context in which the runner executes Workflow k.
Ctx(k) == <<k, CtxNs(k)>>

\* What step i of Workflow k executes.
BodyAt(k, i) == SW!bodyOf(world.steps[k][i], CtxNs(k))

\* A step that runs whenever its Workflow does.
Certain(s) == ~s.mayNotRun /\ s.via \in {"direct", "template"}

\* An item of the walk st is step i of Workflow k, or the body of it.
StandsFor(it, k, i, st) ==
  /\ it.ns = CtxNs(k)
  /\ \/ it.step = world.steps[k][i]
     \/ it.step = SW!direct(BodyAt(k, i)) /\ (st = "creds" => Certain(world.steps[k][i]))

\* An item of the walk is a step of a visited Workflow.
Represented(it, W, st) == \E k \in W : \E i \in DOMAIN world.steps[k] : StandsFor(it, k, i, st)

\* Step i of Workflow k is among the items still to be looked at.
Waiting(Q, k, i, st) == \E it \in Q : StandsFor(it, k, i, st)

\* What a walk has done with a step it has left behind.
Followed(k, i, W) == BodyAt(k, i).kind = "workflow" => SW!subKey(BodyAt(k, i), CtxNs(k)) \in W

\* The Secrets that a step refers to are among the references.
Collected(k, i, R) ==
  LET b == BodyAt(k, i)
  IN /\ b.kind = "external" => SW!externalAgentRefSecretRefs(b, CtxNs(k)) \subseteq R
     /\ b.kind = "mcp" => SW!mcpServerSecretRefs(CtxNs(k), TRUE) \subseteq R
     /\ b.kind = "agent" => SW!agentRefSecretRefs(b, CtxNs(k)) \subseteq R

\* All that the walk st does with a step.
DoneWith(k, i, W, R, st) ==
  /\ st \in {"agent", "secrets", "built"} => Followed(k, i, W)
  /\ st = "agent" => BodyAt(k, i).kind # "agent"
  /\ st \in {"secrets", "built"} => Collected(k, i, R)

\* What the walk visits the runner reaches.
Visited(W) == W \subseteq DOMAIN world.steps /\ SW!rootKey \in W /\ \A k \in W : Ctx(k) \in SW!reachable

\* The items are steps of visited Workflows, and no deeper than there are those.
Queued(Q, W, st) ==
  \A it \in Q : /\ Represented(it, W, st)
               /\ it.depth \in Nat /\ it.depth < Cardinality(W) /\ it.depth <= MaxRefDepth

\* Every step of a visited Workflow is waiting or done, unless an agent ended the
\* walk.
NothingLost(Q, W, R, st, fnd) ==
  \/ st = "agent" /\ "agent" \in fnd
  \/ \A k \in W : \A i \in DOMAIN world.steps[k] : Waiting(Q, k, i, st) \/ DoneWith(k, i, W, R, st)

\* The walks and how they end.
WalkStages == {"creds", "agent", "secrets", "built", "rejected"}

\* The inductive invariant of the three walks.
WalkInv ==
  /\ world \in Worlds /\ stage \in WalkStages /\ found \subseteq {"creds", "agent"} /\ IsSeq(toWalk)
  /\ Visited(walked)
  /\ Queued(Elems(toWalk), walked, stage)
  /\ NothingLost(Elems(toWalk), walked, refs, stage, found)
  /\ stage = "creds" => world.denied
  /\ "creds" \in found => world.denied /\ SW!credsNeeded
  /\ "agent" \in found => SW!agentNamespaces # {}
  /\ stage \in {"secrets", "built"} /\ "agent" \notin found /\ ~SW!rootReentered => SW!agentNamespaces = {}
  /\ stage = "built" => toWalk = <<>> /\ SW!validateSecretRefPolicy(refs)
  /\ SW!local => \A r \in refs : r.ns = RunNs
  /\ stage = "rejected" => ~SW!local

\* The component's Cardinality is that of FiniteSets.
LEMMA WalkCardinality == \A S : SW!Cardinality(S) = Cardinality(S)
  BY DEF SW!Cardinality, Cardinality

\* What depends on the cluster alone stays as it is.
LEMMA SameWorld ==
  ASSUME world' = world
  PROVE  /\ SW!rootKey' = SW!rootKey /\ SW!reachable' = SW!reachable
         /\ SW!agentNamespaces' = SW!agentNamespaces
         /\ SW!rootReentered' <=> SW!rootReentered
         /\ SW!local' <=> SW!local
         /\ SW!credsNeeded' <=> SW!credsNeeded
         /\ \A k : CtxNs(k)' = CtxNs(k)
         /\ \A k, i : BodyAt(k, i)' = BodyAt(k, i)
<1>1. SW!rootKey' = SW!rootKey
  BY DEF SW!rootKey
<1>2. SW!Contexts' = SW!Contexts
  BY <1>1 DEF SW!Contexts
<1>3. \A s, ns : SW!bodyOf(s, ns)' = SW!bodyOf(s, ns)
  BY DEF SW!bodyOf
<1>4. \A c : SW!executed(c)' = SW!executed(c)
  BY <1>3 DEF SW!executed
<1>5. \A c : SW!executeWorkflowReference(c)' = SW!executeWorkflowReference(c)
  BY <1>4 DEF SW!executeWorkflowReference
<1>6. SW!reachable' = SW!reachable
  BY <1>1, <1>2, <1>5 DEF SW!reachable
<1>7. SW!agentNamespaces' = SW!agentNamespaces
  BY <1>4, <1>6 DEF SW!agentNamespaces
<1>8. SW!rootReentered' <=> SW!rootReentered
  BY <1>1, <1>6 DEF SW!rootReentered
<1>9. SW!referred' = SW!referred
  BY <1>6 DEF SW!referred, SW!Cardinality
<1>11. \A c : SW!certainly(c)' = SW!certainly(c)
  BY <1>3 DEF SW!certainly
<1>12. SW!credsNeeded' <=> SW!credsNeeded
  BY <1>6, <1>11 DEF SW!credsNeeded, SW!namespaceOr
<1>10. SW!local' <=> SW!local
  BY <1>4, <1>6, <1>9, <1>12 DEF SW!local, SW!namespaceOr
<1>13. \A k : CtxNs(k)' = CtxNs(k)
  BY <1>1 DEF CtxNs
<1>14. \A k, i : BodyAt(k, i)' = BodyAt(k, i)
  BY <1>3, <1>13 DEF BodyAt
<1> QED BY <1>1, <1>6, <1>7, <1>8, <1>10, <1>12, <1>13, <1>14

\* The invariant, part by part.
LEMMA WalkBefore ==
  ASSUME WalkInv
  PROVE  /\ world \in Worlds /\ stage \in WalkStages /\ found \subseteq {"creds", "agent"} /\ IsSeq(toWalk)
         /\ Visited(walked)
         /\ Queued(Elems(toWalk), walked, stage)
         /\ NothingLost(Elems(toWalk), walked, refs, stage, found)
         /\ stage = "creds" => world.denied
         /\ "creds" \in found => world.denied /\ SW!credsNeeded
         /\ "agent" \in found => SW!agentNamespaces # {}
         /\ stage \in {"secrets", "built"} /\ "agent" \notin found /\ ~SW!rootReentered => SW!agentNamespaces = {}
         /\ stage = "built" => toWalk = <<>> /\ SW!validateSecretRefPolicy(refs)
         /\ SW!local => \A r \in refs : r.ns = RunNs
         /\ stage = "rejected" => ~SW!local
  BY DEF WalkInv

\* What has to be shown of a step.
LEMMA WalkAfter ==
  ASSUME world' = world, world \in Worlds, stage' \in WalkStages, found' \subseteq {"creds", "agent"}, IsSeq(toWalk'),
         Visited(walked'),
         Queued(Elems(toWalk'), walked', stage'),
         NothingLost(Elems(toWalk'), walked', refs', stage', found'),
         stage' = "creds" => world.denied, "creds" \in found' => world.denied /\ SW!credsNeeded,
         "agent" \in found' => SW!agentNamespaces # {},
         stage' \in {"secrets", "built"} /\ "agent" \notin found' /\ ~SW!rootReentered => SW!agentNamespaces = {},
         stage' = "built" => toWalk' = <<>> /\ SW!validateSecretRefPolicy(refs'),
         SW!local => \A r \in refs' : r.ns = RunNs,
         stage' = "rejected" => ~SW!local
  PROVE  WalkInv'
<1>1. Visited(walked)'
  BY SameWorld DEF Visited, Ctx
<1>s. ASSUME NEW it, NEW k, NEW i, NEW st PROVE StandsFor(it, k, i, st)' <=> StandsFor(it, k, i, st)
  BY SameWorld DEF StandsFor, Certain, SW!direct
<1>2. Queued(Elems(toWalk), walked, stage)'
  BY <1>s DEF Queued, Represented, Elems
<1>3. NothingLost(Elems(toWalk), walked, refs, stage, found)'
  <2>1. CASE stage' = "agent" /\ "agent" \in found'
    BY <2>1 DEF NothingLost
  <2>2. CASE \A k \in walked' : \A i \in DOMAIN world.steps[k] :
                Waiting(Elems(toWalk'), k, i, stage') \/ DoneWith(k, i, walked', refs', stage')
    <3> SUFFICES ASSUME NEW k \in walked', NEW i \in DOMAIN world.steps[k]
                 PROVE  Waiting(Elems(toWalk), k, i, stage)' \/ DoneWith(k, i, walked, refs, stage)'
      BY DEF NothingLost
    <3>1. CASE Waiting(Elems(toWalk'), k, i, stage')
      BY <1>s, <3>1 DEF Waiting, Elems
    <3>2. CASE DoneWith(k, i, walked', refs', stage')
      <4> USE SameWorld, <3>2
      <4>1. CtxNs(k)' = CtxNs(k) /\ BodyAt(k, i)' = BodyAt(k, i)
        OBVIOUS
      <4>2. stage' \in {"agent", "secrets", "built"} => Followed(k, i, walked)'
        BY <4>1 DEF DoneWith, Followed, SW!subKey, SW!namespaceOr
      <4>3. \A mount : SW!mcpServerSecretRefs(CtxNs(k), mount)' = SW!mcpServerSecretRefs(CtxNs(k), mount)
        BY <4>1 DEF SW!mcpServerSecretRefs, SW!ref, SW!namespaceOr
      <4>4. SW!externalAgentRefSecretRefs(BodyAt(k, i), CtxNs(k))' = SW!externalAgentRefSecretRefs(BodyAt(k, i), CtxNs(k))
        BY <4>1 DEF SW!externalAgentRefSecretRefs, SW!ref, SW!namespaceOr
      <4>5. SW!agentRefSecretRefs(BodyAt(k, i), CtxNs(k))' = SW!agentRefSecretRefs(BodyAt(k, i), CtxNs(k))
        BY <4>1 DEF SW!agentRefSecretRefs, SW!mcpServerSecretRefs, SW!ref, SW!namespaceOr
      <4>6. stage' \in {"secrets", "built"} => Collected(k, i, refs)'
        BY <4>1, <4>3, <4>4, <4>5 DEF DoneWith, Collected
      <4>7. stage' = "agent" => BodyAt(k, i)'.kind # "agent"
        BY <4>1 DEF DoneWith
      <4> QED BY <4>2, <4>6, <4>7 DEF DoneWith
    <3> QED BY <2>2, <3>1, <3>2
  <2> QED BY <2>1, <2>2 DEF NothingLost
<1>4. SW!validateSecretRefPolicy(refs') => SW!validateSecretRefPolicy(refs)'
  BY DEF SW!validateSecretRefPolicy
<1> QED BY <1>1, <1>2, <1>3, <1>4, SameWorld DEF WalkInv

\* The runner reaches the root.
LEMMA RootReached == Ctx(SW!rootKey) \in SW!reachable /\ Ctx(SW!rootKey) = <<SW!rootKey, RunNs>>
  BY DEF SW!reachable, SW!Contexts, Ctx, CtxNs

\* The runner reaches what it reaches refers to.
LEMMA ReachesOn ==
  ASSUME NEW c \in SW!reachable, NEW d \in SW!executeWorkflowReference(c) \cap SW!Contexts
  PROVE  d \in SW!reachable
  BY DEF SW!reachable

\* What the runner executes of a Workflow that the walk has visited.
LEMMA ExecutedAt ==
  ASSUME NEW k
  PROVE  SW!executed(Ctx(k)) = {BodyAt(k, i) : i \in DOMAIN world.steps[k]}
  BY DEF SW!executed, Ctx, BodyAt

\* The Workflow that a step refers to is reached by the runner, too.
LEMMA SubReached ==
  ASSUME Visited(walked), NEW k \in walked, NEW i \in DOMAIN world.steps[k], BodyAt(k, i).kind = "workflow",
         SW!subKey(BodyAt(k, i), CtxNs(k)) \in DOMAIN world.steps
  PROVE  LET key == SW!subKey(BodyAt(k, i), CtxNs(k))
         IN /\ <<key, key[2]>> \in SW!executeWorkflowReference(Ctx(k)) \cap SW!Contexts
            /\ <<key, key[2]>> \in SW!reachable
            /\ key # SW!rootKey => Ctx(key) \in SW!reachable
<1> DEFINE b == BodyAt(k, i)
           ns == SW!namespaceOr(b.ns, CtxNs(k))
           key == SW!subKey(b, CtxNs(k))
<1>1. key = <<b.name, ns>> /\ key[2] = ns
  BY DEF SW!subKey
<1>2. b \in SW!executed(Ctx(k)) /\ Ctx(k)[2] = CtxNs(k)
  BY ExecutedAt DEF Ctx
<1>3. <<key, ns>> \in SW!executeWorkflowReference(Ctx(k))
  BY <1>1, <1>2 DEF SW!executeWorkflowReference
<1>4. <<key, key[2]>> \in SW!Contexts
  BY DEF SW!Contexts
<1>5. Ctx(k) \in SW!reachable
  BY DEF Visited
<1>6. <<key, key[2]>> \in SW!reachable
  BY <1>1, <1>3, <1>4, <1>5, ReachesOn
<1>7. key # SW!rootKey => Ctx(key) = <<key, key[2]>>
  BY DEF Ctx, CtxNs
<1> QED BY <1>1, <1>3, <1>4, <1>6, <1>7

\* When every step that was visited has been followed, the walk has been everywhere.
LEMMA AllVisited ==
  ASSUME Visited(walked), ~SW!rootReentered,
         \A k \in walked : \A i \in DOMAIN world.steps[k] : Followed(k, i, walked)
  PROVE  \A c \in SW!reachable : \E k \in walked : c = Ctx(k)
<1> DEFINE P == {Ctx(k) : k \in walked}
<1>1. P \subseteq SW!Contexts
  BY DEF Visited, Ctx, CtxNs, SW!Contexts
<1>2. <<SW!rootKey, RunNs>> \in P
  BY RootReached DEF Visited
<1>3. ASSUME NEW c \in P, NEW d \in SW!executeWorkflowReference(c) \cap SW!Contexts PROVE d \in P
  <2>1. PICK k \in walked : c = Ctx(k)
    BY <1>3
  <2>2. PICK b \in SW!executed(c) : b.kind = "workflow" /\ d = <<<<b.name, SW!namespaceOr(b.ns, c[2])>>, SW!namespaceOr(b.ns, c[2])>>
    BY <1>3 DEF SW!executeWorkflowReference
  <2>3. PICK i \in DOMAIN world.steps[k] : b = BodyAt(k, i)
    BY <2>1, <2>2, ExecutedAt
  <2> DEFINE key == SW!subKey(BodyAt(k, i), CtxNs(k))
  <2>4. c[2] = CtxNs(k) /\ d = <<key, key[2]>>
    BY <2>1, <2>2, <2>3 DEF Ctx, SW!subKey
  <2>5. key \in walked
    BY <2>2, <2>3 DEF Followed
  <2>6. CASE key # SW!rootKey
    BY <2>4, <2>5, <2>6 DEF Ctx, CtxNs
  <2>7. CASE key = SW!rootKey
    <3>1. d \in SW!reachable
      BY <1>3, <2>1, ReachesOn DEF Visited
    <3>2. SW!rootKey = <<"A", RunNs>>
      BY <2>4, <2>7, <3>1 DEF SW!rootReentered
    <3>3. d = <<SW!rootKey, RunNs>>
      BY <2>4, <2>7, <3>2
    <3> QED BY <1>2, <3>3
  <2> QED BY <2>6, <2>7
<1>4. P \in SUBSET SW!Contexts
  BY <1>1
<1>5. \A c \in SW!reachable : c \in P
  <2> HIDE DEF P
  <2> QED BY <1>2, <1>3, <1>4 DEF SW!reachable
<1> QED BY <1>5

\* There are finitely many Workflows.
LEMMA VisitedFinite ==
  ASSUME world \in Worlds, NEW W, W \subseteq DOMAIN world.steps
  PROVE  IsFiniteSet(W) /\ Cardinality(W) \in Nat
  BY WorldsAssumption, FS_Subset, FS_CardinalityType

\* What is done stays done.
LEMMA DoneStays ==
  ASSUME NEW k, NEW i, NEW W, NEW W2, NEW R, NEW R2, NEW st, W \subseteq W2, R \subseteq R2, DoneWith(k, i, W, R, st)
  PROVE  DoneWith(k, i, W2, R2, st)
<1>1. Followed(k, i, W) => Followed(k, i, W2)
  BY DEF Followed
<1>2. Collected(k, i, R) => Collected(k, i, R2)
  BY DEF Collected
<1> QED BY <1>1, <1>2 DEF DoneWith

\* A walk takes its first item and puts others in its place.
LEMMA WalkMoves ==
  ASSUME WalkInv, SW!isWalk, toWalk # <<>>, NEW more, IsSeq(more), SW!next(more),
         world' = world, stage' = stage, found' = found,
         walked \subseteq walked', Visited(walked'), refs \subseteq refs',
         \A it \in Elems(more) : /\ Represented(it, walked', stage)
                                 /\ it.depth \in Nat /\ it.depth < Cardinality(walked') /\ it.depth <= MaxRefDepth,
         \A k \in walked' : \A i \in DOMAIN world.steps[k] :
            k \notin walked \/ StandsFor(SW!head, k, i, stage) =>
              Waiting(Elems(more), k, i, stage) \/ DoneWith(k, i, walked', refs', stage),
         SW!local => \A r \in refs' : r.ns = RunNs
  PROVE  WalkInv'
<1>1. toWalk' = more \o Tail(toWalk) /\ SW!head = Head(toWalk)
  BY DEF SW!next, SW!head
<1>2. /\ IsSeq(toWalk') /\ Elems(more) \subseteq Elems(toWalk')
      /\ Elems(toWalk') \subseteq Elems(more) \cup Elems(toWalk)
      /\ Elems(toWalk) \subseteq Elems(toWalk') \cup {SW!head}
  <2>1. IsSeq(toWalk)
    BY WalkBefore
  <2> QED BY <1>1, <2>1, NextItems
<1>c. Cardinality(walked) \in Nat /\ Cardinality(walked') \in Nat /\ Cardinality(walked) <= Cardinality(walked')
  <2>1. world \in Worlds /\ walked' \subseteq DOMAIN world.steps /\ walked \subseteq DOMAIN world.steps
    BY WalkBefore DEF Visited
  <2>2. IsFiniteSet(walked') /\ Cardinality(walked') \in Nat /\ Cardinality(walked) \in Nat
    BY <2>1, VisitedFinite
  <2> QED BY <2>2, FS_Subset
<1>3. Queued(Elems(toWalk'), walked', stage)
  <2> SUFFICES ASSUME NEW it \in Elems(toWalk')
               PROVE  /\ Represented(it, walked', stage)
                      /\ it.depth \in Nat /\ it.depth < Cardinality(walked') /\ it.depth <= MaxRefDepth
    BY DEF Queued
  <2>1. CASE it \in Elems(more)
    BY <2>1
  <2>2. CASE it \in Elems(toWalk)
    <3>1. /\ Represented(it, walked, stage)
          /\ it.depth \in Nat /\ it.depth < Cardinality(walked) /\ it.depth <= MaxRefDepth
      BY <2>2, WalkBefore DEF Queued
    <3>2. Represented(it, walked', stage)
      BY <3>1 DEF Represented
    <3>3. it.depth < Cardinality(walked')
      BY <1>c, <3>1
    <3> QED BY <3>1, <3>2, <3>3
  <2> QED BY <1>2, <2>1, <2>2
<1>4. NothingLost(Elems(toWalk'), walked', refs', stage, found)
  <2>1. CASE stage = "agent" /\ "agent" \in found
    BY <2>1 DEF NothingLost
  <2>2. CASE \A k \in walked : \A i \in DOMAIN world.steps[k] :
                Waiting(Elems(toWalk), k, i, stage) \/ DoneWith(k, i, walked, refs, stage)
    <3> SUFFICES ASSUME NEW k \in walked', NEW i \in DOMAIN world.steps[k]
                 PROVE  Waiting(Elems(toWalk'), k, i, stage) \/ DoneWith(k, i, walked', refs', stage)
      BY DEF NothingLost
    <3>1. CASE k \notin walked \/ StandsFor(SW!head, k, i, stage)
      BY <1>2, <3>1 DEF Waiting
    <3>2. CASE k \in walked /\ ~StandsFor(SW!head, k, i, stage)
      <4>1. CASE Waiting(Elems(toWalk), k, i, stage)
        BY <1>2, <3>2, <4>1 DEF Waiting
      <4>2. CASE DoneWith(k, i, walked, refs, stage)
        BY <4>2, DoneStays
      <4> QED BY <2>2, <3>2, <4>1, <4>2
    <3> QED BY <3>1, <3>2
  <2> QED BY <2>1, <2>2, WalkBefore DEF NothingLost
<1>5. stage \in {"creds", "agent", "secrets"}
  BY DEF SW!isWalk
<1> QED BY <1>2, <1>3, <1>4, <1>5, WalkBefore, WalkAfter

\* The build fails for a run that is not local.
LEMMA WalkRejects ==
  ASSUME WalkInv, SW!reject, ~SW!local
  PROVE  WalkInv'
<1>1. stage' = "rejected" /\ UNCHANGED <<world, toWalk, walked, refs, found>>
  BY DEF SW!reject
<1>2. Queued(Elems(toWalk), walked, "rejected")
  <2>1. Queued(Elems(toWalk), walked, stage)
    BY WalkBefore
  <2>2. \A it, k, i : StandsFor(it, k, i, stage) => StandsFor(it, k, i, "rejected")
    BY DEF StandsFor
  <2> QED BY <2>1, <2>2 DEF Queued, Represented
<1>3. NothingLost(Elems(toWalk), walked, refs, "rejected", found)
  BY DEF NothingLost, DoneWith
<1> QED BY <1>1, <1>2, <1>3, WalkBefore, WalkAfter DEF WalkStages

\* The fields of an item.
LEMMA ItemFields ==
  ASSUME NEW s, NEW ns, NEW d
  PROVE  SW!item(s, ns, d).step = s /\ SW!item(s, ns, d).ns = ns /\ SW!item(s, ns, d).depth = d
  BY DEF SW!item

\* The fields of a reference.
LEMMA RefFields ==
  ASSUME NEW ns, NEW n, NEW k, NEW o, NEW m
  PROVE  /\ SW!ref(ns, n, k, o, m).ns = ns /\ SW!ref(ns, n, k, o, m).name = n /\ SW!ref(ns, n, k, o, m).key = k
         /\ SW!ref(ns, n, k, o, m).optional = o /\ SW!ref(ns, n, k, o, m).mount = m
  BY DEF SW!ref

\* The steps of a Workflow, as items.
LEMMA ItemsOf ==
  ASSUME world \in Worlds, NEW key \in DOMAIN world.steps, NEW d, NEW st
  PROVE  LET q == SW!items(key, CtxNs(key), d)
         IN /\ IsSeq(q)
            /\ \A it \in Elems(q) : it.depth = d /\ \E i \in DOMAIN world.steps[key] : StandsFor(it, key, i, st)
            /\ \A i \in DOMAIN world.steps[key] : Waiting(Elems(q), key, i, st)
<1> DEFINE q == SW!items(key, CtxNs(key), d)
           t == world.steps[key]
<1>1. IsSeq(t)
  BY WorldsAssumption
<1>2. Len(t) \in Nat /\ DOMAIN t = 1 .. Len(t)
  BY <1>1, LenProperties DEF IsSeq
<1>3. q = [i \in 1 .. Len(t) |-> SW!item(t[i], CtxNs(key), d)]
  BY <1>2 DEF SW!items
<1>4. q \in Seq({SW!item(t[i], CtxNs(key), d) : i \in 1 .. Len(t)}) /\ Len(q) = Len(t)
  BY <1>2, <1>3
<1>5. \A i \in 1 .. Len(t) : q[i] = SW!item(t[i], CtxNs(key), d) /\ q[i] \in Elems(q)
  BY <1>3, <1>4 DEF Elems
<1> HIDE DEF q
<1>6. IsSeq(q)
  <2>1. q = [i \in 1 .. Len(q) |-> q[i]]
    BY <1>3, <1>4
  <2>2. \A i \in 1 .. Len(q) : q[i] \in Elems(q)
    BY <1>4, <1>5
  <2> QED BY <1>2, <1>4, <2>1, <2>2 DEF IsSeq
<1>7. ASSUME NEW i \in 1 .. Len(t) PROVE StandsFor(q[i], key, i, st) /\ q[i].depth = d
  <2>1. q[i].step = t[i] /\ q[i].ns = CtxNs(key) /\ q[i].depth = d
    BY <1>5, ItemFields
  <2> QED BY <2>1 DEF StandsFor
<1>8. \A it \in Elems(q) : \E i \in 1 .. Len(t) : it = q[i]
  BY <1>4 DEF Elems
<1>9. \A i \in DOMAIN t : Waiting(Elems(q), key, i, st)
  BY <1>2, <1>5, <1>7 DEF Waiting
<1> QED BY <1>2, <1>6, <1>7, <1>8, <1>9 DEF q

\* The beginning of a walk.
LEMMA WalkBegins ==
  ASSUME world \in Worlds, NEW st, NEW R, NEW fnd
  PROVE  LET q == SW!items(SW!rootKey, RunNs, 0)
         IN /\ IsSeq(q) /\ Visited({SW!rootKey}) /\ Queued(Elems(q), {SW!rootKey}, st)
            /\ NothingLost(Elems(q), {SW!rootKey}, R, st, fnd)
<1>1. SW!rootKey \in DOMAIN world.steps /\ CtxNs(SW!rootKey) = RunNs
  BY WorldsAssumption DEF SW!rootKey, CtxNs
<1> DEFINE q == SW!items(SW!rootKey, RunNs, 0)
<1>2. /\ IsSeq(q)
      /\ \A it \in Elems(q) : it.depth = 0 /\ \E i \in DOMAIN world.steps[SW!rootKey] : StandsFor(it, SW!rootKey, i, st)
      /\ \A i \in DOMAIN world.steps[SW!rootKey] : Waiting(Elems(q), SW!rootKey, i, st)
  BY <1>1, ItemsOf
<1> HIDE DEF q
<1>3. Visited({SW!rootKey})
  BY <1>1, RootReached DEF Visited
<1>4. Cardinality({SW!rootKey}) = 1
  BY FS_Singleton
<1>5. Queued(Elems(q), {SW!rootKey}, st)
  <2>1. 0 \in Nat /\ 0 < 1 /\ 0 <= MaxRefDepth
    BY WorldsAssumption
  <2> QED BY <1>2, <1>4, <2>1 DEF Queued, Represented
<1>6. NothingLost(Elems(q), {SW!rootKey}, R, st, fnd)
  BY <1>2 DEF NothingLost
<1> QED BY <1>2, <1>3, <1>5, <1>6 DEF q

\* The first walk begins at the root.
LEMMA WalkInit == SW!Init => WalkInv
<1> SUFFICES ASSUME SW!Init PROVE WalkInv
  OBVIOUS
<1>1. /\ world \in Worlds /\ toWalk = SW!items(SW!rootKey, RunNs, 0) /\ walked = {SW!rootKey}
      /\ refs = {} /\ found = {} /\ stage \in WalkStages
      /\ stage = "rejected" => world.job = "reservedEnv"
      /\ stage \notin {"secrets", "built"} /\ (stage = "creds" => world.denied)
  BY DEF SW!Init, WalkStages
<1>2. /\ IsSeq(toWalk) /\ Visited(walked) /\ Queued(Elems(toWalk), walked, stage)
      /\ NothingLost(Elems(toWalk), walked, refs, stage, found)
  BY <1>1, WalkBegins
<1>3. stage = "rejected" => ~SW!local
  BY <1>1 DEF SW!local
<1> QED BY <1>1, <1>2, <1>3 DEF WalkInv, WalkStages

\* What the first item is.
LEMMA HeadStands ==
  ASSUME WalkInv, toWalk # <<>>
  PROVE  /\ SW!head \in Elems(toWalk)
         /\ SW!head.depth \in Nat /\ SW!head.depth < Cardinality(walked) /\ SW!head.depth <= MaxRefDepth
         /\ \E k \in walked : \E i \in DOMAIN world.steps[k] : StandsFor(SW!head, k, i, stage)
         /\ \A k, i : StandsFor(SW!head, k, i, stage) =>
              /\ SW!head.ns = CtxNs(k)
              /\ SW!head.step.via = "direct" => SW!head.step.body = BodyAt(k, i)
              /\ SW!head.step.via # "direct" => SW!head.step = world.steps[k][i]
<1>1. SW!head \in Elems(toWalk)
  <2>1. IsSeq(toWalk) /\ IsSeq(<<>>)
    BY WalkBefore, EmptySeq DEF IsSeq
  <2> QED BY <2>1, NextItems DEF SW!head
<1>2. /\ Represented(SW!head, walked, stage)
      /\ SW!head.depth \in Nat /\ SW!head.depth < Cardinality(walked) /\ SW!head.depth <= MaxRefDepth
  BY <1>1, WalkBefore DEF Queued
<1>3. ASSUME NEW k, NEW i, StandsFor(SW!head, k, i, stage)
      PROVE  /\ SW!head.ns = CtxNs(k)
             /\ SW!head.step.via = "direct" => SW!head.step.body = BodyAt(k, i)
             /\ SW!head.step.via # "direct" => SW!head.step = world.steps[k][i]
  BY <1>3 DEF StandsFor, BodyAt, SW!bodyOf, SW!direct
<1> QED BY <1>1, <1>2, <1>3 DEF Represented

\* The walk is deep only where that many Workflows are referred to.
LEMMA DepthReal ==
  ASSUME WalkInv, toWalk # <<>>, SW!head.depth >= MaxRefDepth
  PROVE  SW!referred > MaxRefDepth /\ SW!referred \in Nat
<1> DEFINE K == {c[1] : c \in SW!reachable}
<1>1. world \in Worlds /\ Visited(walked)
  BY WalkBefore
<1>2. K \subseteq DOMAIN world.steps
  BY <1>1, WorldsAssumption DEF SW!reachable, SW!Contexts, SW!rootKey
<1>3. walked \subseteq K
  <2> SUFFICES ASSUME NEW k \in walked PROVE k \in K
    OBVIOUS
  <2>1. Ctx(k) \in SW!reachable /\ Ctx(k)[1] = k
    BY <1>1 DEF Visited, Ctx
  <2> QED BY <2>1
<1>4. IsFiniteSet(K) /\ Cardinality(K) \in Nat
  BY <1>1, <1>2, VisitedFinite
<1>5. Cardinality(walked) <= Cardinality(K) /\ Cardinality(walked) \in Nat
  BY <1>3, <1>4, FS_Subset, FS_CardinalityType
<1>6. SW!referred = Cardinality(K)
  BY WalkCardinality DEF SW!referred
<1>7. SW!head.depth \in Nat /\ SW!head.depth < Cardinality(walked)
  BY HeadStands
<1> HIDE DEF K
<1> QED BY <1>4, <1>5, <1>6, <1>7, WorldsAssumption

\* The empty list.
LEMMA NoItems == IsSeq(<<>>) /\ Elems(<<>>) = {}
<1>1. Len(<<>>) = 0 /\ <<>> \in Seq({})
  BY EmptySeq
<1>2. Elems(<<>>) = {}
  BY <1>1 DEF Elems
<1> QED BY <1>1, <1>2 DEF IsSeq

\* The list of one.
LEMMA OneItem == ASSUME NEW it PROVE IsSeq(<<it>>) /\ Elems(<<it>>) = {it}
<1>1. Len(<<it>>) = 1 /\ <<it>>[1] = it /\ <<it>> \in Seq({it})
  OBVIOUS
<1>2. Elems(<<it>>) = {it}
  BY <1>1 DEF Elems
<1> QED BY <1>1, <1>2 DEF IsSeq

\* The walk drops its first item, having done with it what its stage asks for.
LEMMA WalkDrops ==
  ASSUME WalkInv, SW!isWalk, toWalk # <<>>, SW!next(<<>>), UNCHANGED <<world, stage, walked, found>>,
         refs \subseteq refs', SW!local => \A r \in refs' : r.ns = RunNs,
         \A k \in walked : \A i \in DOMAIN world.steps[k] :
           StandsFor(SW!head, k, i, stage) => DoneWith(k, i, walked, refs', stage)
  PROVE  WalkInv'
<1>1. Visited(walked')
  BY WalkBefore
<1> QED BY <1>1, NoItems, WalkMoves

\* The body of a step takes the step's place.
LEMMA WalkOpens ==
  ASSUME WalkInv, SW!isWalk, toWalk # <<>>, SW!head.step.via # "direct", ~SW!skipped,
         NEW b, SW!next(<<SW!item(SW!direct(b), SW!head.ns, SW!head.depth)>>),
         UNCHANGED <<world, stage, walked, refs, found>>,
         \A k \in walked : \A i \in DOMAIN world.steps[k] :
           StandsFor(SW!head, k, i, stage) =>
             b = BodyAt(k, i) /\ (stage = "creds" => Certain(world.steps[k][i]))
  PROVE  WalkInv'
<1> DEFINE it == SW!item(SW!direct(b), SW!head.ns, SW!head.depth)
<1>1. it.step = SW!direct(b) /\ it.ns = SW!head.ns /\ it.depth = SW!head.depth
  BY DEF SW!item
<1> HIDE DEF it
<1>2. \A k \in walked : \A i \in DOMAIN world.steps[k] :
        StandsFor(SW!head, k, i, stage) => StandsFor(it, k, i, stage)
  BY <1>1, HeadStands DEF StandsFor
<1>3. /\ Represented(it, walked, stage)
      /\ it.depth \in Nat /\ it.depth < Cardinality(walked) /\ it.depth <= MaxRefDepth
  <2>0. PICK k \in walked : \E i \in DOMAIN world.steps[k] : StandsFor(SW!head, k, i, stage)
    BY HeadStands
  <2>1. PICK i \in DOMAIN world.steps[k] : StandsFor(SW!head, k, i, stage)
    BY <2>0
  <2>2. Represented(it, walked, stage)
    BY <1>2, <2>1 DEF Represented
  <2> QED BY <1>1, <2>2, HeadStands
<1>4. IsSeq(<<it>>) /\ Elems(<<it>>) = {it}
  BY OneItem
<1>5. \A k \in walked : \A i \in DOMAIN world.steps[k] :
        StandsFor(SW!head, k, i, stage) => Waiting(Elems(<<it>>), k, i, stage)
  BY <1>2, <1>4 DEF Waiting
<1>6. Visited(walked') /\ (SW!local => \A r \in refs' : r.ns = RunNs)
  BY WalkBefore
<1>7. SW!next(<<it>>)
  BY DEF it
<1> QED BY <1>3, <1>4, <1>5, <1>6, <1>7, WalkMoves

\* What the step at the head of a walk is when it is looked at directly.
LEMMA HeadBody ==
  ASSUME WalkInv, SW!look("direct"), ~SW!skipped
  PROVE  /\ toWalk # <<>> /\ SW!isWalk
         /\ \E k \in walked : \E i \in DOMAIN world.steps[k] : StandsFor(SW!head, k, i, stage)
         /\ \A k \in walked : \A i \in DOMAIN world.steps[k] :
              StandsFor(SW!head, k, i, stage) =>
                /\ SW!head.step.body = BodyAt(k, i) /\ SW!head.ns = CtxNs(k)
                /\ Ctx(k) \in SW!reachable /\ Ctx(k)[1] = k /\ Ctx(k)[2] = CtxNs(k)
                /\ BodyAt(k, i) \in SW!executed(Ctx(k))
                /\ stage = "creds" => BodyAt(k, i) \in SW!certainly(Ctx(k))
<1>1. toWalk # <<>> /\ SW!isWalk /\ SW!head.step.via = "direct"
  BY DEF SW!look
<1>2. ASSUME NEW k \in walked, NEW i \in DOMAIN world.steps[k], StandsFor(SW!head, k, i, stage)
      PROVE  /\ SW!head.step.body = BodyAt(k, i) /\ SW!head.ns = CtxNs(k)
             /\ Ctx(k) \in SW!reachable /\ Ctx(k)[1] = k /\ Ctx(k)[2] = CtxNs(k)
             /\ BodyAt(k, i) \in SW!executed(Ctx(k))
             /\ stage = "creds" => BodyAt(k, i) \in SW!certainly(Ctx(k))
  <2>1. SW!head.step.body = BodyAt(k, i) /\ SW!head.ns = CtxNs(k)
    BY <1>1, <1>2, HeadStands
  <2>2. Ctx(k) \in SW!reachable /\ Ctx(k)[1] = k /\ Ctx(k)[2] = CtxNs(k)
    BY WalkBefore DEF Visited, Ctx
  <2>3. BodyAt(k, i) \in SW!executed(Ctx(k))
    BY ExecutedAt
  <2>4. stage = "creds" => Certain(world.steps[k][i])
    BY <1>1, <1>2 DEF StandsFor, Certain, SW!skipped
  <2>5. Certain(world.steps[k][i]) => BodyAt(k, i) \in SW!certainly(Ctx(k))
    BY <2>2 DEF SW!certainly, Certain, BodyAt
  <2> QED BY <2>1, <2>2, <2>3, <2>4, <2>5
<1> QED BY <1>1, <1>2, HeadStands

\* What runs in a local run runs in its namespace and names no other.
LEMMA LocalBodies ==
  ASSUME SW!local, NEW c \in SW!reachable, NEW b \in SW!executed(c)
  PROVE  /\ c[2] = RunNs /\ (b.kind # "plain" => b.ns = "")
         /\ b.kind = "workflow" => <<b.name, RunNs>> \in DOMAIN world.steps
  BY DEF SW!local

\* A local run finds its templates.
LEMMA LocalTemplates ==
  ASSUME SW!local, NEW c \in SW!reachable, NEW i \in DOMAIN world.steps[c[1]],
         world.steps[c[1]][i].via \in {"template", "forEachTemplate"}
  PROVE  c[2] = RunNs /\ SW!namespaceOr(world.steps[c[1]][i].ns, RunNs) \in DOMAIN world.template
  BY DEF SW!local

\* The same of the step the walk looks at.
LEMMA LocalHead ==
  ASSUME WalkInv, SW!local, SW!look("direct"), ~SW!skipped
  PROVE  /\ SW!head.ns = RunNs /\ (SW!head.step.body.kind # "plain" => SW!head.step.body.ns = "")
         /\ SW!head.step.body.kind = "workflow" => <<SW!head.step.body.name, RunNs>> \in DOMAIN world.steps
<1>1. PICK k \in walked : \E i \in DOMAIN world.steps[k] : StandsFor(SW!head, k, i, stage)
  BY HeadBody
<1>2. PICK i \in DOMAIN world.steps[k] : StandsFor(SW!head, k, i, stage)
  BY <1>1
<1>3. /\ SW!head.step.body = BodyAt(k, i) /\ SW!head.ns = CtxNs(k)
      /\ Ctx(k) \in SW!reachable /\ Ctx(k)[2] = CtxNs(k) /\ BodyAt(k, i) \in SW!executed(Ctx(k))
  BY <1>2, HeadBody
<1> QED BY <1>3, LocalBodies

\* The walk for credentials passes over what may not run.
LEMMA SkipStep == ASSUME WalkInv, SW!Skip PROVE WalkInv'
<1>1. /\ SW!isWalk /\ toWalk # <<>> /\ stage = "creds" /\ SW!next(<<>>)
      /\ UNCHANGED <<world, stage, walked, refs, found>>
  BY DEF SW!Skip, SW!skipped
<1>2. \A k, i : DoneWith(k, i, walked, refs', stage)
  BY <1>1 DEF DoneWith
<1> QED BY <1>1, <1>2, WalkBefore, WalkDrops

\* A template is replaced by its body.
LEMMA ExpandStep == ASSUME WalkInv, SW!Expand PROVE WalkInv'
<1> DEFINE ns == SW!namespaceOr(SW!head.step.ns, SW!head.ns)
<1>1. /\ SW!isWalk /\ toWalk # <<>> /\ ~SW!skipped /\ SW!head.step.via \in {"template", "forEachTemplate"}
      /\ SW!head.step.via # "direct"
  BY DEF SW!Expand
<1>2. \A k \in walked : \A i \in DOMAIN world.steps[k] :
        StandsFor(SW!head, k, i, stage) =>
          SW!head.step = world.steps[k][i] /\ SW!head.ns = CtxNs(k)
  BY <1>1, HeadStands
<1>3. CASE ns \in DOMAIN world.template
  <2>1. /\ SW!next(<<SW!item(SW!direct(world.template[ns]), SW!head.ns, SW!head.depth)>>)
        /\ UNCHANGED <<world, stage, walked, refs, found>>
    BY <1>3 DEF SW!Expand
  <2>2. \A k \in walked : \A i \in DOMAIN world.steps[k] :
          StandsFor(SW!head, k, i, stage) =>
            world.template[ns] = BodyAt(k, i) /\ (stage = "creds" => Certain(world.steps[k][i]))
    BY <1>1, <1>2, <1>3 DEF BodyAt, SW!bodyOf, Certain, SW!skipped
  <2> HIDE DEF ns
  <2> QED BY <1>1, <2>1, <2>2, WalkOpens
<1>4. CASE ns \notin DOMAIN world.template
  <2>1. SW!reject
    BY <1>4 DEF SW!Expand
  <2>0. PICK k \in walked : \E i \in DOMAIN world.steps[k] : StandsFor(SW!head, k, i, stage)
    BY <1>1, HeadStands
  <2>2. PICK i \in DOMAIN world.steps[k] : StandsFor(SW!head, k, i, stage)
    BY <2>0
  <2>3. Ctx(k) \in SW!reachable /\ Ctx(k)[1] = k /\ Ctx(k)[2] = CtxNs(k)
    BY WalkBefore DEF Visited, Ctx
  <2>4. ~SW!local
    BY <1>1, <1>2, <1>4, <2>2, <2>3, LocalTemplates
  <2> QED BY <2>1, <2>4, WalkRejects
<1> QED BY <1>3, <1>4

\* A forEach is replaced by its body.
LEMMA ForEachBody == ASSUME WalkInv, SW!ForEachStep PROVE WalkInv'
<1>1. /\ SW!isWalk /\ toWalk # <<>> /\ ~SW!skipped /\ SW!head.step.via = "forEach" /\ SW!head.step.via # "direct"
      /\ SW!next(<<SW!item(SW!direct(SW!head.step.body), SW!head.ns, SW!head.depth)>>)
      /\ UNCHANGED <<world, stage, walked, refs, found>>
  BY DEF SW!ForEachStep, SW!look
<1>2. stage # "creds"
  BY <1>1 DEF SW!skipped
<1>3. \A k \in walked : \A i \in DOMAIN world.steps[k] :
        StandsFor(SW!head, k, i, stage) => SW!head.step = world.steps[k][i]
  BY <1>1, HeadStands
<1>4. \A k \in walked : \A i \in DOMAIN world.steps[k] :
        StandsFor(SW!head, k, i, stage) =>
          SW!head.step.body = BodyAt(k, i) /\ (stage = "creds" => Certain(world.steps[k][i]))
  BY <1>1, <1>2, <1>3 DEF BodyAt, SW!bodyOf
<1> QED BY <1>1, <1>4, WalkOpens

\* A step with nothing to look for is done.
LEMMA PlainStep == ASSUME WalkInv, SW!Plain PROVE WalkInv'
<1>1. /\ SW!look("direct") /\ ~SW!skipped /\ SW!next(<<>>) /\ UNCHANGED <<world, stage, walked, refs, found>>
      /\ SW!head.step.body.kind \in {"plain", "external", "mcp"}
      /\ SW!head.step.body.kind # "plain" => stage # "secrets"
  BY DEF SW!Plain, SW!lookAt
<1>2. stage \in {"creds", "agent", "secrets"}
  BY <1>1 DEF SW!look, SW!isWalk
<1>3. \A k \in walked : \A i \in DOMAIN world.steps[k] :
        StandsFor(SW!head, k, i, stage) => DoneWith(k, i, walked, refs', stage)
  <2> SUFFICES ASSUME NEW k \in walked, NEW i \in DOMAIN world.steps[k], StandsFor(SW!head, k, i, stage)
               PROVE  DoneWith(k, i, walked, refs', stage)
    OBVIOUS
  <2>1. SW!head.step.body = BodyAt(k, i)
    BY <1>1, HeadBody
  <2> QED BY <1>1, <1>2, <2>1 DEF DoneWith, Followed, Collected
<1> QED BY <1>1, <1>3, HeadBody, WalkBefore, WalkDrops

\* The Secrets of one step are added to those the walk has collected.
LEMMA CollectStep ==
  ASSUME WalkInv, stage = "secrets", SW!look("direct"), NEW rs, SW!collect(rs),
         SW!head.step.body.kind # "workflow",
         \A k \in walked : \A i \in DOMAIN world.steps[k] : StandsFor(SW!head, k, i, stage) => Collected(k, i, rs),
         SW!local => \A r \in rs : r.ns = RunNs
  PROVE  WalkInv'
<1>1. ~SW!skipped /\ SW!next(<<>>) /\ refs' = refs \cup rs /\ UNCHANGED <<world, stage, walked, found>>
  BY DEF SW!skipped, SW!collect
<1>2. \A k \in walked : \A i \in DOMAIN world.steps[k] :
        StandsFor(SW!head, k, i, stage) => DoneWith(k, i, walked, refs', stage)
  <2> SUFFICES ASSUME NEW k \in walked, NEW i \in DOMAIN world.steps[k], StandsFor(SW!head, k, i, stage)
               PROVE  DoneWith(k, i, walked, refs', stage)
    OBVIOUS
  <2>1. SW!head.step.body = BodyAt(k, i)
    BY <1>1, HeadBody
  <2>2. Collected(k, i, refs')
    BY <1>1 DEF Collected
  <2>3. Followed(k, i, walked)
    BY <2>1 DEF Followed
  <2> QED BY <2>2, <2>3 DEF DoneWith
<1>3. SW!local => \A r \in refs' : r.ns = RunNs
  BY <1>1, WalkBefore
<1> QED BY <1>1, <1>2, <1>3, HeadBody, WalkDrops

\* The Secrets of an external agent.
LEMMA ExternalStep == ASSUME WalkInv, SW!External PROVE WalkInv'
<1> DEFINE b == SW!head.step.body
           rs == SW!externalAgentRefSecretRefs(b, SW!head.ns)
<1>1. stage = "secrets" /\ SW!look("direct") /\ ~SW!skipped /\ SW!collect(rs) /\ b.kind = "external"
  BY DEF SW!External, SW!lookAt, SW!skipped
<1>2. \A k \in walked : \A i \in DOMAIN world.steps[k] : StandsFor(SW!head, k, i, stage) => Collected(k, i, rs)
  BY <1>1, HeadBody DEF Collected
<1>3. SW!local => \A r \in rs : r.ns = RunNs
  <2> SUFFICES ASSUME SW!local PROVE \A r \in rs : r.ns = RunNs
    OBVIOUS
  <2>1. b.ns = "" /\ SW!head.ns = RunNs
    BY <1>1, LocalHead
  <2>2. SW!namespaceOr(b.ns, SW!head.ns) = RunNs
    BY <2>1 DEF SW!namespaceOr
  <2>3. \A r \in rs : \E k : r = SW!ref(RunNs, "agent", k, FALSE, TRUE)
    BY <2>2 DEF SW!externalAgentRefSecretRefs
  <2> QED BY <2>3 DEF SW!ref
<1> HIDE DEF rs
<1> QED BY <1>1, <1>2, <1>3, CollectStep

\* The references of a server in a local run.
LEMMA LocalServer ==
  ASSUME SW!local, NEW mount PROVE \A r \in SW!mcpServerSecretRefs(RunNs, mount) : r.ns = RunNs
<1>1. world.server[RunNs].ns = ""
  BY DEF SW!local
<1>2. SW!namespaceOr(world.server[RunNs].ns, RunNs) = RunNs
  BY <1>1 DEF SW!namespaceOr
<1>3. \A r \in SW!mcpServerSecretRefs(RunNs, mount) : \E k, o : r = SW!ref(RunNs, "mcp", k, o, mount)
  BY <1>2 DEF SW!mcpServerSecretRefs
<1> QED BY <1>3, RefFields

\* The Secrets of an MCP server that a step calls.
LEMMA McpToolStep == ASSUME WalkInv, SW!McpTool PROVE WalkInv'
<1> DEFINE rs == SW!mcpServerSecretRefs(SW!head.ns, TRUE)
<1>1. stage = "secrets" /\ SW!look("direct") /\ ~SW!skipped /\ SW!head.step.body.kind = "mcp"
  BY DEF SW!McpTool, SW!lookAt, SW!skipped
<1>2. SW!local => SW!head.ns = RunNs
  BY <1>1, LocalHead
<1>3. CASE SW!head.ns \in DOMAIN world.server
  <2>1. SW!collect(rs)
    BY <1>3 DEF SW!McpTool
  <2>2. \A k \in walked : \A i \in DOMAIN world.steps[k] : StandsFor(SW!head, k, i, stage) => Collected(k, i, rs)
    BY <1>1, HeadBody DEF Collected
  <2>3. SW!local => \A r \in rs : r.ns = RunNs
    BY <1>2, LocalServer
  <2> HIDE DEF rs
  <2> QED BY <1>1, <2>1, <2>2, <2>3, CollectStep
<1>4. CASE SW!head.ns \notin DOMAIN world.server
  <2>1. SW!reject
    BY <1>4 DEF SW!McpTool
  <2>2. ~SW!local
    BY <1>2, <1>4 DEF SW!local
  <2> QED BY <2>1, <2>2, WalkRejects
<1> QED BY <1>3, <1>4

\* An agent ends a walk for agents and adds its servers' Secrets to the last.
LEMMA AgentStep == ASSUME WalkInv, SW!Agent PROVE WalkInv'
<1> DEFINE b == SW!head.step.body
           ns == SW!namespaceOr(b.ns, SW!head.ns)
           nirmata == ns \in DOMAIN world.provider /\ world.provider[ns] = "nirmata"
<1>1. SW!look("direct") /\ ~SW!skipped /\ b.kind = "agent"
  BY DEF SW!Agent, SW!lookAt
<1>2. stage \in {"creds", "agent", "secrets"} /\ toWalk # <<>>
  BY <1>1 DEF SW!look, SW!isWalk
<1>3. SW!local => ns = RunNs
  BY <1>1, LocalHead DEF SW!namespaceOr
<1>4. CASE stage = "secrets" /\ ns \in DOMAIN world.provider \cap DOMAIN world.server
  <2> DEFINE rs == SW!agentRefSecretRefs(b, SW!head.ns)
  <2>1. SW!collect(rs)
    BY <1>4 DEF SW!Agent
  <2>2. \A k \in walked : \A i \in DOMAIN world.steps[k] : StandsFor(SW!head, k, i, stage) => Collected(k, i, rs)
    BY <1>1, HeadBody DEF Collected
  <2>3. SW!local => \A r \in rs : r.ns = RunNs
    BY <1>3, LocalServer DEF SW!agentRefSecretRefs
  <2> HIDE DEF rs
  <2> QED BY <1>1, <1>4, <2>1, <2>2, <2>3, CollectStep
<1>5. CASE stage = "secrets" /\ ns \notin DOMAIN world.provider \cap DOMAIN world.server
  <2>1. SW!reject
    BY <1>5 DEF SW!Agent
  <2>2. ~SW!local
    BY <1>3, <1>5 DEF SW!local
  <2> QED BY <2>1, <2>2, WalkRejects
<1>k. PICK k \in walked : \E i \in DOMAIN world.steps[k] : StandsFor(SW!head, k, i, stage)
  BY <1>1, HeadBody
<1>i. PICK i \in DOMAIN world.steps[k] : StandsFor(SW!head, k, i, stage)
  BY <1>k
<1>c. /\ b = BodyAt(k, i) /\ SW!head.ns = CtxNs(k)
      /\ Ctx(k) \in SW!reachable /\ Ctx(k)[2] = CtxNs(k) /\ BodyAt(k, i) \in SW!executed(Ctx(k))
      /\ stage = "creds" => BodyAt(k, i) \in SW!certainly(Ctx(k))
  BY <1>1, <1>i, HeadBody
<1>6. CASE stage = "agent" \/ (stage = "creds" /\ nirmata)
  <2>1. toWalk' = <<>> /\ found' = found \cup {stage} /\ UNCHANGED <<world, stage, walked, refs>>
    BY <1>6 DEF SW!Agent
  <2>2. stage = "creds" => world.denied /\ SW!credsNeeded
    BY <1>1, <1>6, <1>c, WalkBefore DEF SW!credsNeeded
  <2>3. ns \in SW!agentNamespaces
    BY <1>1, <1>c DEF SW!agentNamespaces
  <2>4. IsSeq(toWalk') /\ Queued(Elems(toWalk'), walked', stage')
    BY <2>1, NoItems DEF Queued
  <2>5. NothingLost(Elems(toWalk'), walked', refs', stage', found')
    <3>1. CASE stage = "agent"
      BY <2>1, <3>1 DEF NothingLost
    <3>2. CASE stage = "creds"
      BY <2>1, <3>2 DEF NothingLost, DoneWith
    <3> QED BY <1>6, <3>1, <3>2
  <2>6. /\ found' \subseteq {"creds", "agent"} /\ ("creds" \in found' => world.denied /\ SW!credsNeeded)
        /\ ("agent" \in found' => SW!agentNamespaces # {})
    BY <1>6, <2>1, <2>2, <2>3, WalkBefore
  <2>7. stage' \notin {"secrets", "built", "rejected"}
    BY <1>6, <2>1
  <2> HIDE DEF ns, b, nirmata
  <2> QED BY <2>1, <2>4, <2>5, <2>6, <2>7, WalkBefore, WalkAfter
<1>7. CASE stage = "creds" /\ ~nirmata
  <2>1. SW!next(<<>>) /\ UNCHANGED <<world, stage, walked, refs, found>>
    BY <1>7 DEF SW!Agent
  <2>2. \A kk, ii : DoneWith(kk, ii, walked, refs', stage)
    BY <1>7 DEF DoneWith
  <2> HIDE DEF ns, b, nirmata
  <2> QED BY <1>1, <2>1, <2>2, HeadBody, WalkBefore, WalkDrops
<1> QED BY <1>2, <1>4, <1>5, <1>6, <1>7

\* A Workflow that a step refers to is visited once.
LEMMA DescendStep == ASSUME WalkInv, SW!Descend PROVE WalkInv'
<1> DEFINE b == SW!head.step.body
           key == SW!subKey(b, SW!head.ns)
<1>1. SW!look("direct") /\ ~SW!skipped /\ b.kind = "workflow"
  BY DEF SW!Descend, SW!lookAt
<1>2. stage \in {"creds", "agent", "secrets"} /\ toWalk # <<>> /\ SW!isWalk
  BY <1>1 DEF SW!look, SW!isWalk
<1>3. world \in Worlds /\ Visited(walked)
  BY WalkBefore
<1>k. PICK k \in walked : \E i \in DOMAIN world.steps[k] : StandsFor(SW!head, k, i, stage)
  BY <1>1, HeadBody
<1>i. PICK i \in DOMAIN world.steps[k] : StandsFor(SW!head, k, i, stage)
  BY <1>k
<1>d. /\ SW!head.depth \in Nat /\ SW!head.depth < Cardinality(walked) /\ SW!head.depth <= MaxRefDepth
  BY <1>2, HeadStands
<1>4. CASE SW!head.depth >= MaxRefDepth \/ key \notin walked \cup DOMAIN world.steps
  <2>1. SW!reject
    BY <1>4 DEF SW!Descend
  <2>2. ASSUME SW!head.depth >= MaxRefDepth PROVE ~SW!local
    <3>1. SW!referred > MaxRefDepth /\ SW!referred \in Nat
      BY <1>2, <2>2, DepthReal
    <3>2. ~(SW!referred <= MaxRefDepth)
      BY <3>1, WorldsAssumption
    <3> QED BY <3>2 DEF SW!local
  <2>3. ASSUME key \notin DOMAIN world.steps PROVE ~SW!local
    <3> SUFFICES ASSUME SW!local PROVE FALSE
      OBVIOUS
    <3>1. SW!head.ns = RunNs /\ b.ns = "" /\ <<b.name, RunNs>> \in DOMAIN world.steps
      BY <1>1, LocalHead
    <3>2. key = <<b.name, RunNs>>
      BY <3>1 DEF SW!subKey, SW!namespaceOr
    <3> QED BY <2>3, <3>1, <3>2
  <2>4. ~SW!local
    BY <1>4, <2>2, <2>3
  <2> HIDE DEF key, b
  <2> QED BY <2>1, <2>4, WalkRejects
<1>5. CASE ~(SW!head.depth >= MaxRefDepth \/ key \notin walked \cup DOMAIN world.steps)
  <2> DEFINE more == IF key \in walked THEN <<>> ELSE SW!items(key, key[2], SW!head.depth + 1)
  <2>1. SW!next(more) /\ walked' = walked \cup {key} /\ UNCHANGED <<world, stage, refs, found>>
    BY <1>5 DEF SW!Descend
  <2>2. key \in DOMAIN world.steps /\ ~(SW!head.depth >= MaxRefDepth)
    BY <1>3, <1>5 DEF Visited
  <2>3. \A kk \in walked : \A ii \in DOMAIN world.steps[kk] :
          StandsFor(SW!head, kk, ii, stage) =>
            BodyAt(kk, ii) = b /\ SW!subKey(BodyAt(kk, ii), CtxNs(kk)) = key
    BY <1>1, HeadBody
  <2>4. key # SW!rootKey => Ctx(key) \in SW!reachable
    <3>1. BodyAt(k, i).kind = "workflow" /\ SW!subKey(BodyAt(k, i), CtxNs(k)) = key
      BY <1>1, <1>i, <2>3
    <3> HIDE DEF key, b
    <3> QED BY <1>3, <2>2, <3>1, SubReached
  <2>5. Visited(walked')
    BY <1>3, <2>1, <2>2, <2>4 DEF Visited
  <2>6. \A kk \in walked : \A ii \in DOMAIN world.steps[kk] :
          StandsFor(SW!head, kk, ii, stage) => DoneWith(kk, ii, walked', refs', stage)
    <3> SUFFICES ASSUME NEW kk \in walked, NEW ii \in DOMAIN world.steps[kk], StandsFor(SW!head, kk, ii, stage)
                 PROVE  DoneWith(kk, ii, walked', refs', stage)
      OBVIOUS
    <3>1. BodyAt(kk, ii).kind = "workflow" /\ SW!subKey(BodyAt(kk, ii), CtxNs(kk)) \in walked'
      BY <1>1, <2>1, <2>3
    <3> HIDE DEF key, b
    <3> QED BY <3>1 DEF DoneWith, Followed, Collected
  <2>7. walked \subseteq walked' /\ refs \subseteq refs' /\ (SW!local => \A r \in refs' : r.ns = RunNs)
    BY <2>1, WalkBefore
  <2>8. CASE key \in walked
    <3>1. more = <<>> /\ walked' = walked
      BY <2>1, <2>8
    <3> HIDE DEF key, b, more
    <3> QED BY <1>2, <2>1, <2>5, <2>6, <2>7, <3>1, NoItems, WalkMoves
  <2>9. CASE key \notin walked
    <3>1. CtxNs(key) = key[2] /\ more = SW!items(key, CtxNs(key), SW!head.depth + 1)
      BY <1>3, <2>9 DEF CtxNs, Visited
    <3> HIDE DEF key, b, more
    <3>2. /\ IsSeq(more)
          /\ \A it \in Elems(more) : /\ it.depth = SW!head.depth + 1
                                     /\ \E ii \in DOMAIN world.steps[key] : StandsFor(it, key, ii, stage)
          /\ \A ii \in DOMAIN world.steps[key] : Waiting(Elems(more), key, ii, stage)
      BY <1>3, <2>2, <3>1, ItemsOf
    <3>3. IsFiniteSet(walked) /\ Cardinality(walked) \in Nat
      BY <1>3, VisitedFinite DEF Visited
    <3>4. Cardinality(walked') = Cardinality(walked) + 1
      BY <2>1, <2>9, <3>3, FS_AddElement
    <3>5. SW!head.depth + 1 \in Nat /\ SW!head.depth + 1 < Cardinality(walked') /\ SW!head.depth + 1 <= MaxRefDepth
      BY <1>d, <2>2, <3>3, <3>4, WorldsAssumption
    <3>6. \A it \in Elems(more) : /\ Represented(it, walked', stage)
                                  /\ it.depth \in Nat /\ it.depth < Cardinality(walked') /\ it.depth <= MaxRefDepth
      BY <2>1, <3>2, <3>5 DEF Represented
    <3>7. \A kk \in walked' : \A ii \in DOMAIN world.steps[kk] :
            kk \notin walked \/ StandsFor(SW!head, kk, ii, stage) =>
              Waiting(Elems(more), kk, ii, stage) \/ DoneWith(kk, ii, walked', refs', stage)
      BY <2>1, <2>6, <3>2
    <3> QED BY <1>2, <2>1, <2>5, <2>7, <3>2, <3>6, <3>7, WalkMoves
  <2> QED BY <2>8, <2>9
<1> QED BY <1>4, <1>5

\* One walk follows another, each over the same Workflows.
LEMMA EndWalkStep == ASSUME WalkInv, SW!EndWalk PROVE WalkInv'
<1>1. stage \in {"creds", "agent"} /\ toWalk = <<>> /\ UNCHANGED <<world, refs, found>>
  BY DEF SW!EndWalk
<1>2. CASE SW!refused
  <2>1. stage' = "rejected" /\ UNCHANGED <<toWalk, walked>>
    BY <1>2 DEF SW!EndWalk
  <2>2. ~SW!local
    BY <1>2, WalkBefore DEF SW!local, SW!refused
  <2> QED BY <1>1, <2>1, <2>2, WalkRejects DEF SW!reject
<1>3. CASE ~SW!refused
  <2>1. /\ stage' = (IF stage = "creds" THEN "agent" ELSE "secrets")
        /\ toWalk' = SW!items(SW!rootKey, RunNs, 0) /\ walked' = {SW!rootKey}
    BY <1>3 DEF SW!EndWalk, SW!begin
  <2>2. /\ IsSeq(toWalk') /\ Visited(walked') /\ Queued(Elems(toWalk'), walked', stage')
        /\ NothingLost(Elems(toWalk'), walked', refs', stage', found')
    BY <2>1, WalkBefore, WalkBegins
  <2>3. stage' \in {"agent", "secrets"}
    BY <2>1
  <2>4. ASSUME stage' = "secrets", "agent" \notin found, ~SW!rootReentered PROVE SW!agentNamespaces = {}
    <3>1. stage = "agent"
      BY <1>1, <2>1, <2>4
    <3>2. \A k \in walked : \A i \in DOMAIN world.steps[k] : DoneWith(k, i, walked, refs, "agent")
      BY <1>1, <2>4, <3>1, NoItems, WalkBefore DEF NothingLost, Waiting
    <3>3. \A k \in walked : \A i \in DOMAIN world.steps[k] : Followed(k, i, walked) /\ BodyAt(k, i).kind # "agent"
      BY <3>2 DEF DoneWith
    <3>4. \A c \in SW!reachable : \E k \in walked : c = Ctx(k)
      BY <2>4, <3>3, AllVisited, WalkBefore
    <3>5. \A c \in SW!reachable : \A b \in SW!executed(c) : b.kind # "agent"
      BY <3>3, <3>4, ExecutedAt
    <3> QED BY <3>5 DEF SW!agentNamespaces
  <2> QED BY <1>1, <2>2, <2>3, <2>4, WalkBefore, WalkAfter DEF WalkStages
<1> QED BY <1>2, <1>3

\* The references of the last walk are judged.
LEMMA FinishStep == ASSUME WalkInv, SW!Finish PROVE WalkInv'
<1>1. /\ stage = "secrets" /\ toWalk = <<>> /\ UNCHANGED <<world, toWalk, walked, found>>
      /\ refs' = refs \cup SW!kubeconfigRef
      /\ stage' = (IF SW!validateSecretRefPolicy(refs') /\ SW!buildSecretMounts(refs') /\ SW!checkSecretMounts(refs')
                   THEN "built" ELSE "rejected")
  BY DEF SW!Finish
<1>2. SW!local => \A r \in refs' : r.ns = RunNs
  <2> SUFFICES ASSUME SW!local, NEW r \in refs' PROVE r.ns = RunNs
    OBVIOUS
  <2>1. CASE r \in refs
    BY <2>1, WalkBefore
  <2>2. CASE r \in SW!kubeconfigRef
    <3>1. world.kubeconfig \subseteq {""}
      BY DEF SW!local
    <3>2. PICK ns \in world.kubeconfig : r = SW!ref(SW!namespaceOr(ns, RunNs), "kubeconfig", "", FALSE, TRUE)
      BY <2>2 DEF SW!kubeconfigRef
    <3>3. SW!namespaceOr(ns, RunNs) = RunNs
      BY <3>1 DEF SW!namespaceOr
    <3> QED BY <3>2, <3>3 DEF SW!ref
  <2> QED BY <1>1, <2>1, <2>2
<1>3. SW!local => SW!validateSecretRefPolicy(refs') /\ SW!buildSecretMounts(refs') /\ SW!checkSecretMounts(refs')
  BY <1>2 DEF SW!local, SW!validateSecretRefPolicy, SW!buildSecretMounts, SW!checkSecretMounts
<1>4. stage' = "rejected" => ~SW!local
  BY <1>1, <1>3
<1>5. stage' \in {"built", "rejected"} /\ (stage' = "built" => SW!validateSecretRefPolicy(refs'))
  BY <1>1
<1>6. IsSeq(toWalk') /\ Queued(Elems(toWalk'), walked', stage')
  BY <1>1, NoItems DEF Queued
<1>7. NothingLost(Elems(toWalk'), walked', refs', stage', found')
  <2>1. \A k \in walked : \A i \in DOMAIN world.steps[k] : DoneWith(k, i, walked, refs, "secrets")
    BY <1>1, NoItems, WalkBefore DEF NothingLost, Waiting
  <2>2. refs \subseteq refs'
    BY <1>1
  <2>3. \A k \in walked : \A i \in DOMAIN world.steps[k] : DoneWith(k, i, walked, refs', "secrets")
    BY <2>1, <2>2, DoneStays
  <2>4. \A k, i : DoneWith(k, i, walked, refs', "secrets") => DoneWith(k, i, walked, refs', stage')
    BY <1>5 DEF DoneWith
  <2> QED BY <1>1, <2>3, <2>4 DEF NothingLost
<1> QED BY <1>1, <1>2, <1>4, <1>5, <1>6, <1>7, WalkBefore, WalkAfter DEF WalkStages

\* Nothing happens.
LEMMA WalkStays == ASSUME WalkInv, UNCHANGED SW!walkVars PROVE WalkInv'
<1>1. UNCHANGED <<world, stage, toWalk, walked, refs, found>>
  BY DEF SW!walkVars
<1> QED BY <1>1, WalkBefore, WalkAfter

\* Every step of the walks keeps the invariant.
LEMMA WalkStep == WalkInv /\ [SW!Next]_SW!walkVars => WalkInv'
<1> SUFFICES ASSUME WalkInv, [SW!Next]_SW!walkVars PROVE WalkInv'
  OBVIOUS
<1> QED BY SkipStep, ExpandStep, ForEachBody, PlainStep, ExternalStep, McpToolStep, AgentStep, DescendStep,
           EndWalkStep, FinishStep, WalkStays DEF SW!Next

\* What a client of a server reads is what its references name.
LEMMA ReadsCovered ==
  ASSUME NEW ns, NEW mount, NEW s \in SW!clientReads(ns)
  PROVE  \E k : \E o \in BOOLEAN : /\ SW!ref(s.ns, "mcp", k, o, mount) \in SW!mcpServerSecretRefs(ns, mount)
                                /\ s = SW!secret(s.ns, "mcp", k)
<1> DEFINE v == world.server[ns]
<1>1. CASE v.transport = "stdio"
  <2>1. v.env # "none" /\ s = SW!secret(ns, "mcp", "env")
    BY <1>1 DEF SW!clientReads
  <2>2. s.ns = ns
    BY <2>1 DEF SW!secret
  <2>3. SW!ref(ns, "mcp", "env", v.env = "optional", mount) \in SW!mcpServerSecretRefs(ns, mount)
    BY <2>1 DEF SW!mcpServerSecretRefs
  <2> QED BY <2>1, <2>2, <2>3
<1>2. CASE v.transport # "stdio"
  <2> DEFINE place == SW!namespaceOr(v.ns, ns)
             names == CASE v.auth = "basic" -> {"username", "password"}
                       [] v.auth = "clientCredentials" -> {"client_id", "client_secret"}
                       [] v.auth \in {"bearer", "clientSecret"} -> {"token"}
                       [] OTHER -> {}
             read == CASE v.auth \in {"bearer", "clientSecret"} -> {"token"}
                       [] v.auth = "basic" -> {"username", "password"}
                       [] v.auth = "clientCredentials" -> {"client_id", "client_secret"}
                       [] OTHER -> {}
  <2>1. names = read
    OBVIOUS
  <2>2. SW!clientReads(ns) = {SW!secret(place, "mcp", k) : k \in read}
    BY <1>2 DEF SW!clientReads, SW!resolveAuthConfigs
  <2>3. {SW!ref(place, "mcp", k, FALSE, mount) : k \in names} \subseteq SW!mcpServerSecretRefs(ns, mount)
    BY DEF SW!mcpServerSecretRefs
  <2> HIDE DEF names, read, place
  <2>4. PICK k \in read : s = SW!secret(place, "mcp", k)
    BY <2>2
  <2>5. s.ns = place
    BY <2>4 DEF SW!secret
  <2>6. SW!ref(place, "mcp", k, FALSE, mount) \in SW!mcpServerSecretRefs(ns, mount)
    BY <2>1, <2>3, <2>4
  <2> QED BY <2>4, <2>5, <2>6
<1> QED BY <1>1, <1>2

\* A mounted reference is in the map of mounts.
LEMMA MountedIs ==
  ASSUME NEW ns, NEW n, NEW k, NEW o \in BOOLEAN, SW!ref(ns, n, k, o, TRUE) \in refs, n # "kubeconfig"
  PROVE  SW!secret(ns, n, k) \in SW!mountsMap
<1> DEFINE r == SW!ref(ns, n, k, o, TRUE)
<1>1. r.ns = ns /\ r.name = n /\ r.key = k /\ r.optional = o /\ r.mount
  BY DEF SW!ref
<1>2. SW!id(r) = SW!secret(ns, n, k)
  BY <1>1 DEF SW!id, SW!secret
<1> HIDE DEF r
<1>3. r \in refs
  BY DEF r
<1>4. CASE o
  BY <1>1, <1>2, <1>3, <1>4 DEF SW!mountsMap, SW!optionalKeys
<1>5. CASE ~o
  BY <1>1, <1>2, <1>3, <1>5 DEF SW!mountsMap, SW!mandatory
<1> QED BY <1>4, <1>5

\* When the Job is built the last walk has followed and collected every step.
LEMMA BuiltIsDone ==
  ASSUME WalkInv, stage = "built", ~SW!rootReentered
  PROVE  /\ \A c \in SW!reachable : \A b \in SW!executed(c) :
              \E k \in walked : \E i : BodyAt(k, i) = b /\ CtxNs(k) = c[2] /\ Collected(k, i, refs)
         /\ SW!validateSecretRefPolicy(refs)
<1>1. toWalk = <<>> /\ SW!validateSecretRefPolicy(refs) /\ Visited(walked)
  BY WalkBefore
<1>2. \A k \in walked : \A i \in DOMAIN world.steps[k] : DoneWith(k, i, walked, refs, "built")
  BY <1>1, NoItems, WalkBefore DEF NothingLost, Waiting
<1>3. \A k \in walked : \A i \in DOMAIN world.steps[k] : Followed(k, i, walked) /\ Collected(k, i, refs)
  BY <1>2 DEF DoneWith
<1>4. \A c \in SW!reachable : \E k \in walked : c = Ctx(k)
  BY <1>1, <1>3, AllVisited
<1>5. ASSUME NEW c \in SW!reachable, NEW b \in SW!executed(c)
      PROVE  \E k \in walked : \E i : BodyAt(k, i) = b /\ CtxNs(k) = c[2] /\ Collected(k, i, refs)
  <2>1. PICK k \in walked : c = Ctx(k)
    BY <1>4
  <2>2. PICK i \in DOMAIN world.steps[k] : b = BodyAt(k, i)
    BY <2>1, ExecutedAt
  <2>3. CtxNs(k) = c[2]
    BY <2>1 DEF Ctx
  <2> QED BY <1>3, <2>2, <2>3
<1> QED BY <1>1, <1>5

\* The runner finds every Secret that it reads.
LEMMA WalkMounts == ASSUME WalkInv PROVE SW!MountsSuffice
<1> SUFFICES ASSUME stage = "built", ~SW!rootReentered, NEW s \in SW!runnerReads PROVE s \in SW!mountsMap
  BY DEF SW!MountsSuffice
<1>1. PICK c \in SW!reachable : \E b \in SW!executed(c) : s \in SW!bodyReads(b, c[2])
  BY DEF SW!runnerReads
<1>2. PICK b \in SW!executed(c) : s \in SW!bodyReads(b, c[2])
  BY <1>1
<1>k. PICK k \in walked : \E i : BodyAt(k, i) = b /\ CtxNs(k) = c[2] /\ Collected(k, i, refs)
  BY BuiltIsDone
<1>3. PICK i : BodyAt(k, i) = b /\ CtxNs(k) = c[2] /\ Collected(k, i, refs)
  BY <1>k
<1>4. CASE b.kind = "external"
  <2>1. PICK key \in {"ca.crt", "token"} : s = SW!secret(SW!namespaceOr(b.ns, c[2]), "agent", key)
    BY <1>2, <1>4 DEF SW!bodyReads
  <2>2. SW!ref(SW!namespaceOr(b.ns, c[2]), "agent", key, FALSE, TRUE) \in refs
    BY <1>3, <1>4 DEF Collected, SW!externalAgentRefSecretRefs
  <2> QED BY <2>1, <2>2, MountedIs
<1>5. CASE b.kind = "mcp"
  <2>1. s \in SW!clientReads(c[2])
    BY <1>2, <1>5 DEF SW!bodyReads
  <2>2. SW!mcpServerSecretRefs(c[2], TRUE) \subseteq refs
    BY <1>3, <1>5 DEF Collected
  <2>k. PICK key : \E o \in BOOLEAN : /\ SW!ref(s.ns, "mcp", key, o, TRUE) \in SW!mcpServerSecretRefs(c[2], TRUE)
                                      /\ s = SW!secret(s.ns, "mcp", key)
    BY <2>1, ReadsCovered
  <2>3. PICK o \in BOOLEAN : /\ SW!ref(s.ns, "mcp", key, o, TRUE) \in SW!mcpServerSecretRefs(c[2], TRUE)
                             /\ s = SW!secret(s.ns, "mcp", key)
    BY <2>k
  <2> QED BY <2>2, <2>3, MountedIs
<1>6. CASE b.kind \notin {"external", "mcp"}
  BY <1>2, <1>6 DEF SW!bodyReads
<1> QED BY <1>4, <1>5, <1>6

\* The agents of a run use no Secret of a namespace that is not allowed.
LEMMA WalkVets == ASSUME WalkInv PROVE SW!AgentsVetted
<1> SUFFICES ASSUME stage = "built", ~SW!rootReentered
             PROVE  /\ \A ns \in SW!agentNamespaces : \A s \in SW!clientReads(ns) : s.ns = RunNs \/ s.ns \in world.allowed
                    /\ "agent" \in found <=> SW!agentNamespaces # {}
  BY DEF SW!AgentsVetted
<1>1. "agent" \in found <=> SW!agentNamespaces # {}
  BY WalkBefore
<1>2. ASSUME NEW ns \in SW!agentNamespaces, NEW s \in SW!clientReads(ns)
      PROVE  s.ns = RunNs \/ s.ns \in world.allowed
  <2>1. PICK c \in SW!reachable : \E b \in SW!executed(c) : b.kind = "agent" /\ ns = SW!namespaceOr(b.ns, c[2])
    BY DEF SW!agentNamespaces
  <2>2. PICK b \in SW!executed(c) : b.kind = "agent" /\ ns = SW!namespaceOr(b.ns, c[2])
    BY <2>1
  <2>k. PICK k \in walked : \E i : BodyAt(k, i) = b /\ CtxNs(k) = c[2] /\ Collected(k, i, refs)
    BY BuiltIsDone
  <2>3. PICK i : BodyAt(k, i) = b /\ CtxNs(k) = c[2] /\ Collected(k, i, refs)
    BY <2>k
  <2>4. SW!mcpServerSecretRefs(ns, FALSE) \subseteq refs
    BY <2>2, <2>3 DEF Collected, SW!agentRefSecretRefs
  <2>4k. PICK key : \E o \in BOOLEAN : SW!ref(s.ns, "mcp", key, o, FALSE) \in SW!mcpServerSecretRefs(ns, FALSE)
    BY ReadsCovered
  <2>5. PICK o \in BOOLEAN : SW!ref(s.ns, "mcp", key, o, FALSE) \in SW!mcpServerSecretRefs(ns, FALSE)
    BY <2>4k
  <2>6. SW!ref(s.ns, "mcp", key, o, FALSE).ns = s.ns /\ ~SW!ref(s.ns, "mcp", key, o, FALSE).mount
    BY DEF SW!ref
  <2> QED BY <2>4, <2>5, <2>6, BuiltIsDone DEF SW!validateSecretRefPolicy
<1> QED BY <1>1, <1>2

\* It gives all that the walks promise.
LEMMA WalkImplies == WalkInv => SW!TypeOK /\ SW!WalkSound
<1> SUFFICES ASSUME WalkInv PROVE SW!TypeOK /\ SW!WalkSound
  OBVIOUS
<1>1. SW!TypeOK
  <2>1. \A it \in Elems(toWalk) : it.depth <= MaxRefDepth
    BY WalkBefore DEF Queued
  <2>2. DOMAIN toWalk = 1 .. Len(toWalk)
    BY WalkBefore, LenProperties DEF IsSeq
  <2>3. \A i \in DOMAIN toWalk : toWalk[i].depth <= MaxRefDepth
    BY <2>1, <2>2 DEF Elems
  <2> QED BY <2>3, WalkBefore DEF SW!TypeOK, WalkStages, Visited
<1>2. SW!CredsEarned
  BY WalkBefore DEF SW!CredsEarned
<1>3. SW!DepthIsReal
  BY DepthReal DEF SW!DepthIsReal, SW!lookAt, SW!look
<1>4. SW!LocalIsAccepted
  BY WalkBefore DEF SW!LocalIsAccepted
<1> QED BY <1>1, <1>2, <1>3, <1>4, WalkMounts, WalkVets DEF SW!WalkSound

\* buildWorkflowRunnerJob: the Job mounts every Secret that the runner's own code will
\* read, its agents are vetted, and a run is refused, for credentials it is denied or
\* otherwise, only for a reason: for every cluster of finitely many Workflows, cyclic references included.
THEOREM WalksAgree == SW!Spec => [](SW!TypeOK /\ SW!WalkSound)
<1>1. SW!Spec => []WalkInv
  BY WalkInit, WalkStep, PTL DEF SW!Spec
<1> QED BY <1>1, WalkImplies, PTL

\* The same of the walks as MCSafety runs them.
THEOREM SecretsPart == PartsSpec => []WalkSound
<1> DEFINE PartInv == part = "secrets" => WalkInv
<1>1. PartsInit => PartInv
  BY WalkInit DEF PartsInit
<1>2. PartInv /\ [PartsNext]_allVars => PartInv'
  <2>1. [PartsNext]_allVars => part' = part /\ (part = "secrets" => [SW!Next]_SW!walkVars)
    BY DEF PartsNext, allVars, only, secretsVars, SW!walkVars
  <2> QED BY <2>1, WalkStep
<1>3. PartInv => WalkSound
  BY WalkImplies DEF WalkSound
<1> HIDE DEF PartInv
<1> QED BY <1>1, <1>2, <1>3, PTL DEF PartsSpec

----------------------------------------------------------------------------
(* The parts of MCSafety together.                                         *)

\* The part at work has its invariant.
PartsInv ==
  /\ part \in Parts
  /\ part = "cycle" => Inv
  /\ part = "mcp" => PoolInv
  /\ part = "secrets" => WalkInv
  /\ part = "gc" => CollectorInv
  /\ part = "webhook" => HookInv
  /\ part = "admission" => AdmInv
  /\ part = "finished" => FinishedInv
  /\ part = "access" => AccessInv
  /\ part = "exposure" => ExposureInv
  /\ part = "records" => RecordsInv
  /\ part = "targets" => TargetsInv

\* Every part begins with its invariant.
LEMMA PartsStart == PartsInit => PartsInv
  BY InitInv, PoolInit, WalkInit, CollectorInit, HookInit, AdmissionInit, FinishedInit, AccessInit,
     ExposureInit, RecordsInit, TargetsInit
     DEF PartsInit, PartsInv

\* A step is one of the part at work.
LEMMA PartMoves ==
  ASSUME [PartsNext]_allVars
  PROVE  /\ part' = part
         /\ part = "cycle" => [Next]_vars
         /\ part = "mcp" => [MP!Next]_mcpVars
         /\ part = "secrets" => [SW!Next]_SW!walkVars
         /\ part = "gc" => [GC!Next]_gcVars
         /\ part = "webhook" => [WH!Next]_webhookVars
         /\ part = "admission" => [AD!Next]_admissionVars
         /\ part = "finished" => [FR!Next]_finishedVars
         /\ part = "access" => RA!Next \/ UNCHANGED RA!accessVars
         /\ part = "exposure" => [EX!Next]_exposureVars
         /\ part = "records" => [RR!Next]_recordsVars
         /\ part = "targets" => [TW!Next]_targetsVars
<1>1. UNCHANGED secretsVars => UNCHANGED SW!walkVars
  BY DEF secretsVars, SW!walkVars
<1>2. UNCHANGED accessVars => UNCHANGED RA!accessVars
  BY DEF accessVars, RA!accessVars
<1> QED BY <1>1, <1>2 DEF PartsNext, only, allVars

\* And keeps its invariant.
LEMMA PartsStep == PartsInv /\ [PartsNext]_allVars => PartsInv'
<1> SUFFICES ASSUME PartsInv, [PartsNext]_allVars PROVE PartsInv'
  OBVIOUS
<1>1. part' = part
  BY PartMoves
<1>2. /\ part = "cycle" => Inv'
      /\ part = "mcp" => PoolInv'
      /\ part = "secrets" => WalkInv'
      /\ part = "gc" => CollectorInv'
  BY PartMoves, NextInv, PoolStep, WalkStep, CollectorStep DEF PartsInv
<1>3. /\ part = "webhook" => HookInv'
      /\ part = "admission" => AdmInv'
      /\ part = "finished" => FinishedInv'
      /\ part = "access" => AccessInv'
  BY PartMoves, HookStep, AdmissionStep, FinishedStep, AccessStep DEF PartsInv
<1>4. /\ part = "exposure" => ExposureInv'
      /\ part = "records" => RecordsInv'
      /\ part = "targets" => TargetsInv'
  BY PartMoves, ExposureStep, RecordsStep, TargetsStep DEF PartsInv
<1> QED BY <1>1, <1>2, <1>3, <1>4 DEF PartsInv

\* The invariants have the types.
LEMMA PartsTypes == PartsInv => PartsTypeOK
<1> SUFFICES ASSUME PartsInv PROVE PartsTypeOK
  OBVIOUS
<1>1. /\ Inv => TypeOK
      /\ PoolInv => MP!TypeOK
      /\ CollectorInv => GC!TypeOK
  BY DEF Inv, PoolInv, CollectorInv
<1> QED BY <1>1, WalkImplies, HookImplies, AdmissionImplies, FinishedImplies, AccessImplies, ExposureImplies,
           RecordsImplies, TargetsImplies DEF PartsInv, PartsTypeOK, Parts

\* The parts that MCSafety runs keep their types and limits: the stack of HasCycle, a
\* walk through sub-workflows to maxWorkflowRefDepth, the pool's clients, the places
\* of every reconcile and the records it writes.
THEOREM SafetyPartsTyped == PartsSpec => []PartsTypeOK
  BY PartsStart, PartsStep, PartsTypes, PTL DEF PartsSpec
============================================================================
