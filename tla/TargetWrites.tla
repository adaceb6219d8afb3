---------------------------- MODULE TargetWrites ----------------------------
(***************************************************************************)
(* The steps that write to the target cluster: mutate (mutate_executor.go) *)
(* and openReport (openreport_executor.go), run as children of a forEach   *)
(* at the same time, next to whoever else writes there.                    *)
(*                                                                         *)
(* A mutate step gets an object, computes a patch from what it got and     *)
(* sends the patch without a version.  An openReport step asks whether     *)
(* Reports exist, once for each executor, then creates or updates one.     *)
(* The runner has one executor, each Workflow run inline by a workflowRef  *)
(* step has one of its own, and so has a runner that resumes the run.      *)
(*                                                                         *)
(* An object is its paths and their values; a Report is the step whose     *)
(* summary and results it holds, the step whose scope it has and what      *)
(* others put into its metadata.                                           *)
(***************************************************************************)
EXTENDS Naturals

CONSTANTS
  Children,     \* steps that run in parallel
  Executors,    \* the executors they run in
  Paths,        \* paths of the object they mutate
  Asks,         \* what a mutate step may ask: an operation for each path
  MaxOthers     \* bound on what others do

VARIABLES
  target,       \* the object, or Gone
  report,       \* the Report
  installed,    \* is the OpenReports CRD installed?
  probe,        \* openReportsCRDOnce of each executor: what it found
  child,        \* the steps
  outside       \* how often others did something

targetVars == <<target, report, installed, probe, child, outside>>

\* Every step that sets a path sets it to "new".
Values == {"absent", "old", "new"}
Operations == {"none", "add", "replace", "remove", "test"}
Gone == [p \in Paths |-> "gone"]

NoReport == [by |-> "nobody", scope |-> "nobody", meta |-> 0, version |-> 0]
Idle == [pc |-> "idle", kind |-> "none", ask |-> [p \in Paths |-> "none"], copy |-> Gone,
         found |-> NoReport, scoped |-> FALSE, executor |-> "none"]

Init ==
  /\ target \in [Paths -> {"absent", "old"}] \cup {Gone}
  /\ report = NoReport /\ installed \in BOOLEAN /\ probe = [x \in Executors |-> "none"]
  /\ child = [c \in Children |-> Idle] /\ outside = 0

goTo(c, pc) == child' = [child EXCEPT ![c].pc = pc]

\* executeMutate and executeOpenReportStep up to their first call: what they ask
\* for comes from expressions.
Start(c) ==
  /\ child[c].pc = "idle"
  /\ \/ \E kind \in {"ApplyConfiguration", "JSONPatch"}, ask \in Asks :
          /\ kind = "ApplyConfiguration" => \A p \in Paths : ask[p] \in {"none", "add", "remove"}
          /\ child' = [child EXCEPT ![c] = [Idle EXCEPT !.pc = "get", !.kind = kind, !.ask = ask]]
     \/ \E scoped \in BOOLEAN, x \in Executors :
          child' = [child EXCEPT ![c] = [Idle EXCEPT !.pc = "probe", !.kind = "report", !.scoped = scoped,
                                                     !.executor = x]]
  /\ UNCHANGED <<target, report, installed, probe, outside>>

\* An expression is wrong, or a call of the API server fails.
Fails(c) ==
  /\ child[c].pc \in {"get", "patch", "create", "getReport", "update", "outputs"}
  /\ goTo(c, "failed")
  /\ UNCHANGED <<target, report, installed, probe, outside>>
----------------------------------------------------------------------------
MutateGet(c) ==
  /\ child[c].pc = "get"
  /\ IF target = Gone THEN goTo(c, "failed")
     ELSE child' = [child EXCEPT ![c].pc = "patch", ![c].copy = target]
  /\ UNCHANGED <<target, report, installed, probe, outside>>

wanted(op) == IF op = "remove" THEN "absent" ELSE "new"

\* deepMergeMap: what the expression returned goes over what was got.
deepMergeMap(base, ask) ==
  [p \in Paths |-> IF ask[p] = "none" THEN base[p] ELSE wanted(ask[p])]

\* MergeFrom: the paths in which the merged object differs from the one that was
\* got, and those that are to be null.
mergePaths(c) ==
  LET merged == deepMergeMap(child[c].copy, child[c].ask)
  IN {p \in Paths : merged[p] # child[c].copy[p] \/ child[c].ask[p] = "remove"}

applyPatch_Whole(c) == deepMergeMap(child[c].copy, child[c].ask)

\* The merge patch sets these paths in the object as it is now.
applyPatch(c) ==
  [p \in Paths |-> IF p \in mergePaths(c) THEN wanted(child[c].ask[p]) ELSE target[p]]

\* RFC 6902, all or nothing, on the object as it is now.
operationFits(op, value) ==
  CASE op \in {"replace", "remove"} -> value # "absent"
    [] op = "test" -> value = "new"
    [] OTHER -> TRUE

jsonPatch(c) ==
  [p \in Paths |-> IF child[c].ask[p] \in {"none", "test"} THEN target[p] ELSE wanted(child[c].ask[p])]

\* A JSON patch without operations is not sent.
sent(c) == child[c].kind = "JSONPatch" => \E p \in Paths : child[c].ask[p] # "none"

accepted(c) ==
  /\ target # Gone
  /\ child[c].kind = "JSONPatch" => \A p \in Paths : operationFits(child[c].ask[p], target[p])

Patch(c) ==
  /\ child[c].pc = "patch"
  /\ goTo(c, IF sent(c) /\ ~accepted(c) THEN "failed" ELSE "outputs")
  /\ target' = IF ~(sent(c) /\ accepted(c)) THEN target
               ELSE IF child[c].kind = "JSONPatch" THEN jsonPatch(c) ELSE applyPatch(c)
  /\ UNCHANGED <<report, installed, probe, outside>>

\* WriteStepOutputs.
Outputs(c) ==
  /\ child[c].pc = "outputs" /\ goTo(c, "done")
  /\ UNCHANGED <<target, report, installed, probe, outside>>
----------------------------------------------------------------------------
\* isOpenReportsCRDAvailable: the first of an executor asks, whoever comes meanwhile
\* waits, and the answer stays: there, not there or not for us to know, or an error.
probed(c) == probe[child[c].executor]

Probe(c) ==
  /\ child[c].pc = "probe" /\ probed(c) = "none"
  /\ \E answer \in {IF installed THEN "available" ELSE "unavailable", "unavailable", "error"} :
       probe' = [probe EXCEPT ![child[c].executor] = answer]
  /\ UNCHANGED <<target, report, installed, child, outside>>

Probed(c) ==
  /\ child[c].pc = "probe" /\ probed(c) # "none"
  /\ CASE probed(c) = "available" -> goTo(c, "create")
       [] probed(c) = "unavailable" -> goTo(c, "dataOutputs")
       [] probed(c) = "error" -> goTo(c, "failed")
  /\ UNCHANGED <<target, report, installed, probe, outside>>

\* Without a CRD the data goes to the outputs only.
DataOutputs(c) ==
  /\ child[c].pc = "dataOutputs" /\ \E pc \in {"data", "failed"} : goTo(c, pc)
  /\ UNCHANGED <<target, report, installed, probe, outside>>

scopeOf(c) == IF child[c].scoped THEN c ELSE "nobody"

\* createOpenReportCRD: Create, and when there is one already Get.
CreateReport(c) ==
  /\ child[c].pc = "create"
  /\ CASE ~installed -> goTo(c, "failed") /\ UNCHANGED report
       [] installed /\ report.by = "nobody" ->
            /\ report' = [by |-> c, scope |-> scopeOf(c), meta |-> 0, version |-> report.version + 1]
            /\ goTo(c, "outputs")
       [] OTHER -> goTo(c, "getReport") /\ UNCHANGED report
  /\ UNCHANGED <<target, installed, probe, outside>>

GetReport(c) ==
  /\ child[c].pc = "getReport"
  /\ IF report.by = "nobody" THEN goTo(c, "failed")
     ELSE child' = [child EXCEPT ![c].pc = "update", ![c].found = report]
  /\ UNCHANGED <<target, report, installed, probe, outside>>

\* What was got, with this step's source, summary and results, and its scope or none.
updated(c) ==
  [child[c].found EXCEPT !.by = c, !.scope = scopeOf(c), !.version = @ + 1]

\* A conflict, as every error, fails the step.
UpdateReport(c) ==
  /\ child[c].pc = "update"
  /\ IF report.by # "nobody" /\ report.version = child[c].found.version
     THEN report' = updated(c) /\ goTo(c, "outputs")
     ELSE goTo(c, "failed") /\ UNCHANGED report
  /\ UNCHANGED <<target, installed, probe, outside>>
----------------------------------------------------------------------------
\* Others edit, delete or create the object, put something into the Report's
\* metadata, delete it, or install and remove the CRD, and with it the Report.
Others ==
  /\ outside < MaxOthers /\ outside' = outside + 1
  /\ \/ /\ target' \in {[target EXCEPT ![p] = v] : p \in IF target = Gone THEN {} ELSE Paths, v \in Values}
                        \cup {Gone, [p \in Paths |-> "old"]}
        /\ UNCHANGED <<report, installed>>
     \/ /\ report.by # "nobody"
        /\ report' \in {[report EXCEPT !.meta = @ + 1, !.version = @ + 1],
                        [NoReport EXCEPT !.version = report.version + 1]}
        /\ UNCHANGED <<target, installed>>
     \/ /\ installed' = ~installed
        /\ report' = [NoReport EXCEPT !.version = report.version + 1]
        /\ UNCHANGED target
  /\ UNCHANGED <<probe, child>>

Next ==
  \/ Others
  \/ \E c \in Children :
       \/ Start(c) \/ Fails(c) \/ MutateGet(c) \/ Patch(c) \/ Outputs(c)
       \/ Probe(c) \/ Probed(c) \/ DataOutputs(c)
       \/ CreateReport(c) \/ GetReport(c) \/ UpdateReport(c)

Spec == Init /\ [][Next]_targetVars
----------------------------------------------------------------------------
TypeOK ==
  /\ target \in [Paths -> Values] \cup {Gone}
  /\ installed \in BOOLEAN /\ probe \in [Executors -> {"none", "available", "unavailable", "error"}]
  /\ {report.by, report.scope} \subseteq Children \cup {"nobody"} /\ report.meta \in 0 .. MaxOthers
  /\ \A c \in Children :
       /\ child[c].pc \in {"idle", "get", "patch", "outputs", "probe", "dataOutputs", "create",
                           "getReport", "update", "done", "data", "failed"}
       /\ child[c].ask \in [Paths -> Operations]
       /\ child[c].copy \in [Paths -> Values] \cup {Gone}
  /\ outside \in 0 .. MaxOthers

(* A mutate step undoes nothing that somebody else, another child of the loop *)
(* included, did to a path it does not ask for, however old its copy is; and  *)
(* what it does ask for is so when its patch was accepted, or was so when it  *)
(* got the object.                                                            *)
OnlyWhatIsAsked ==
  \A c \in Children :
    child[c].pc = "patch" /\ child'[c].pc = "outputs" =>
      \A p \in Paths :
        IF child[c].ask[p] \in {"none", "test"} THEN target'[p] = target[p]
        ELSE wanted(child[c].ask[p]) \in {target'[p], child[c].copy[p]}

(* What others put into a Report's metadata stays there for as long as the    *)
(* Report does, whichever steps update it from an older copy.                 *)
MetadataKept ==
  report.by # "nobody" /\ report'.by # "nobody" => report'.meta >= report.meta

(* A Report is of one step: it never has the results of one and the scope of  *)
(* another that the first did not have.                                       *)
ReportOfOneStep == report.scope \in {"nobody", report.by}

(* The steps of one executor that report agree: none has its results in a     *)
(* Report while another, later or earlier, left its results out of the        *)
(* cluster, though the CRD comes and goes between them.  The steps of one run *)
(* need not: a Workflow run inline by a workflowRef step, and a runner that   *)
(* resumes the run, ask again.                                                *)
OneMode ==
  \A c, d \in Children :
    child[c].executor = child[d].executor =>
      ~(child[c].kind = "report" /\ child[c].pc = "done" /\ child[d].pc = "data")
============================================================================
