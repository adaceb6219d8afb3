------------------------------ MODULE LegacyGC ------------------------------
(***************************************************************************)
(* LegacyRunnerBindingGC: after an upgrade the leader deletes the          *)
(* ClusterRoleBindings that older releases made for runners, except those  *)
(* that a live run still needs.  Runs of the older release go on meanwhile,*)
(* and one that cannot be told apart may start another.                    *)
(***************************************************************************)
EXTENDS Naturals, FiniteSets

CONSTANTS
  Jobs,         \* the older release's Jobs under the binding's ServiceAccount
  MaxPods,      \* bound on pods of a Job (backoffLimit)
  MaxVersions   \* bound on changes of the binding

VARIABLES
  legacyJob,    \* each Job: its condition, its pod, whether its run is over
  crb,          \* the binding: its version, and what it looks like
  judged,       \* the version of the binding the collector has listed
  pinned,       \* what it has found to need the binding
  gcAt,         \* where the collector is
  unseen        \* history: Jobs that came, or came back to life, since it listed Jobs

gcVars == <<legacyJob, crb, judged, pinned, gcAt, unseen>>

\* Another release's binding has another subject; one of the chart's own is
\* labelled so.  An older release's may be ours or another's.
Looks == {"legacy", "otherSubject", "chart"}
Gone == [version |-> 0, looks |-> "gone"]

Job == [state : {"absent", "unfinished", "finished"}, pod : {"none", "running", "ended"},
        pods : 0 .. MaxPods, runOver : BOOLEAN, orphan : BOOLEAN]

Init ==
  /\ legacyJob \in [Jobs ->
       [state : {"unfinished"}, pod : {"none", "running"}, pods : {1}, runOver : BOOLEAN, orphan : BOOLEAN]
         \cup [state : {"absent"}, pod : {"none"}, pods : {0}, runOver : {FALSE}, orphan : {FALSE}]]
  /\ \A j \in Jobs : legacyJob[j].orphan => ~legacyJob[j].runOver
  /\ crb \in [version : {1}, looks : Looks]
  /\ judged = Gone /\ pinned = {} /\ gcAt = "list" /\ unseen = {}

tooLate(j) == unseen' = IF gcAt = "delete" THEN unseen \cup {j} ELSE unseen

\* A controller of the older release, or of one with the same role and account,
\* finds the binding in place and creates the Job of a run.
JobIsCreated(j) ==
  /\ legacyJob[j].state = "absent"
  /\ legacyJob' = [legacyJob EXCEPT ![j].state = "unfinished"]
  /\ tooLate(j) /\ UNCHANGED <<crb, judged, pinned, gcAt>>

\* The pod of a Job ends; the Job retries it, after a while, or is finished.
PodEnds(j) ==
  /\ legacyJob[j].pod = "running"
  /\ legacyJob' = [legacyJob EXCEPT ![j].pod = "ended"]
  /\ UNCHANGED <<crb, judged, pinned, gcAt, unseen>>

PodIsRemoved(j) ==
  /\ legacyJob[j].pod = "ended"
  /\ legacyJob' = [legacyJob EXCEPT ![j].pod = "none"]
  /\ UNCHANGED <<crb, judged, pinned, gcAt, unseen>>

PodStarts(j) ==
  /\ legacyJob[j].state = "unfinished" /\ legacyJob[j].pod # "running" /\ legacyJob[j].pods < MaxPods
  /\ legacyJob' = [legacyJob EXCEPT ![j].pod = "running", ![j].pods = @ + 1]
  /\ UNCHANGED <<crb, judged, pinned, gcAt, unseen>>

JobFinishes(j) ==
  /\ legacyJob[j].state = "unfinished"
  /\ legacyJob' = [legacyJob EXCEPT ![j].state = "finished"]
  /\ UNCHANGED <<crb, judged, pinned, gcAt, unseen>>

RunEnds(j) ==
  /\ legacyJob[j].state # "absent" /\ ~legacyJob[j].runOver /\ ~legacyJob[j].orphan
  /\ legacyJob' = [legacyJob EXCEPT ![j].runOver = TRUE]
  /\ UNCHANGED <<crb, judged, pinned, gcAt, unseen>>

\* A run that was ended under its runner is written back by it.
RunIsRevived(j) ==
  /\ legacyJob[j].pod = "running" /\ legacyJob[j].runOver
  /\ legacyJob' = [legacyJob EXCEPT ![j].runOver = FALSE]
  /\ tooLate(j) /\ UNCHANGED <<crb, judged, pinned, gcAt>>

\* Another release, or an administrator, changes the binding or makes it anew.
OthersChange ==
  /\ crb.version < MaxVersions
  /\ crb' \in [version : {crb.version + 1}, looks : Looks]
  /\ UNCHANGED <<legacyJob, judged, pinned, gcAt, unseen>>

\* controllerOwner, liveRun: the Job's owner exists, is the one it names and is
\* not over.
liveRun(j) == ~legacyJob[j].orphan /\ ~legacyJob[j].runOver

\* Start: list the bindings; isLegacy.
List ==
  /\ gcAt = "list"
  /\ judged' = crb /\ pinned' = {}
  /\ gcAt' = IF crb.looks = "legacy" THEN "pods" ELSE "done"
  /\ UNCHANGED <<legacyJob, crb, unseen>>

\* A lookup that fails keeps the binding.
LookupFails ==
  /\ gcAt \in {"pods", "jobs"}
  /\ gcAt' = "done" /\ UNCHANGED <<legacyJob, crb, judged, pinned, unseen>>

PinningPods ==
  /\ gcAt = "pods"
  /\ pinned' = {j \in Jobs : legacyJob[j].pod = "running" /\ liveRun(j)}
  /\ gcAt' = "jobs" /\ UNCHANGED <<legacyJob, crb, judged, unseen>>

PinningJobs_Skipped ==
  /\ gcAt = "jobs"
  /\ gcAt' = "delete" /\ UNCHANGED <<legacyJob, crb, judged, pinned, unseen>>

PinningJobs ==
  /\ gcAt = "jobs"
  /\ pinned' = pinned \cup {j \in Jobs : legacyJob[j].state = "unfinished" /\ liveRun(j)}
  /\ gcAt' = "delete" /\ UNCHANGED <<legacyJob, crb, judged, unseen>>

\* Delete with the uid and resourceVersion that were listed.
Delete ==
  /\ gcAt = "delete"
  /\ crb' = IF pinned = {} /\ crb.version = judged.version THEN Gone ELSE crb
  /\ gcAt' = "done" /\ UNCHANGED <<legacyJob, judged, pinned, unseen>>

Next ==
  \/ List \/ LookupFails \/ PinningPods \/ PinningJobs \/ Delete \/ OthersChange
  \/ \E j \in Jobs : PodEnds(j) \/ PodIsRemoved(j) \/ PodStarts(j) \/ JobFinishes(j) \/ RunEnds(j)
                   \/ JobIsCreated(j) \/ RunIsRevived(j)

Spec == Init /\ [][Next]_gcVars
----------------------------------------------------------------------------
TypeOK ==
  /\ legacyJob \in [Jobs -> Job]
  /\ crb \in {Gone} \cup [version : 1 .. MaxVersions, looks : Looks]
  /\ pinned \subseteq Jobs /\ unseen \subseteq Jobs

(* A binding is deleted only when the runs that may still need it are ones    *)
(* whose Job was created, or that were written back from their end, after the *)
(* Jobs were listed: every other live run's Job is finished, whatever pods it *)
(* ran or had yet to start while the binding was judged.  A binding that has  *)
(* become something other than what was judged stays.                         *)
NeededIsKept ==
  crb' = Gone /\ crb # Gone =>
    /\ crb.looks = "legacy"
    /\ \A j \in Jobs \ unseen : legacyJob[j].state = "unfinished" => ~liveRun(j)
============================================================================
