----------------------------- MODULE RunServers -----------------------------
(***************************************************************************)
(* The two servers that turn a remote call into a WorkflowRun and answer *)
(* with its outcome: serve-a2a (internal/a2a/server.go), which serves one  *)
(* Workflow as an A2A agent, streaming or not, and the controller's MCP    *)
(* tool server (mcp_server.go, mcp_tools.go), which serves every opted-in  *)
(* Workflow as a tool.  Calls run concurrently; serve-a2a reads the API    *)
(* server, the tool server the manager's cache; the Workflow may opt out,  *)
(* the run may outlast the call, be deleted, or end while nobody looks.    *)
(*                                                                         *)
(* One Workflow, one serve-a2a pod.  Prompts, inputs and outputs are left  *)
(* out; events are kept only as the state the caller ends up with.         *)
(***************************************************************************)
EXTENDS Naturals, FiniteSets

CONSTANTS
    Calls,      \* a subset of {"stream", "send", "tool"}: one call of each kind
    Caps,       \* values of run.maxConcurrentRuns; 0 is no limit
    MaxFlips,   \* bound on how often the Workflow opts in or out
    MaxCalls    \* bound on how many of the calls are made

VARIABLES
    cap,        \* EffectiveMaxConcurrentRuns
    exposed,    \* the Workflow opts in
    cacheOpen,  \* what the manager's cache says of it
    flips,
    handlerAt,  \* handlerAt[c]: where the handler of c is
    everOpen,   \* everOpen[c]: the Workflow was opted in at some time since c arrived
    admitMu,    \* the call that holds the lock, or "free"
    run,        \* run[c]: the phase of the run c created
    deleted,    \* deleted[c]: that run was deleted
    cut,        \* cut[c]: how the last reading of the run was cut short
    told        \* told[c]: what the caller was told

srvVars == <<cap, exposed, cacheOpen, flips, handlerAt, everOpen, admitMu, run, deleted,
             cut, told>>

A2A == Calls \ {"tool"}

TypeOK ==
    /\ cap \in Caps /\ flips \in 0..MaxFlips
    /\ exposed \in BOOLEAN /\ cacheOpen \in BOOLEAN
    /\ handlerAt \in [Calls -> {"idle", "rpc", "read", "lock", "count", "create", "poll", "done"}]
    /\ everOpen \in [Calls -> BOOLEAN]
    /\ admitMu \in Calls \cup {"free"}
    /\ run \in [Calls -> {"none", "active", "Succeeded", "Failed"}]
    /\ deleted \in [Calls -> BOOLEAN] /\ cut \in [Calls -> {"no", "unread", "late"}]
    /\ told \in [Calls -> {"none", "error", "working", "completed", "failed"}]

Init ==
    /\ cap \in Caps /\ flips = 0
    /\ exposed \in BOOLEAN /\ cacheOpen = exposed
    /\ handlerAt = [c \in Calls |-> "idle"]
    /\ everOpen = [c \in Calls |-> FALSE]
    /\ admitMu = "free"
    /\ run = [c \in Calls |-> "none"]
    /\ deleted = [c \in Calls |-> FALSE] /\ cut = [c \in Calls |-> "no"]
    /\ told = [c \in Calls |-> "none"]

----------------------------------------------------------------------------
workflowVars == <<cap, exposed, cacheOpen, flips>>
runVars == <<run, deleted>>

answered(c, what) ==
    handlerAt' = [handlerAt EXCEPT ![c] = "done"] /\ told' = [told EXCEPT ![c] = what]

goTo(c, next) == handlerAt' = [handlerAt EXCEPT ![c] = next] /\ UNCHANGED told

(* defer admitMu.Unlock() *)
unlock(c) == admitMu' = IF admitMu = c THEN "free" ELSE admitMu

(* IsActive *)
active == {c \in Calls : run[c] = "active"}

(* Who calls: the token is reviewed and the grant checked; every failure,   *)
(* also of the review itself, refuses the call.                             *)
Authenticate(c) ==
    /\ handlerAt[c] = "idle"
    /\ Cardinality({d \in Calls : handlerAt[d] # "idle"}) < MaxCalls
    /\ everOpen' = [everOpen EXCEPT ![c] = exposed]
    /\ answered(c, "error") \/ goTo(c, "rpc")
    /\ UNCHANGED <<workflowVars, admitMu, runVars, cut>>

(* syncTools: the registered tools are those the cache shows opted in. *)
syncTools == {c \in Calls : c = "tool" /\ cacheOpen}

(* handleRPC decodes and routes; the tool server first rebuilds its tools   *)
(* and its transport refuses a name it does not list.                       *)
Route(c) ==
    /\ handlerAt[c] = "rpc"
    /\ \/ answered(c, "error")
       \/ c \in A2A \cup syncTools /\ goTo(c, "read")
    /\ UNCHANGED <<workflowVars, everOpen, admitMu, runVars, cut>>

(* The Workflow is read and the opt-in checked again; the tool's arguments  *)
(* must be declared inputs and complete.                                    *)
Admit(c) ==
    /\ handlerAt[c] = "read"
    /\ \/ answered(c, "error")
       \/ /\ IF c \in A2A THEN exposed ELSE cacheOpen
          /\ goTo(c, IF cap = 0 THEN "create" ELSE IF c \in A2A THEN "lock" ELSE "count")
    /\ UNCHANGED <<workflowVars, everOpen, admitMu, runVars, cut>>

Lock(c) ==
    /\ handlerAt[c] = "lock" /\ admitMu = "free"
    /\ admitMu' = c /\ goTo(c, "count")
    /\ UNCHANGED <<workflowVars, everOpen, runVars, cut>>

Count_ReleasesEarly(c) ==
    /\ handlerAt[c] = "count"
    /\ unlock(c)
    /\ \/ answered(c, "error")
       \/ /\ \E seen \in (IF c \in A2A THEN {active} ELSE SUBSET active) : Cardinality(seen) < cap
          /\ goTo(c, "create")
    /\ UNCHANGED <<workflowVars, everOpen, runVars, cut>>

Count_KeepsLock(c) ==
    /\ handlerAt[c] = "count"
    /\ \/ answered(c, "error")
       \/ /\ \E seen \in (IF c \in A2A THEN {active} ELSE SUBSET active) : Cardinality(seen) < cap
          /\ goTo(c, "create")
    /\ UNCHANGED <<workflowVars, everOpen, admitMu, runVars, cut>>

(* The runs that are active are counted: serve-a2a holds its lock and lists *)
(* from the API server, the tool server holds none and lists from the cache,*)
(* which may not show every run yet.                                        *)
Count(c) ==
    /\ handlerAt[c] = "count"
    /\ \/ answered(c, "error") /\ unlock(c)
       \/ /\ \E seen \in (IF c \in A2A THEN {active} ELSE SUBSET active) : Cardinality(seen) < cap
          /\ goTo(c, "create") /\ UNCHANGED admitMu
    /\ UNCHANGED <<workflowVars, everOpen, runVars, cut>>

(* createRun; a stream then sends "submitted" and "working". *)
Create(c) ==
    /\ handlerAt[c] = "create"
    /\ unlock(c)
    /\ \/ answered(c, "error") /\ UNCHANGED run
       \/ goTo(c, "poll") /\ run' = [run EXCEPT ![c] = "active"]
    /\ UNCHANGED <<workflowVars, everOpen, deleted, cut>>

(* resolveOutcome, and the tool's result *)
outcome(phase) == IF phase = "Succeeded" THEN "completed" ELSE "failed"

(* One round of pollToTerminal or awaitRun: the run is over, or it is not   *)
(* and the caller waits on.                                                 *)
Poll(c) ==
    /\ handlerAt[c] = "poll" /\ ~deleted[c] /\ run[c] \in {"Succeeded", "Failed"}
    /\ answered(c, outcome(run[c]))
    /\ UNCHANGED <<workflowVars, everOpen, admitMu, runVars, cut>>

(* Reading the run fails, or it is gone: a stream ends "failed", a send     *)
(* with an error; the tool waits on for a run it cannot find.               *)
PollFails(c) ==
    /\ handlerAt[c] = "poll"
    /\ cut' = [cut EXCEPT ![c] = "unread"]
    /\ answered(c, IF c = "stream" THEN "failed" ELSE "error")
    /\ UNCHANGED <<workflowVars, everOpen, admitMu, runVars>>

(* The deadline of pollToTerminal passes inside its Get: the error is the   *)
(* context's and not errRunStillExecuting, so that the answer is that of a  *)
(* read that failed.  The tool's deadline is a timer beside its reads.      *)
GetTimesOut(c) ==
    /\ handlerAt[c] = "poll" /\ c \in A2A
    /\ cut' = [cut EXCEPT ![c] = "late"]
    /\ answered(c, IF c = "stream" THEN "failed" ELSE "error")
    /\ UNCHANGED <<workflowVars, everOpen, admitMu, runVars>>

(* The call's own deadline passes between two reads: the run goes on and    *)
(* the answer says so.                                                      *)
Deadline(c) ==
    /\ handlerAt[c] = "poll" /\ answered(c, "working")
    /\ UNCHANGED <<workflowVars, everOpen, admitMu, runVars, cut>>

----------------------------------------------------------------------------
(* External: the run, its deletion, the Workflow's owner and the cache. *)

RunEnds(c) ==
    /\ run[c] = "active"
    /\ run' \in {[run EXCEPT ![c] = p] : p \in {"Succeeded", "Failed"}}
    /\ UNCHANGED <<workflowVars, handlerAt, everOpen, admitMu, deleted, cut, told>>

RunDeleted(c) ==
    /\ run[c] \in {"Succeeded", "Failed"} /\ ~deleted[c]
    /\ deleted' = [deleted EXCEPT ![c] = TRUE]
    /\ UNCHANGED <<workflowVars, handlerAt, everOpen, admitMu, run, cut, told>>

Flip ==
    /\ flips < MaxFlips /\ flips' = flips + 1
    /\ exposed' = ~exposed
    /\ everOpen' = [c \in Calls |-> everOpen[c] \/ (handlerAt[c] # "idle" /\ exposed')]
    /\ UNCHANGED <<cap, cacheOpen, handlerAt, admitMu, runVars, cut, told>>

CacheSyncs ==
    /\ cacheOpen # exposed /\ cacheOpen' = exposed
    /\ UNCHANGED <<cap, exposed, flips, handlerAt, everOpen, admitMu, runVars, cut, told>>

Handler(c) ==
    \/ Route(c) \/ Admit(c) \/ Lock(c) \/ Count(c) \/ Create(c)
    \/ Poll(c) \/ PollFails(c) \/ GetTimesOut(c) \/ Deadline(c)

Next ==
    \/ \E c \in Calls : Authenticate(c) \/ Handler(c) \/ RunEnds(c) \/ RunDeleted(c)
    \/ Flip \/ CacheSyncs

(* A handler's goroutine keeps running and its timers fire; nothing is      *)
(* asked of the runs.                                                       *)
Fairness == \A c \in Calls : WF_srvVars(Handler(c))

Spec == Init /\ [][Next]_srvVars /\ Fairness

----------------------------------------------------------------------------
(* What a caller is told is so: "completed" only of a run that succeeded,   *)
(* "failed" only of one that failed or could not be read, or if the call's  *)
(* deadline passed in the middle of a read: then a run that merely outlasts *)
(* the call is called failed, although errRunStillExecuting is there to     *)
(* prevent it.                                                              *)
AnswerIsTrue ==
    \A c \in Calls :
        /\ told[c] = "completed" => run[c] = "Succeeded"
        /\ told[c] = "failed" => run[c] = "Failed" \/ cut[c] \in {"unread", "late"}

(* Overlapping A2A calls cannot push their own runs over the cap, because   *)
(* the count and the create are one critical section; a tool call, which    *)
(* takes no lock, may still add its run.                                    *)
CapKept == cap > 0 => Cardinality(active \cap A2A) <= cap

(* A call that arrived after the Workflow opted out of A2A, and has seen it *)
(* opted out ever since, creates no run, although the serve-a2a pod is      *)
(* still up.                                                                *)
OptOutHolds == \A c \in A2A : run[c] # "none" => everOpen[c]

(* Every call is answered: none waits for ever for the lock another call    *)
(* left behind, nor for a run that never ends.                              *)
nobodyWaits == \A c \in Calls : handlerAt[c] \in {"idle", "done"}
CallsAnswered == <>[]nobodyWaits

(* Only calls that may create a run do: within the cap, and not of a        *)
(* Workflow that has opted out.                                             *)
RunsAdmitted == CapKept /\ OptOutHolds

============================================================================
