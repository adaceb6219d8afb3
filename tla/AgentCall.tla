----------------------------- MODULE AgentCall -----------------------------
(***************************************************************************)
(* The steps that call an agent (agent_executor.go,                        *)
(* external_agent_executor.go).  An agentRef step POSTs to the             *)
(* agent-executor service (exec_client.go; the service is exec_handler.go),*)
(* or runs the agent in-process when the CLI executes locally.  An         *)
(* externalAgentRef step sends one A2A message and polls the task the      *)
(* remote agent answers with (a2a_client.go).                              *)
(*                                                                         *)
(* Running an agent is not idempotent: it spends tokens and calls tools.   *)
(* The connection, the service and the remote agent can fail at any point. *)
(* What the prompt, the credentials and the answer say is left out.        *)
(***************************************************************************)
EXTENDS Naturals

CONSTANT MaxRetries                  \* execHTTPMaxRetries

VARIABLES
    kind,       \* which call the step makes
    callAt,     \* the next thing the step does
    attempt,    \* POSTs tried, the current one included
    deadline,   \* the step's context: live, or its deadline has passed
    request,    \* the service's side of the POST it received last
    task,       \* the remote agent's task
    reply,      \* the remote agent's answer the step has not looked at yet
    agentRuns,  \* how often an agent was started
    verdictOf   \* how the step ended

callVars == <<kind, callAt, attempt, deadline, request, task, reply,
              agentRuns, verdictOf>>

Kinds == {"local", "exec", "external"}
TaskStates == {"working", "input-required", "completed", "failed", "canceled",
               "rejected"}

TypeOK ==
    /\ kind \in Kinds
    /\ callAt \in {"prepare", "local", "dial", "sent", "backoff", "client", "card", "send",
                   "poll", "reply", "write", "done"}
    /\ attempt \in 0..MaxRetries
    /\ deadline \in {"live", "expired"}
    /\ request \in {"none", "received", "running", "refused", "200", "500", "dead"}
    /\ task \in TaskStates \cup {"none", "message"}
    /\ reply \in TaskStates \cup {"none", "message", "error"}
    /\ agentRuns \in Nat
    /\ verdictOf \in {"none", "ok", "error"}

Init ==
    /\ kind \in Kinds
    /\ callAt = "prepare" /\ attempt = 0 /\ deadline = "live"
    /\ request = "none" /\ task = "none" /\ reply = "none"
    /\ agentRuns = 0 /\ verdictOf = "none"

----------------------------------------------------------------------------
(* Both steps start and end alike. *)

Fail ==
    /\ callAt' = "done" /\ verdictOf' = "error"
    /\ UNCHANGED <<kind, attempt, deadline, request, task, reply, agentRuns>>

goTo(next) ==
    /\ callAt' = next
    /\ UNCHANGED <<kind, deadline, request, task, reply, agentRuns, verdictOf>>

(* The deadline of the run, and of an externalAgentRef step also its own. *)
Expire ==
    /\ deadline = "live" /\ callAt # "done"
    /\ deadline' = "expired"
    /\ UNCHANGED <<kind, callAt, attempt, request, task, reply, agentRuns, verdictOf>>

(* The Agent is read, the prompt evaluated against the context, the outbound *)
(* rate limit waited for; each of them may fail.                             *)
executeAgentStep ==
    /\ callAt = "prepare" /\ kind \in {"local", "exec"}
    /\ \/ Fail
       \/ kind = "local" /\ goTo("local") /\ UNCHANGED attempt
       \/ kind = "exec" /\ goTo("dial") /\ attempt' = 1

(* Protocol, timeout, rate limit and prompt. *)
executeExternalAgentStep ==
    /\ callAt = "prepare" /\ kind = "external"
    /\ \/ Fail
       \/ goTo("client") /\ UNCHANGED attempt

(* Outputs are evaluated and written to the step's context. *)
WriteOutputs ==
    /\ callAt = "write"
    /\ \/ Fail
       \/ /\ callAt' = "done" /\ verdictOf' = "ok"
          /\ UNCHANGED <<kind, attempt, deadline, request, task, reply, agentRuns>>

(* executeAndExtract in-process: a failed extraction is only logged. *)
RunLocally ==
    /\ callAt = "local"
    /\ agentRuns' = agentRuns + 1
    /\ \/ callAt' = "write" /\ UNCHANGED verdictOf
       \/ callAt' = "done" /\ verdictOf' = "error"
    /\ UNCHANGED <<kind, attempt, deadline, request, task, reply>>

----------------------------------------------------------------------------
(* agentRef over HTTP: the runner's side. *)

isRetryableExecErr_AnyTransportError(err) == TRUE

(* isRetryableExecErr: the connection was never made. *)
isRetryableExecErr(err) == err = "dial"

DoFails_OneMore(err) ==
    IF /\ deadline = "live"
       /\ isRetryableExecErr(err)
       /\ attempt <= MaxRetries
    THEN goTo("backoff") /\ UNCHANGED attempt
    ELSE Fail

(* httpClient.Do returned an error. *)
DoFails(err) ==
    IF /\ deadline = "live"
       /\ isRetryableExecErr(err)
       /\ attempt < MaxRetries
    THEN goTo("backoff") /\ UNCHANGED attempt
    ELSE Fail

Dial ==
    /\ callAt = "dial"
    /\ \/ DoFails("dial")
       \/ /\ deadline = "live"
          /\ callAt' = "sent"
          /\ request' \in {"received", "dead"}
          /\ UNCHANGED <<kind, attempt, deadline, task, reply, agentRuns, verdictOf>>

Backoff ==
    /\ callAt = "backoff"
    /\ \/ deadline = "expired" /\ Fail
       \/ goTo("dial") /\ attempt' = attempt + 1

(* The client's own timeout, or the step's deadline, while it waits. *)
GiveUp ==
    /\ callAt = "sent"
    /\ DoFails("timeout")

(* The answer: only a 200 whose body decodes is a result. *)
Answered ==
    /\ callAt = "sent"
    /\ \/ request = "dead" /\ DoFails("eof")
       \/ request \in {"refused", "500"} /\ Fail
       \/ request = "200" /\ (Fail \/ (goTo("write") /\ UNCHANGED attempt))

(* The service's side: ServeHTTP refuses what it cannot run, runs the agent, *)
(* and answers; the pod may die or the connection break at any point.        *)
serverOnly == UNCHANGED <<kind, callAt, attempt, deadline, task, reply, verdictOf>>

Refuse ==
    request = "received" /\ request' = "refused" /\ UNCHANGED agentRuns /\ serverOnly

RunAgent ==
    request = "received" /\ request' = "running" /\ agentRuns' = agentRuns + 1 /\ serverOnly

AgentEnds ==
    request = "running" /\ request' \in {"200", "500"} /\ UNCHANGED agentRuns /\ serverOnly

ServiceDies ==
    request \in {"received", "running", "refused", "200", "500"} /\ request' = "dead"
    /\ UNCHANGED agentRuns /\ serverOnly

----------------------------------------------------------------------------
(* externalAgentRef: card, message/send, then tasks/get until it is over. *)

isFailureState(s) == s \in {"failed", "canceled", "rejected"}
isPauseState(s) == s \in {"input-required"}
isTerminalState(s) == s = "completed" \/ isFailureState(s)

(* What a task state means for the step. *)
resolveTaskState(s) ==
    IF isPauseState(s) THEN "error"
    ELSE IF ~isTerminalState(s) THEN "poll"
    ELSE IF isFailureState(s) THEN "error" ELSE "result"

(* The URL is checked again; CA bundle and token are read from their mounts. *)
newA2AClient ==
    /\ callAt = "client"
    /\ \/ Fail
       \/ goTo("card") /\ UNCHANGED attempt

fetchAgentCard ==
    /\ callAt = "card"
    /\ \/ Fail
       \/ deadline = "live" /\ goTo("send") /\ UNCHANGED attempt

(* doJSONRPC: the answer, or an error (transport, status, decoding, RPC) in *)
(* its place.                                                               *)
doJSONRPC(result) == reply' \in {result, "error"} /\ callAt' = "reply"

(* The message may never arrive, may arrive and its answer be lost, or be   *)
(* answered inline, with a task, or without a usable result.                *)
sendTask ==
    /\ callAt = "send"
    /\ \/ Fail
       \/ /\ deadline = "live"
          /\ agentRuns' = agentRuns + 1
          /\ task' \in TaskStates \cup {"message"}
          /\ doJSONRPC(task')
          /\ UNCHANGED <<kind, attempt, deadline, request, verdictOf>>

(* A task without a server-assigned id cannot be polled. *)
Resolve ==
    /\ callAt = "reply"
    /\ \/ reply = "error" /\ Fail
       \/ reply = "message" /\ goTo("write") /\ UNCHANGED attempt
       \/ /\ reply \in TaskStates
          /\ \/ resolveTaskState(reply) = "error" /\ Fail
             \/ resolveTaskState(reply) = "result" /\ goTo("write") /\ UNCHANGED attempt
             \/ resolveTaskState(reply) = "poll" /\ (Fail \/ (goTo("poll") /\ UNCHANGED attempt))

pollTask ==
    /\ callAt = "poll"
    /\ \/ deadline = "expired" /\ Fail
       \/ /\ deadline = "live"
          /\ doJSONRPC(task)
          /\ UNCHANGED <<kind, attempt, deadline, request, task, agentRuns, verdictOf>>

(* External: the remote agent's task moves on by itself. *)
TaskMoves ==
    /\ task \in {"working", "input-required"}
    /\ task' \in TaskStates
    /\ UNCHANGED <<kind, callAt, attempt, deadline, request, reply, agentRuns, verdictOf>>

----------------------------------------------------------------------------
StepMoves ==
    \/ executeAgentStep \/ executeExternalAgentStep \/ WriteOutputs \/ RunLocally
    \/ Dial \/ Backoff \/ GiveUp \/ Answered
    \/ newA2AClient \/ fetchAgentCard \/ sendTask \/ Resolve \/ pollTask

Next ==
    \/ StepMoves \/ Expire
    \/ Refuse \/ RunAgent \/ AgentEnds \/ ServiceDies \/ TaskMoves

(* The step's goroutine keeps running, timers fire and the deadline of an   *)
(* external call passes.  Nothing is asked of the service, of the remote    *)
(* agent, or of a run's own deadline: an exec call may have none.           *)
Fairness ==
    /\ WF_callVars(StepMoves)
    /\ WF_callVars(kind = "external" /\ Expire)

Spec == Init /\ [][Next]_callVars /\ Fairness

----------------------------------------------------------------------------
(* An agent is started at most once for a step, whatever fails on the way:  *)
(* a call is repeated only when no request can have reached the service     *)
(* (isRetryableExecErr), and a lost A2A answer never makes the step send    *)
(* its message again.                                                       *)
AgentRunsOnce == agentRuns <= 1

(* A step that succeeded has the answer of an agent that finished: the      *)
(* service answered 200, or the remote task completed or was answered       *)
(* inline; a paused, failed, canceled or rejected task never passes.        *)
AnswerEarned ==
    verdictOf = "ok" =>
        /\ agentRuns = 1
        /\ kind = "exec" => request \in {"200", "dead"}
        /\ kind = "external" => task \in {"completed", "message"}

(* The step ends although the service may hang and the remote task may stay *)
(* unfinished for ever: the exec client has its own timeout, the external   *)
(* call a deadline.                                                         *)
CallEnds == <>[](callAt = "done")

(* An agent step is backed by one run of its agent, neither more when calls *)
(* are repeated nor less when it succeeds.                                  *)
CallSound == AgentRunsOnce /\ AnswerEarned

============================================================================
