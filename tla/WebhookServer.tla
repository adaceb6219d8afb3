--------------------------- MODULE WebhookServer ---------------------------
(***************************************************************************)
(* The webhook server's handler for one Workflow: timestamp, signature,    *)
(* rate limit, then the trigger manager's deduplication and the run.       *)
(*                                                                         *)
(* A signed message may arrive any number of times, also in parallel.  Two *)
(* things together keep a repeated message from making a second run: its   *)
(* timestamp is refused after a while, and until then its key is known,    *)
(* unless the controller restarts or the sender's clock is far ahead.      *)
(***************************************************************************)
EXTENDS Naturals, FiniteSets

CONSTANTS
  Messages,     \* what may be sent, each with a deduplication key of its own
  Handlers,     \* requests that may be in progress at the same time
  Window,       \* webhookTimestampWindow
  DedupWindow,  \* dedupWindow in effect; the default is two Windows
  Delay,        \* bound on how long a request takes
  Burst,        \* rateLimit.burst of each edition of the Workflow
  MaxTime, MaxEditions   \* bounds

VARIABLES
  now,
  sent,         \* each message: its timestamp, or 0; when it was signed; whether with the key
  handler,      \* the requests in progress
  limiter,      \* the rate limiter of the Workflow: edition it suits, tokens
  keys,         \* dedupState: when each key was recorded, or 0
  made,         \* the messages that a run was made from
  live,         \* the Workflow: its edition, or 0 when it is gone
  editions, restarted, \* history
  admitted             \* history: admitted since the clock moved

hookVars == <<now, sent, handler, limiter, keys, made, live, editions, restarted, admitted>>

NoLimiter == [edition |-> 0, tokens |-> 0]
Idle == [pc |-> "idle", msg |-> CHOOSE m \in Messages : TRUE, began |-> 0, edition |-> 0, alone |-> TRUE]

Init ==
  /\ now = 1 /\ sent = [m \in Messages |-> [at |-> 0, by |-> 0, signed |-> TRUE]]
  /\ handler = [h \in Handlers |-> Idle] /\ limiter = NoLimiter
  /\ keys = [m \in Messages |-> 0] /\ made = {}
  /\ live = 1 /\ editions = 1 /\ restarted = FALSE /\ admitted = 0

\* A sender signs a message with its own clock's time.
Sign(m) ==
  /\ sent[m].at = 0
  /\ \E ts \in 1 .. now + Window + 1, ok \in BOOLEAN :
       sent' = [sent EXCEPT ![m] = [at |-> ts, by |-> now, signed |-> ok]]
  /\ UNCHANGED <<now, handler, limiter, keys, made, live, editions, restarted, admitted>>

go(h, new) == handler' = [handler EXCEPT ![h] = new] /\ UNCHANGED <<now, sent, live, editions, restarted>>
refuse(h) == go(h, Idle)

\* verifyTimestamp, in either direction and before anything that costs.
timely_Always(m) == sent[m].at # 0

timely(m) == sent[m].at # 0 /\ now <= sent[m].at + Window /\ sent[m].at <= now + Window

\* alone: no copy of the message has been in progress at the same time.
Arrive(h, m) ==
  /\ handler[h].pc = "idle" /\ timely(m)
  /\ LET copies == {g \in Handlers : handler[g].pc # "idle" /\ handler[g].msg = m}
     IN handler' = [g \in Handlers |->
          IF g = h THEN [pc |-> "lookup", msg |-> m, began |-> now, edition |-> 0, alone |-> copies = {}]
          ELSE IF g \in copies THEN [handler[g] EXCEPT !.alone = FALSE] ELSE handler[g]]
  /\ UNCHANGED <<now, sent, limiter, keys, made, live, editions, restarted, admitted>>

\* The Workflow, its webhook trigger, the content type, the Secret and the
\* signature.
Lookup(h) ==
  /\ handler[h].pc = "lookup"
  /\ IF live # 0 /\ sent[handler[h].msg].signed
     THEN go(h, [handler[h] EXCEPT !.pc = "limit", !.edition = live]) ELSE refuse(h)
  /\ UNCHANGED <<limiter, keys, made, admitted>>

\* webhookRateLimiter, Allow: a limiter of other parameters is replaced.
limiterFor(e) == IF limiter.edition = e THEN limiter ELSE [edition |-> e, tokens |-> Burst]

Limit(h) ==
  /\ handler[h].pc = "limit"
  /\ LET l == limiterFor(handler[h].edition)
     IN IF l.tokens > 0
        THEN /\ limiter' = [l EXCEPT !.tokens = @ - 1] /\ admitted' = admitted + 1
             /\ go(h, [handler[h] EXCEPT !.pc = "dedup"])
        ELSE limiter' = l /\ refuse(h) /\ UNCHANGED admitted
  /\ UNCHANGED <<keys, made>>

\* CreateWorkflowRunFromWebhook: the filter may refuse, or the limit on runs; a
\* key that was recorded less than dedupWindow ago does.
Dedup(h) ==
  /\ handler[h].pc = "dedup"
  /\ LET k == keys[handler[h].msg]
     IN \/ refuse(h)
        \/ ~(k # 0 /\ now < k + DedupWindow) /\ go(h, [handler[h] EXCEPT !.pc = "create"])
  /\ UNCHANGED <<limiter, keys, made, admitted>>

Create(h) ==
  /\ handler[h].pc = "create"
  /\ made' = made \cup {handler[h].msg}
  /\ go(h, [handler[h] EXCEPT !.pc = "record"])
  /\ UNCHANGED <<limiter, keys, admitted>>

CreateFails(h) ==
  handler[h].pc = "create" /\ refuse(h) /\ UNCHANGED <<limiter, keys, made, admitted>>

Record(h) ==
  /\ handler[h].pc = "record"
  /\ keys' = [keys EXCEPT ![handler[h].msg] = now]
  /\ refuse(h) /\ UNCHANGED <<limiter, made, admitted>>

\* The Workflow is edited, deleted or made anew.
EditWorkflow ==
  /\ editions < MaxEditions
  /\ editions' = editions + 1 /\ live' \in {0, editions + 1}
  /\ UNCHANGED <<now, sent, handler, limiter, keys, made, restarted, admitted>>

\* forgetWebhookState: CleanupWebhookDedup and RemoveLimiter.
Forget ==
  /\ live = 0
  /\ keys' = [m \in Messages |-> 0] /\ limiter' = NoLimiter
  /\ UNCHANGED <<now, sent, handler, made, live, editions, restarted, admitted>>

\* The controller restarts, or another replica leads: dedupState and the limiters
\* are in the process, and the requests in progress are cut off.
Restart ==
  /\ ~restarted /\ restarted' = TRUE
  /\ handler' = [h \in Handlers |-> Idle]
  /\ keys' = [m \in Messages |-> 0] /\ limiter' = NoLimiter
  /\ UNCHANGED <<now, sent, made, live, editions, admitted>>

Tick ==
  /\ now < MaxTime
  /\ \A h \in Handlers : handler[h].pc # "idle" => now < handler[h].began + Delay
  /\ now' = now + 1 /\ admitted' = 0
  /\ limiter' = IF limiter.edition # 0 /\ limiter.tokens < Burst
                THEN [limiter EXCEPT !.tokens = @ + 1] ELSE limiter
  /\ UNCHANGED <<sent, handler, keys, made, live, editions, restarted>>

Next ==
  \/ EditWorkflow \/ Forget \/ Restart \/ Tick \/ \E m \in Messages : Sign(m)
  \/ \E h \in Handlers : \/ Lookup(h) \/ Limit(h) \/ Dedup(h) \/ Create(h) \/ CreateFails(h)
                         \/ Record(h) \/ \E m \in Messages : Arrive(h, m)

Spec == Init /\ [][Next]_hookVars
----------------------------------------------------------------------------
TypeOK ==
  /\ now \in 1 .. MaxTime /\ keys \in [Messages -> 0 .. MaxTime] /\ made \subseteq Messages
  /\ limiter.tokens \in 0 .. Burst /\ live \in 0 .. MaxEditions
  /\ \A h \in Handlers : handler[h].pc \in {"idle", "lookup", "limit", "dedup", "create", "record"}

(* The timestamp of a message is refused before its key is forgotten, also    *)
(* for a request that takes Delay.  With the default of two Windows that is   *)
(* every message whose sender's clock is ahead of the server's by less than   *)
(* Window - Delay; one signed further ahead is accepted for longer than that. *)
refusedInTime(m) == sent[m].at + Window + Delay < sent[m].by + DedupWindow

(* A message whose timestamp is refused in time makes a second run only if a  *)
(* copy of it was being handled at the same time, the Workflow was edited or  *)
(* deleted, which forgets its keys, or the controller restarted.              *)
RepeatMakesNoRun ==
  \A h \in Handlers :
    /\ handler[h].pc = "create" /\ handler'[h].pc = "record" /\ handler[h].alone
    /\ refusedInTime(handler[h].msg) /\ editions = 1 /\ ~restarted
    => handler[h].msg \notin made

(* As long as the Workflow is not edited and the controller runs, no more     *)
(* than burst requests are admitted at one time, however many are handled in  *)
(* parallel.                                                                  *)
BurstKept == editions = 1 /\ ~restarted => admitted <= Burst

(* Neither a repeated message nor a burst gets more runs than it may.       *)
WebhookSound == []BurstKept /\ [][RepeatMakesNoRun]_hookVars

============================================================================
