------------------------------ MODULE McpPool ------------------------------
(***************************************************************************)
(* MCPClientManager: the cache of MCP clients, for one MCPServer, shared   *)
(* by the tool steps and the agent conversations of a process.             *)
(*                                                                         *)
(* GetClient reads the server and builds a candidate outside the lock and  *)
(* then compares fingerprints under it.  A fingerprint is a hash of the    *)
(* resolved configuration, Secret values and UID included: it is a number  *)
(* that grows with every edit, rotation or re-creation of the server.      *)
(***************************************************************************)
EXTENDS Naturals, FiniteSets

CONSTANTS
  Callers,        \* goroutines that ask for the client
  MaxConfig,      \* bound on configurations of the server
  MaxTicks,       \* bound on ticks of the clock
  Grace,          \* retireGrace and maxIdle, in ticks
  MaxCalls,       \* bound on the GetClient calls of one caller
  MaxIterations   \* rounds of tool calls in one conversation

VARIABLES
  server,         \* [present, config]: the MCPServer in the API
  cached,         \* clients[key], with its fingerprint: [id, config], id 0 for none
  lastUsed,       \* lastUsed[key]
  version,        \* versions[key]
  retired,        \* retired clients, [id, at]
  closed,         \* ids of clients whose Close was called
  stored,         \* number of clients ever stored
  dropped,        \* ids of clients whose session the server ended
  caller,         \* the state of every caller
  ticks,          \* time, in units of the grace period
  shut            \* Close was called on the manager

poolVars == <<server, cached, lastUsed, version, retired, closed, stored, dropped,
              caller, ticks, shut>>

NoClient == [id |-> 0, config |-> 0]
IdleCaller == [pc |-> "idle", ver |-> 0, yield |-> TRUE, read |-> 0, since |-> 0,
               client |-> NoClient, got |-> 0, calls |-> 0, rounds |-> 0]

done(c) == [IdleCaller EXCEPT !.calls = caller[c].calls]

Init ==
  /\ server = [present |-> TRUE, config |-> 1]
  /\ cached = NoClient /\ lastUsed = 0 /\ version = 0
  /\ retired = {} /\ closed = {} /\ stored = 0 /\ dropped = {}
  /\ caller = [c \in Callers |-> IdleCaller]
  /\ ticks = 0 /\ shut = FALSE

\* The first call of refresh: versions[key] under the read lock.
Begin(c) ==
  /\ caller[c].pc = "idle" /\ caller[c].calls < MaxCalls
  /\ caller' = [caller EXCEPT ![c] = [IdleCaller EXCEPT
        !.pc = "reading", !.ver = version, !.since = server.config,
        !.calls = caller[c].calls + 1]]
  /\ UNCHANGED <<server, cached, lastUsed, version, retired, closed, stored, dropped, ticks, shut>>

\* Get, then CreateClient, which resolves the Secrets.
Read(c) ==
  /\ caller[c].pc = "reading" /\ server.present
  /\ caller' = [caller EXCEPT ![c].pc = "storing", ![c].read = server.config]
  /\ UNCHANGED <<server, cached, lastUsed, version, retired, closed, stored, dropped, ticks, shut>>

\* A transient API error, or a configuration that cannot be built, keeps the
\* cached client; NotFound leads to Evict.
ReadFails(c) ==
  /\ caller[c].pc = "reading"
  /\ caller' = [caller EXCEPT ![c] = IF server.present THEN done(c) ELSE [@ EXCEPT !.pc = "gone"]]
  /\ UNCHANGED <<server, cached, lastUsed, version, retired, closed, stored, dropped, ticks, shut>>

due == {r \in retired : ticks - r.at >= Grace}

remove ==
  /\ cached' = NoClient /\ lastUsed' = 0
  /\ version' = version + 1
  /\ retired' = retired \cup {[id |-> cached.id, at |-> ticks]}

\* Evict(nil) after NotFound also invalidates refreshes when nothing is cached.
EvictGone(c) ==
  /\ caller[c].pc = "gone"
  /\ IF cached # NoClient THEN remove
     ELSE version' = version + 1 /\ UNCHANGED <<cached, lastUsed, retired>>
  /\ caller' = [caller EXCEPT ![c] = done(c)]
  /\ UNCHANGED <<server, closed, stored, dropped, ticks, shut>>

handOut(c, cl) ==
  caller' = [caller EXCEPT ![c].pc = "holding", ![c].client = cl, ![c].got = ticks]

\* The locked section of refresh closes the retired clients that are due first.
Reuse_KeepsLastUsed(c) ==
  /\ caller[c].pc = "storing"
  /\ cached # NoClient /\ cached.config = caller[c].read
  /\ retired' = retired \ due
  /\ closed' = closed \cup {r.id : r \in due}
  /\ UNCHANGED lastUsed
  /\ handOut(c, cached)
  /\ UNCHANGED <<server, cached, version, stored, dropped, ticks, shut>>

Reuse(c) ==
  /\ caller[c].pc = "storing"
  /\ cached # NoClient /\ cached.config = caller[c].read
  /\ retired' = retired \ due
  /\ closed' = closed \cup {r.id : r \in due}
  /\ lastUsed' = ticks
  /\ handOut(c, cached)
  /\ UNCHANGED <<server, cached, version, stored, dropped, ticks, shut>>

differs(c) == cached = NoClient \/ cached.config # caller[c].read

\* Superseded: read again, this time without yielding.
Superseded(c) ==
  /\ caller[c].pc = "storing" /\ differs(c)
  /\ caller[c].yield /\ version # caller[c].ver
  /\ retired' = retired \ due
  /\ closed' = closed \cup {r.id : r \in due}
  /\ caller' = [caller EXCEPT ![c].pc = "reading", ![c].yield = FALSE, ![c].ver = version]
  /\ UNCHANGED <<server, cached, lastUsed, version, stored, dropped, ticks, shut>>

Store(c) ==
  /\ caller[c].pc = "storing" /\ differs(c)
  /\ ~caller[c].yield \/ version = caller[c].ver
  /\ retired' = (retired \ due) \cup
       (IF cached = NoClient THEN {} ELSE {[id |-> cached.id, at |-> ticks]})
  /\ closed' = closed \cup {r.id : r \in due}
  /\ stored' = stored + 1
  /\ cached' = [id |-> stored + 1, config |-> caller[c].read]
  /\ lastUsed' = ticks /\ version' = version + 1
  /\ handOut(c, [id |-> stored + 1, config |-> caller[c].read])
  /\ UNCHANGED <<server, dropped, ticks, shut>>

\* ListTools or CallTool on an open client with a live session: the caller is
\* done, or its conversation asks for another round of tool calls.
Use(c) ==
  /\ caller[c].pc = "holding"
  /\ caller[c].client.id \notin closed \cup dropped
  /\ \/ caller' = [caller EXCEPT ![c] = done(c)]
     \/ /\ caller[c].rounds < MaxIterations
        /\ caller' = [caller EXCEPT ![c].rounds = @ + 1]
  /\ UNCHANGED <<server, cached, lastUsed, version, retired, closed, stored, dropped, ticks, shut>>

\* A closed client answers "not initialized", and the call fails.
UseClosed(c) ==
  /\ caller[c].pc = "holding" /\ caller[c].client.id \in closed
  /\ caller' = [caller EXCEPT ![c] = done(c)]
  /\ UNCHANGED <<server, cached, lastUsed, version, retired, closed, stored, dropped, ticks, shut>>

\* The session is gone: Evict(client) drops the client from the cache, unless
\* another one is there by now.
UseDropped(c) ==
  /\ caller[c].pc = "holding" /\ caller[c].client.id \in dropped \ closed
  /\ IF cached # NoClient /\ cached.id = caller[c].client.id THEN remove
     ELSE UNCHANGED <<cached, lastUsed, version, retired>>
  /\ caller' = [caller EXCEPT ![c] = done(c)]
  /\ UNCHANGED <<server, closed, stored, dropped, ticks, shut>>

\* evictIdle: an idle client is taken out and closed at once, not retired.
EvictIdle ==
  /\ ~shut /\ cached # NoClient /\ ticks - lastUsed > Grace
  /\ closed' = closed \cup {cached.id}
  /\ cached' = NoClient /\ lastUsed' = 0 /\ version' = version + 1
  /\ UNCHANGED <<server, retired, stored, dropped, caller, ticks, shut>>

\* Close leaves the closed client in the map; the process ends.
Close ==
  /\ ~shut
  /\ shut' = TRUE
  /\ closed' = closed \cup {r.id : r \in retired} \cup
       (IF cached = NoClient THEN {} ELSE {cached.id})
  /\ retired' = {}
  /\ UNCHANGED <<server, cached, lastUsed, version, stored, dropped, caller, ticks>>

\* The environment: edits and Secret rotations, deletion and re-creation of the
\* server, servers that restart, the clock.
ChangeServer ==
  /\ server.config < MaxConfig
  /\ \E p \in BOOLEAN : server' = [present |-> p, config |-> server.config + 1]
  /\ UNCHANGED <<cached, lastUsed, version, retired, closed, stored, dropped, caller, ticks, shut>>

DropSession ==
  /\ \E i \in 1 .. stored : i \notin dropped /\ dropped' = dropped \cup {i}
  /\ UNCHANGED <<server, cached, lastUsed, version, retired, closed, stored, caller, ticks, shut>>

Tick ==
  /\ ticks < MaxTicks /\ ticks' = ticks + 1
  /\ UNCHANGED <<server, cached, lastUsed, version, retired, closed, stored, dropped, caller, shut>>

CallerStep(c) ==
  \/ Begin(c) \/ Read(c) \/ ReadFails(c) \/ EvictGone(c) \/ Reuse(c) \/ Superseded(c)
  \/ Store(c) \/ Use(c) \/ UseClosed(c) \/ UseDropped(c)

Next ==
  \/ \E c \in Callers : CallerStep(c)
  \/ EvictIdle \/ Close \/ ChangeServer \/ DropSession \/ Tick

Spec == Init /\ [][Next]_poolVars
----------------------------------------------------------------------------
ClientIds == 0 .. stored

TypeOK ==
  /\ server \in [present : BOOLEAN, config : 1 .. MaxConfig]
  /\ cached \in [id : ClientIds, config : 0 .. MaxConfig]
  /\ lastUsed \in 0 .. ticks /\ version \in Nat /\ stored \in Nat
  /\ retired \subseteq [id : ClientIds, at : 0 .. ticks]
  /\ closed \subseteq 1 .. stored /\ dropped \subseteq 1 .. stored
  /\ ticks \in 0 .. MaxTicks /\ shut \in BOOLEAN

(* GetClient never answers with a configuration older than the one the     *)
(* server had when the call began, although a concurrent refresh may put   *)
(* an older client into the cache behind it.                               *)
FreshAnswer ==
  \A c \in Callers : caller[c].pc = "holding" => caller[c].client.config >= caller[c].since

(* A client is not closed under a caller that got it less than the grace   *)
(* period ago: neither replacing, evicting nor idling it out cuts a call   *)
(* short before that.                                                      *)
GraceKept ==
  ~shut => \A c \in Callers :
    caller[c].pc = "holding" /\ caller[c].client.id \in closed => ticks - caller[c].got >= Grace

(* The cache never serves a client that was closed.                        *)
CachedIsOpen == ~shut /\ cached # NoClient => cached.id \notin closed

(* No connection leaks: every client that was ever stored is cached,       *)
(* waiting to be closed, or closed.                                        *)
NothingLeaks ==
  \A i \in 1 .. stored : shut \/ i = cached.id \/ i \in closed \/ \E r \in retired : r.id = i

(* The pool serves what is current and open, lets callers finish and loses *)
(* no connection.                                                          *)
PoolSound == FreshAnswer /\ GraceKept /\ CachedIsOpen /\ NothingLeaks

============================================================================
