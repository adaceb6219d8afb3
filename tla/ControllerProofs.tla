------------------------- MODULE ControllerProofs -------------------------
(***************************************************************************)
(* What the controller's processes share: the servers that run Workflows   *)
(* for callers, the registry of triggers and the certificates of the       *)
(* replicas. Laid out as in CallProofs; at the end the types of every part *)
(* of MCProgress, and the promises of its step loop.                       *)
(***************************************************************************)
EXTENDS CallProofs, StepExecutorProofs
----------------------------------------------------------------------------
(* The MCP and A2A servers (RunServers).  The lock holds from the count to *)
(* the create, so that the number counted is still the number of runs.     *)

\* Places of a handler that has not created its WorkflowRun.
NoRunYet == {"idle", "rpc", "read", "lock", "count", "create"}

\* The active runs that the A2A server has created.
OwnRuns == RS!active \cap RS!A2A

\* What a caller was told is how its run ended, or the run could not be read; a call
\* under way while the Workflow is exposed has seen it exposed.
CallFacts(c) ==
  /\ handlerAt[c] \in NoRunYet => run[c] = "none" /\ told[c] = "none"
  /\ told[c] = "completed" => run[c] = "Succeeded"
  /\ told[c] = "failed" => run[c] = "Failed" \/ cut[c] \in {"unread", "late"}
  /\ handlerAt[c] # "idle" /\ exposed => everOpen[c]

\* An A2A call creates its run only under the lock and below the cap.
A2AFacts(c) ==
  /\ handlerAt[c] \in {"lock", "count", "create"} \/ run[c] # "none" => everOpen[c]
  /\ cap > 0 /\ handlerAt[c] \in {"count", "create"} => admitMu = c
  /\ cap > 0 /\ handlerAt[c] = "create" => Cardinality(OwnRuns) < cap

\* The inductive invariant of the servers.
ServersInv ==
  /\ RS!TypeOK
  /\ \A c \in Calls : CallFacts(c)
  /\ \A c \in RS!A2A : A2AFacts(c)
  /\ RS!CapKept

\* The component's Cardinality is that of FiniteSets.
LEMMA SameCardinality == \A S : RS!Cardinality(S) = Cardinality(S)
  BY DEF RS!Cardinality, Cardinality

\* One element more is at most one more to count.
LEMMA AddsOne ==
  ASSUME NEW S, NEW T, NEW x, IsFiniteSet(S), T \subseteq S \cup {x}
  PROVE  Cardinality(T) \in Nat /\ Cardinality(T) <= Cardinality(S) + 1
<1>1. /\ IsFiniteSet(S \cup {x}) /\ Cardinality(S) \in Nat
      /\ Cardinality(S \cup {x}) = IF x \in S THEN Cardinality(S) ELSE Cardinality(S) + 1
  BY FS_AddElement, FS_CardinalityType
<1>2. IsFiniteSet(T) /\ Cardinality(T) <= Cardinality(S \cup {x})
  BY <1>1, FS_Subset
<1>3. Cardinality(T) \in Nat
  BY <1>2, FS_CardinalityType
<1> QED
  BY <1>1, <1>2, <1>3

\* The runs of A2A calls are finitely many, and adding one adds at most one.
LEMMA OwnRunsFinite ==
  /\ IsFiniteSet(OwnRuns)
  /\ Cardinality(OwnRuns) \in Nat
  /\ Cardinality(RS!active) \in Nat
  /\ Cardinality(OwnRuns) <= Cardinality(RS!active)
<1>1. IsFiniteSet({"stream", "send", "tool"})
  <2>1. IsFiniteSet({}) /\ IsFiniteSet({} \cup {"stream"})
    BY FS_EmptySet, FS_AddElement
  <2>2. IsFiniteSet({} \cup {"stream"} \cup {"send"})
    BY <2>1, FS_AddElement
  <2>3. IsFiniteSet({} \cup {"stream"} \cup {"send"} \cup {"tool"})
    BY <2>2, FS_AddElement
  <2>4. {} \cup {"stream"} \cup {"send"} \cup {"tool"} = {"stream", "send", "tool"}
    OBVIOUS
  <2> QED
    BY <2>3, <2>4
<1>2. RS!active \subseteq {"stream", "send", "tool"} /\ OwnRuns \subseteq RS!active
  BY ServersAssumption DEF RS!active, OwnRuns
<1>3. IsFiniteSet(RS!active)
  BY <1>1, <1>2, FS_Subset
<1> QED
  BY <1>2, <1>3, FS_Subset, FS_CardinalityType

\* No call has begun.
LEMMA ServersInit == RS!Init => ServersInv
<1> SUFFICES ASSUME RS!Init PROVE ServersInv
  OBVIOUS
<1>1. RS!TypeOK
  BY ServersAssumption DEF RS!Init, RS!TypeOK
<1>2. OwnRuns = {}
  BY DEF OwnRuns, RS!active, RS!Init
<1>3. RS!CapKept
  BY <1>2, FS_EmptySet, <1>1, ServersAssumption, SameCardinality DEF RS!CapKept, OwnRuns, RS!TypeOK
<1>4. \A c \in Calls : CallFacts(c)
  BY DEF CallFacts, RS!Init, NoRunYet
<1>5. \A c \in RS!A2A : A2AFacts(c)
  BY DEF A2AFacts, RS!Init, RS!A2A
<1> QED
  BY <1>1, <1>3, <1>4, <1>5 DEF ServersInv

\* Runs that end or are deleted leave the cap kept.
LEMMA OwnRunsShrink ==
  ASSUME RS!TypeOK, RS!CapKept, cap' = cap, OwnRuns' \subseteq OwnRuns
  PROVE  /\ RS!CapKept'
         /\ Cardinality(OwnRuns') \in Nat /\ Cardinality(OwnRuns) \in Nat
         /\ Cardinality(OwnRuns') <= Cardinality(OwnRuns)
<1>1. /\ Cardinality(OwnRuns') \in Nat /\ Cardinality(OwnRuns) \in Nat
      /\ Cardinality(OwnRuns') <= Cardinality(OwnRuns)
  BY OwnRunsFinite, FS_Subset, FS_CardinalityType
<1>2. cap \in Nat
  BY ServersAssumption DEF RS!TypeOK
<1>3. RS!CapKept <=> (cap > 0 => Cardinality(OwnRuns) <= cap)
  BY SameCardinality DEF RS!CapKept, OwnRuns
<1>4. RS!CapKept' <=> (cap' > 0 => Cardinality(OwnRuns') <= cap')
  BY SameCardinality DEF RS!CapKept, OwnRuns
<1> QED
  BY <1>1, <1>2, <1>3, <1>4

\* Every step of the handlers, the runs and the owner of the Workflow keeps it.
LEMMA ServersStep == ServersInv /\ [RS!Next]_serversVars => ServersInv'
<1> SUFFICES ASSUME ServersInv, [RS!Next]_serversVars PROVE ServersInv'
  OBVIOUS
<1>0. /\ RS!TypeOK /\ RS!CapKept /\ cap \in Nat
      /\ \A c \in Calls : CallFacts(c)
      /\ \A c \in RS!A2A : A2AFacts(c)
      /\ "free" \notin Calls /\ RS!A2A \subseteq Calls /\ "tool" \notin RS!A2A
      /\ \A c \in Calls : c \in RS!A2A \/ c = "tool"
      /\ Cardinality(OwnRuns) \in Nat
  BY ServersAssumption, OwnRunsFinite DEF ServersInv, RS!TypeOK, RS!A2A
<1> USE <1>0
<1>q. ASSUME run' = run \/ \E c \in Calls : run' \in {[run EXCEPT ![c] = p] : p \in {"Succeeded", "Failed"}}
      PROVE OwnRuns' \subseteq OwnRuns
  BY <1>q DEF OwnRuns, RS!active, RS!A2A, RS!TypeOK
<1>1. ASSUME NEW c \in Calls, RS!Authenticate(c) PROVE ServersInv'
  <2> USE <1>1 DEF RS!Authenticate, RS!answered, RS!goTo, RS!workflowVars, RS!runVars
  <2>1. RS!TypeOK'
    BY DEF RS!TypeOK
  <2>2. \A d \in Calls : CallFacts(d)'
    BY DEF RS!TypeOK, CallFacts, NoRunYet
  <2>3. RS!CapKept' /\ Cardinality(OwnRuns') <= Cardinality(OwnRuns) /\ Cardinality(OwnRuns') \in Nat
    BY <1>q, OwnRunsShrink
  <2>4. \A d \in RS!A2A : A2AFacts(d)'
    BY <2>3 DEF RS!TypeOK, CallFacts, NoRunYet, A2AFacts
  <2> QED BY <2>1, <2>2, <2>3, <2>4 DEF ServersInv, RS!A2A
<1>2. ASSUME NEW c \in Calls, RS!Route(c) PROVE ServersInv'
  <2> USE <1>2 DEF RS!Route, RS!answered, RS!goTo, RS!workflowVars, RS!runVars
  <2>1. RS!TypeOK'
    BY DEF RS!TypeOK
  <2>2. \A d \in Calls : CallFacts(d)'
    BY DEF RS!TypeOK, CallFacts, NoRunYet
  <2>3. RS!CapKept' /\ Cardinality(OwnRuns') <= Cardinality(OwnRuns) /\ Cardinality(OwnRuns') \in Nat
    BY <1>q, OwnRunsShrink
  <2>4. \A d \in RS!A2A : A2AFacts(d)'
    BY <2>3 DEF RS!TypeOK, CallFacts, NoRunYet, A2AFacts
  <2> QED BY <2>1, <2>2, <2>3, <2>4 DEF ServersInv, RS!A2A
<1>3. ASSUME NEW c \in Calls, RS!Admit(c) PROVE ServersInv'
  <2> USE <1>3 DEF RS!Admit, RS!answered, RS!goTo, RS!workflowVars, RS!runVars
  <2>1. RS!TypeOK'
    BY DEF RS!TypeOK
  <2>2. \A d \in Calls : CallFacts(d)'
    BY DEF RS!TypeOK, CallFacts, NoRunYet
  <2>3. RS!CapKept' /\ Cardinality(OwnRuns') <= Cardinality(OwnRuns) /\ Cardinality(OwnRuns') \in Nat
    BY <1>q, OwnRunsShrink
  <2>4. \A d \in RS!A2A : A2AFacts(d)'
    BY <2>3 DEF RS!TypeOK, CallFacts, NoRunYet, A2AFacts
  <2> QED BY <2>1, <2>2, <2>3, <2>4 DEF ServersInv, RS!A2A
<1>4. ASSUME NEW c \in Calls, RS!Lock(c) PROVE ServersInv'
  <2> USE <1>4 DEF RS!Lock, RS!goTo, RS!workflowVars, RS!runVars
  <2>1. RS!TypeOK'
    BY DEF RS!TypeOK
  <2>2. \A d \in Calls : CallFacts(d)'
    BY DEF RS!TypeOK, CallFacts, NoRunYet
  <2>3. RS!CapKept' /\ Cardinality(OwnRuns') <= Cardinality(OwnRuns) /\ Cardinality(OwnRuns') \in Nat
    BY <1>q, OwnRunsShrink
  <2>4. \A d \in RS!A2A : A2AFacts(d)'
    BY <2>3 DEF RS!TypeOK, CallFacts, NoRunYet, A2AFacts
  <2> QED BY <2>1, <2>2, <2>3, <2>4 DEF ServersInv, RS!A2A
<1>5. ASSUME NEW c \in Calls, RS!Count(c) PROVE ServersInv'
  <2> USE <1>5 DEF RS!Count, RS!answered, RS!goTo, RS!unlock, RS!workflowVars, RS!runVars
  <2>1. RS!TypeOK'
    BY DEF RS!TypeOK
  <2>2. \A d \in Calls : CallFacts(d)'
    BY DEF RS!TypeOK, CallFacts, NoRunYet
  <2>3. RS!CapKept' /\ Cardinality(OwnRuns') <= Cardinality(OwnRuns) /\ Cardinality(OwnRuns') \in Nat
    BY <1>q, OwnRunsShrink
  <2>4. c \in RS!A2A /\ handlerAt'[c] = "create" => Cardinality(OwnRuns') < cap
    BY <2>3, OwnRunsFinite, SameCardinality DEF RS!TypeOK
  <2>5. \A d \in RS!A2A : A2AFacts(d)'
    BY <2>3, <2>4 DEF RS!TypeOK, CallFacts, NoRunYet, A2AFacts
  <2> QED BY <2>1, <2>2, <2>3, <2>5 DEF ServersInv, RS!A2A
<1>6. ASSUME NEW c \in Calls, RS!Create(c) PROVE ServersInv'
  <2> USE <1>6 DEF RS!Create, RS!answered, RS!goTo, RS!unlock, RS!workflowVars
  <2>1. RS!TypeOK'
    BY DEF RS!TypeOK
  <2>2. \A d \in Calls : CallFacts(d)'
    BY DEF RS!TypeOK, CallFacts, NoRunYet
  <2>3. c \notin RS!A2A => OwnRuns' = OwnRuns
    BY DEF OwnRuns, RS!active, RS!A2A, RS!TypeOK
  <2>4. OwnRuns' \subseteq OwnRuns \cup {c}
    BY DEF OwnRuns, RS!active, RS!A2A, RS!TypeOK
  <2>5. Cardinality(OwnRuns') \in Nat /\ Cardinality(OwnRuns') <= Cardinality(OwnRuns) + 1
    BY <2>4, OwnRunsFinite, AddsOne
  <2>6. cap' = cap /\ RS!CapKept'
    <3>1. c \in RS!A2A /\ cap > 0 => Cardinality(OwnRuns) < cap
      BY DEF A2AFacts
    <3>2. RS!CapKept <=> (cap > 0 => Cardinality(OwnRuns) <= cap)
      BY SameCardinality DEF RS!CapKept, OwnRuns
    <3>3. RS!CapKept' <=> (cap' > 0 => Cardinality(OwnRuns') <= cap')
      BY SameCardinality DEF RS!CapKept, OwnRuns
    <3> QED BY <3>1, <3>2, <3>3, <2>3, <2>5
  <2>7. \A d \in RS!A2A : cap > 0 /\ handlerAt'[d] \in {"count", "create"} => admitMu' = d /\ c \notin RS!A2A
    BY DEF RS!TypeOK, A2AFacts
  <2>8. \A d \in RS!A2A : A2AFacts(d)'
    BY <2>3, <2>6, <2>7 DEF RS!TypeOK, CallFacts, NoRunYet, A2AFacts
  <2> QED BY <2>1, <2>2, <2>6, <2>8 DEF ServersInv, RS!A2A
<1>7. ASSUME NEW c \in Calls, RS!Poll(c) \/ RS!PollFails(c) \/ RS!GetTimesOut(c) \/ RS!Deadline(c)
      PROVE ServersInv'
  <2> USE <1>7 DEF RS!Poll, RS!PollFails, RS!GetTimesOut, RS!Deadline, RS!answered, RS!outcome, RS!workflowVars, RS!runVars
  <2>1. RS!TypeOK'
    BY DEF RS!TypeOK
  <2>2. \A d \in Calls : CallFacts(d)'
    BY DEF RS!TypeOK, CallFacts, NoRunYet
  <2>3. RS!CapKept' /\ Cardinality(OwnRuns') <= Cardinality(OwnRuns) /\ Cardinality(OwnRuns') \in Nat
    BY <1>q, OwnRunsShrink
  <2>4. \A d \in RS!A2A : A2AFacts(d)'
    BY <2>3 DEF RS!TypeOK, CallFacts, NoRunYet, A2AFacts
  <2> QED BY <2>1, <2>2, <2>3, <2>4 DEF ServersInv, RS!A2A
<1>8. ASSUME NEW c \in Calls, RS!RunEnds(c) \/ RS!RunDeleted(c) PROVE ServersInv'
  <2> USE <1>8 DEF RS!RunEnds, RS!RunDeleted, RS!workflowVars
  <2>1. RS!TypeOK'
    BY DEF RS!TypeOK
  <2>2. \A d \in Calls : CallFacts(d)'
    BY DEF RS!TypeOK, CallFacts, NoRunYet
  <2>3. RS!CapKept' /\ Cardinality(OwnRuns') <= Cardinality(OwnRuns) /\ Cardinality(OwnRuns') \in Nat
    BY <1>q, OwnRunsShrink
  <2>4. \A d \in RS!A2A : A2AFacts(d)'
    BY <2>3 DEF RS!TypeOK, CallFacts, NoRunYet, A2AFacts
  <2> QED BY <2>1, <2>2, <2>3, <2>4 DEF ServersInv, RS!A2A
<1>9. ASSUME RS!Flip \/ RS!CacheSyncs \/ UNCHANGED serversVars PROVE ServersInv'
  <2> USE <1>9 DEF RS!Flip, RS!CacheSyncs, serversVars, RS!runVars
  <2>1. RS!TypeOK'
    <3>1. flips' \in 0 .. MaxFlips
      BY ServersAssumption DEF RS!TypeOK
    <3>2. everOpen' \in [Calls -> BOOLEAN]
      BY DEF RS!TypeOK
    <3>3. exposed' \in BOOLEAN /\ cacheOpen' \in BOOLEAN
      BY DEF RS!TypeOK
    <3> QED
      BY <3>1, <3>2, <3>3 DEF RS!TypeOK
  <2>2. \A d \in Calls : CallFacts(d)'
    BY DEF RS!TypeOK, CallFacts, NoRunYet
  <2>3. RS!CapKept' /\ Cardinality(OwnRuns') <= Cardinality(OwnRuns) /\ Cardinality(OwnRuns') \in Nat
    BY <1>q, OwnRunsShrink
  <2>4. \A d \in RS!A2A : A2AFacts(d)'
    BY <2>3 DEF RS!TypeOK, CallFacts, NoRunYet, A2AFacts
  <2> QED BY <2>1, <2>2, <2>3, <2>4 DEF ServersInv, RS!A2A
<1> QED
  BY <1>1, <1>2, <1>3, <1>4, <1>5, <1>6, <1>7, <1>8, <1>9 DEF RS!Next, RS!Handler

\* It gives the promises the servers make.
LEMMA ServersImplies == ServersInv => RS!AnswerIsTrue /\ RS!RunsAdmitted
  BY DEF ServersInv, CallFacts, A2AFacts, RS!AnswerIsTrue, RS!RunsAdmitted, RS!OptOutHolds

\* The MCP and A2A servers call a run completed only when it succeeded and failed only
\* when it failed, could not be read or was being read when the deadline of
\* pollToTerminal passed; overlapping A2A calls keep their own runs within
\* maxConcurrentRuns, and a call that only ever saw the Workflow opted out creates none:
\* for every cap and every number of changes of the opt-in.
THEOREM ServersAnswerTruly == RS!Spec => [](RS!AnswerIsTrue /\ RS!RunsAdmitted)
<1>1. [RS!Next]_serversVars <=> [RS!Next]_RS!srvVars
  BY DEF serversVars, RS!srvVars
<1> QED
  BY <1>1, ServersInit, ServersStep, ServersImplies, PTL DEF RS!Spec

\* The same of the servers as MCProgress runs them.
THEOREM ServersPart == PartsSpec => []ServersSound
<1> DEFINE PartInv == part = "servers" => ServersInv
<1>1. PartsInit => PartInv
  BY ServersInit DEF PartsInit
<1>2. [PartsNext]_allVars => part' = part /\ (part = "servers" => [RS!Next]_serversVars)
  BY DEF PartsNext, allVars, only
<1>3. PartInv /\ [PartsNext]_allVars => PartInv'
  BY <1>2, ServersStep
<1>4. PartInv => ServersSound
  BY ServersImplies DEF ServersSound
<1> QED
  BY <1>1, <1>3, <1>4, PTL DEF PartsSpec

----------------------------------------------------------------------------
(* The trigger registry (TriggerRegistry).  The new readers are put into   *)
(* free slots one by one, which takes facts about counting.                *)

\* The members of F before s: the position of s in F.
below(F, s) == {t \in F : t < s}

\* A position is below the size of the set.
LEMMA BelowIsSmaller ==
  ASSUME NEW F, F \subseteq Nat, IsFiniteSet(F), NEW s \in F
  PROVE  Cardinality(below(F, s)) \in 0 .. (Cardinality(F) - 1)
<1>1. below(F, s) \subseteq F /\ below(F, s) # F
  BY DEF below
<1>2. IsFiniteSet(below(F, s)) /\ Cardinality(below(F, s)) <= Cardinality(F)
      /\ Cardinality(below(F, s)) # Cardinality(F)
  BY <1>1, FS_Subset
<1>3. Cardinality(below(F, s)) \in Nat /\ Cardinality(F) \in Nat
  BY <1>2, FS_CardinalityType
<1> QED
  BY <1>2, <1>3

\* Different members have different positions.
LEMMA BelowDistinct ==
  ASSUME NEW F, F \subseteq Nat, IsFiniteSet(F), NEW s \in F, NEW t \in F, s < t
  PROVE  Cardinality(below(F, s)) # Cardinality(below(F, t))
<1>0. s \in Int /\ t \in Int /\ \A u \in F : u \in Int
  OBVIOUS
<1>1. below(F, s) \subseteq below(F, t) /\ s \in below(F, t) /\ s \notin below(F, s)
  <2>1. \A u : u \in below(F, s) <=> u \in F /\ u < s
    BY DEF below
  <2>2. \A u : u \in below(F, t) <=> u \in F /\ u < t
    BY DEF below
  <2>3. ASSUME NEW u \in F, u < s PROVE u < t
    BY <1>0, <2>3
  <2>4. ~(s < s)
    BY <1>0
  <2>5. below(F, s) \subseteq below(F, t)
    BY <2>1, <2>2, <2>3
  <2> QED
    BY <2>1, <2>2, <2>4, <2>5
<1>2. IsFiniteSet(below(F, t))
  BY FS_Subset DEF below
<1> QED
  BY <1>1, <1>2, FS_Subset

\* Every position below the size is somebody's: the i-th free slot exists.
LEMMA RankExists ==
  ASSUME NEW F, F \subseteq Nat, IsFiniteSet(F), NEW k \in Nat, k < Cardinality(F)
  PROVE  \E s \in F : Cardinality(below(F, s)) = k
<1> DEFINE n == Cardinality(F)
           rank == [s \in F |-> Cardinality(below(F, s))]
           R == 0 .. (n - 1)
<1>1. n \in Nat /\ n > 0
  BY FS_CardinalityType
<1>2. rank \in [F -> R]
  BY BelowIsSmaller
<1>3. \A s, t \in F : rank[s] = rank[t] => s = t
  <2> SUFFICES ASSUME NEW s \in F, NEW t \in F, s # t PROVE rank[s] # rank[t]
    OBVIOUS
  <2>1. s < t \/ t < s
    OBVIOUS
  <2> QED
    BY <2>1, BelowDistinct
<1>4. rank \in Injection(F, R)
  BY <1>2, <1>3 DEF Injection, IsInjective
<1>5. IsFiniteSet(R) /\ Cardinality(R) = n
  <2>1. 0 \in Int /\ n - 1 \in Int /\ ~(0 > n - 1) /\ n - 1 - 0 + 1 = n
    BY <1>1
  <2> HIDE DEF n
  <2> QED
    BY <2>1, FS_Interval
<1>6. rank \in Surjection(F, R)
  BY <1>4, <1>5, FS_Injection
<1>7. k \in R
  BY <1>1
<1>8. \E s \in F : rank[s] = k
  BY <1>6, <1>7 DEF Surjection
<1> QED
  BY <1>8

\* The component's Cardinality is that of FiniteSets.
LEMMA RegistryCardinality == \A S : TR!Cardinality(S) = Cardinality(S)
  BY DEF TR!Cardinality, Cardinality

\* A goroutine that still reads events.
LiveReader(s) == goroutine[s].pc # "ended" /\ ~goroutine[s].stop

\* A goroutine that has not been told to stop is the one its trigger's entry in
\* the registry names: it is this that makes a second reader impossible.
RegistryInv ==
  /\ TR!TypeOK
  /\ edition \in 1 .. MaxEdits
  /\ \A s \in Slots : LiveReader(s) =>
       goroutine[s].trigger \in Triggers /\ watcher[goroutine[s].trigger] = s

\* A goroutine that is started takes a slot that nobody holds.
LEMMA SlotIsFree ==
  ASSUME NEW S, S \subseteq Triggers, NEW i \in S, TR!Cardinality(S) <= TR!Cardinality(TR!free)
  PROVE  TR!slotOf(i, S) \in TR!free
<1>1. IsFiniteSet(S) /\ S \subseteq Nat
  BY RegistryAssumption, FS_Subset
<1>2. IsFiniteSet(TR!free) /\ TR!free \subseteq Nat
  BY RegistryAssumption, FS_Subset DEF TR!free
<1>3. Cardinality(below(S, i)) \in Nat /\ Cardinality(below(S, i)) < Cardinality(TR!free)
  <2>1. Cardinality(below(S, i)) \in 0 .. (Cardinality(S) - 1)
    BY <1>1, BelowIsSmaller
  <2>2. Cardinality(S) \in Nat /\ Cardinality(TR!free) \in Nat
    BY <1>1, <1>2, FS_CardinalityType
  <2>3. Cardinality(S) <= Cardinality(TR!free)
    BY RegistryCardinality
  <2> QED
    BY <2>1, <2>2, <2>3
<1>4. \E s \in TR!free : Cardinality(below(TR!free, s)) = Cardinality(below(S, i))
  BY <1>2, <1>3, RankExists
<1>5. \E s \in TR!free : TR!Cardinality({t \in TR!free : t < s}) = TR!Cardinality({j \in S : j < i})
  BY <1>4, RegistryCardinality DEF below
<1> QED
  BY <1>5 DEF TR!slotOf

\* Cancelling its context changes nothing else of a goroutine.
LEMMA ToldToStop ==
  ASSUME NEW g \in TR!Goroutine
  PROVE  [g EXCEPT !.stop = TRUE] \in TR!Goroutine /\ [g EXCEPT !.stop = TRUE].stop
  BY DEF TR!Goroutine

\* RegisterWorkflow: the readers of the old triggers are stopped, and each new
\* event trigger has an entry and a goroutine of its own, whether or not the watch
\* and the schedule were accepted.
LEMMA RegisterKeepsInv ==
  ASSUME RegistryInv, NEW last \in Nat, NEW ok \in BOOLEAN, TR!register(last, ok),
         wanted' = wanted, edition' = edition
  PROVE  RegistryInv'
<1> DEFINE done(i) == i < last \/ (i = last /\ ok)
           starts == {i \in Triggers : wanted[i] = "event" /\ done(i)}
           ending == TR!stale.event \cup {i \in Triggers : wanted[i] \in TR!eventKinds /\ i <= last}
           slot(i) == TR!slotOf(i, starts)
           fresh(s) == \E i \in starts : slot(i) = s
<1>1. /\ TR!Cardinality(starts) <= TR!Cardinality(TR!free)
      /\ schedule' = [i \in Triggers |->
           IF i \in TR!stale.cron \/ (wanted[i] = "badCron" /\ i <= last) THEN 0
           ELSE IF wanted[i] = "cron" /\ done(i) THEN edition ELSE schedule[i]]
      /\ watcher' = [i \in Triggers |->
           IF i \in starts THEN slot(i) ELSE IF i \in ending THEN 0 ELSE watcher[i]]
      /\ goroutine' = [s \in Slots |->
           IF fresh(s)
           THEN [pc |-> "select", edition |-> edition, stop |-> FALSE, open |-> TRUE,
                 trigger |-> CHOOSE i \in starts : slot(i) = s]
           ELSE TR!stopped(goroutine, ending)[s]]
  BY DEF TR!register
<1>2. starts \subseteq Triggers /\ starts \subseteq ending
  BY RegistryAssumption DEF TR!eventKinds
<1>3. \A i \in starts : slot(i) \in Slots
  BY <1>1, <1>2, SlotIsFree DEF TR!free
<1>4. \A s \in Slots : fresh(s) =>
        LET i == CHOOSE i \in starts : slot(i) = s IN i \in starts /\ slot(i) = s
  OBVIOUS
<1>5. \A s \in Slots : TR!stopped(goroutine, ending)[s] =
        IF \E i \in ending : watcher[i] = s THEN [goroutine[s] EXCEPT !.stop = TRUE] ELSE goroutine[s]
  BY DEF TR!stopped
<1> HIDE DEF starts, ending, slot, done
<1>6. TR!TypeOK'
  <2>1. schedule' \in [Triggers -> 0 .. MaxEdits]
    <3>1. edition \in 0 .. MaxEdits /\ 0 \in 0 .. MaxEdits
      BY RegistryAssumption DEF RegistryInv
    <3> QED
      BY <1>1, <3>1 DEF RegistryInv, TR!TypeOK
  <2>2. watcher' \in [Triggers -> {0} \cup Slots]
    BY <1>1, <1>3 DEF RegistryInv, TR!TypeOK
  <2>3. goroutine' \in [Slots -> TR!Goroutine]
    <3> SUFFICES ASSUME NEW s \in Slots PROVE goroutine'[s] \in TR!Goroutine
      BY <1>1
    <3>1. CASE fresh(s)
      <4>1. (CHOOSE i \in starts : slot(i) = s) \in Triggers
        BY <1>2, <1>4, <3>1
      <4>2. edition \in 0 .. MaxEdits
        BY DEF RegistryInv
      <4> QED
        BY <1>1, <3>1, <4>1, <4>2 DEF TR!Goroutine
    <3>2. CASE ~fresh(s)
      <4>1. goroutine[s] \in TR!Goroutine
        BY DEF RegistryInv, TR!TypeOK
      <4>2. goroutine'[s] = IF \E i \in ending : watcher[i] = s
                            THEN [goroutine[s] EXCEPT !.stop = TRUE] ELSE goroutine[s]
        BY <1>1, <1>5, <3>2
      <4> QED
        BY <4>1, <4>2, ToldToStop
    <3> QED BY <3>1, <3>2
  <2> QED
    BY <2>1, <2>2, <2>3 DEF RegistryInv, TR!TypeOK
<1>7. ASSUME NEW s \in Slots, LiveReader(s)'
      PROVE  goroutine'[s].trigger \in Triggers /\ watcher'[goroutine'[s].trigger] = s
  <2>1. CASE fresh(s)
    <3>1. goroutine'[s].trigger \in starts /\ slot(goroutine'[s].trigger) = s
      BY <1>1, <1>4, <2>1
    <3> QED
      BY <1>1, <1>2, <3>1
  <2>2. CASE ~fresh(s)
    <3>1. goroutine'[s] = goroutine[s] /\ LiveReader(s) /\ ~\E i \in ending : watcher[i] = s
      <4>1. goroutine[s] \in TR!Goroutine
        BY DEF RegistryInv, TR!TypeOK
      <4>2. goroutine'[s] = IF \E i \in ending : watcher[i] = s
                            THEN [goroutine[s] EXCEPT !.stop = TRUE] ELSE goroutine[s]
        BY <1>1, <1>5, <2>2
      <4> QED
        BY <1>7, <4>1, <4>2, ToldToStop DEF LiveReader
    <3>2. goroutine[s].trigger \in Triggers /\ watcher[goroutine[s].trigger] = s
      BY <3>1 DEF RegistryInv
    <3> QED
      BY <1>1, <1>2, <3>1, <3>2
  <2> QED BY <2>1, <2>2
<1> QED
  BY <1>6, <1>7 DEF RegistryInv

\* Nothing is registered.
LEMMA RegistryInit == TR!Init => RegistryInv
  BY RegistryAssumption DEF TR!Init, RegistryInv, TR!TypeOK, TR!Unused, TR!Goroutine, LiveReader

\* A goroutine that moves on its own starts no reader.
LEMMA ReaderMoves ==
  ASSUME RegistryInv, NEW s \in Slots, NEW g \in TR!Goroutine, TR!step(s, g),
         g.pc # "ended" /\ ~g.stop => LiveReader(s) /\ g.trigger = goroutine[s].trigger
  PROVE  RegistryInv'
<1>1. TR!TypeOK' /\ edition' = edition
  BY DEF RegistryInv, TR!TypeOK, TR!step
<1>2. ASSUME NEW t \in Slots, LiveReader(t)'
      PROVE  goroutine'[t].trigger \in Triggers /\ watcher'[goroutine'[t].trigger] = t
  BY <1>2 DEF RegistryInv, TR!TypeOK, TR!step, LiveReader
<1> QED
  BY <1>1, <1>2 DEF RegistryInv

\* Edits, reconciles, deletion and the goroutines' own steps keep it.
LEMMA RegistryStep == RegistryInv /\ [TR!Next]_triggersVars => RegistryInv'
<1> SUFFICES ASSUME RegistryInv, [TR!Next]_triggersVars PROVE RegistryInv'
  OBVIOUS
<1>1. CASE TR!Edit
  BY <1>1, RegistryAssumption DEF TR!Edit, RegistryInv, TR!TypeOK, LiveReader
<1>2. CASE TR!Register
  <2>1. CASE TR!badOnes = {}
    <3>1. TR!lastTrigger \in Nat
      BY RegistryAssumption, RegistryCardinality, FS_CardinalityType DEF TR!lastTrigger
    <3> QED
      BY <1>2, <2>1, <3>1, RegisterKeepsInv DEF TR!Register
  <2>2. CASE TR!badOnes # {} /\ TR!firstBad \in Nat
    BY <1>2, <2>2, RegisterKeepsInv DEF TR!Register
  <2>3. TR!badOnes # {} => TR!firstBad \in Nat
    <3> SUFFICES ASSUME TR!badOnes # {} PROVE TR!firstBad \in Nat
      OBVIOUS
    <3>1. IsFiniteSet(TR!badOnes) /\ TR!badOnes \subseteq Nat
      BY RegistryAssumption, FS_Subset DEF TR!badOnes
    <3>2. \E i \in TR!badOnes : Cardinality(below(TR!badOnes, i)) = 0
      <4>1. Cardinality(TR!badOnes) \in Nat /\ Cardinality(TR!badOnes) # 0
        BY <3>1, FS_CardinalityType, FS_EmptySet
      <4>2. 0 \in Nat /\ 0 < Cardinality(TR!badOnes)
        BY <4>1
      <4> QED
        BY <3>1, <4>2, RankExists
    <3>3. \E i \in TR!badOnes : below(TR!badOnes, i) = {}
      BY <3>1, <3>2, FS_Subset, FS_EmptySet DEF below
    <3>4. \E i \in TR!badOnes : \A j \in TR!badOnes : i <= j
      BY <3>1, <3>3 DEF below
    <3> QED
      BY <3>1, <3>4 DEF TR!firstBad
  <2> QED BY <2>1, <2>2, <2>3
<1>3. ASSUME NEW i \in Triggers, TR!RegisterRefused(i) PROVE RegistryInv'
  BY <1>3, RegistryAssumption, RegisterKeepsInv DEF TR!RegisterRefused
<1>4. CASE TR!Unregister
  <2>1. TR!stale.event = Triggers /\ TR!stale.cron = Triggers
    BY <1>4 DEF TR!Unregister, TR!stale
  <2>2. /\ watcher' = [i \in Triggers |-> 0] /\ schedule' = [i \in Triggers |-> 0]
        /\ wanted' = wanted /\ edition' = edition
    BY <1>4, <2>1 DEF TR!Unregister
  <2>3. goroutine' = [s \in Slots |-> IF \E i \in Triggers : watcher[i] = s
                                      THEN [goroutine[s] EXCEPT !.stop = TRUE] ELSE goroutine[s]]
    BY <1>4, <2>1 DEF TR!Unregister, TR!stopped
  <2>4. TR!TypeOK'
    <3>1. goroutine' \in [Slots -> TR!Goroutine]
      BY <2>3, ToldToStop DEF RegistryInv, TR!TypeOK
    <3> QED
      BY <2>2, <3>1, RegistryAssumption DEF RegistryInv, TR!TypeOK
  <2>5. \A s \in Slots : ~LiveReader(s)'
    <3> SUFFICES ASSUME NEW s \in Slots PROVE ~LiveReader(s)'
      OBVIOUS
    <3>1. goroutine[s] \in TR!Goroutine
      BY DEF RegistryInv, TR!TypeOK
    <3>2. CASE \E i \in Triggers : watcher[i] = s
      BY <2>3, <3>1, <3>2, ToldToStop DEF LiveReader
    <3>3. CASE ~\E i \in Triggers : watcher[i] = s
      <4>1. goroutine'[s] = goroutine[s] /\ ~LiveReader(s)
        BY <2>3, <3>3 DEF RegistryInv
      <4> QED
        BY <4>1 DEF LiveReader
    <3> QED BY <3>2, <3>3
  <2> QED
    BY <2>2, <2>4, <2>5 DEF RegistryInv
<1>5. ASSUME NEW s \in Slots,
             TR!TakeEvent(s) \/ TR!RunCreated(s) \/ TR!WatchCloses(s) \/ TR!SeeClosed(s)
               \/ TR!Reopen(s) \/ TR!SeeStop(s)
      PROVE RegistryInv'
  <2>1. goroutine[s] \in TR!Goroutine
    BY DEF RegistryInv, TR!TypeOK
  <2>2. CASE TR!TakeEvent(s)
    <3> DEFINE g == [goroutine[s] EXCEPT !.pc = "creating"]
    <3>1. g \in TR!Goroutine /\ g.trigger = goroutine[s].trigger /\ g.stop = goroutine[s].stop
      BY <2>1 DEF TR!Goroutine
    <3> QED
      BY <2>2, <3>1, ReaderMoves DEF TR!TakeEvent, LiveReader
  <2>3. CASE TR!RunCreated(s)
    <3> DEFINE g == [goroutine[s] EXCEPT !.pc = "select"]
    <3>1. g \in TR!Goroutine /\ g.trigger = goroutine[s].trigger /\ g.stop = goroutine[s].stop
      BY <2>1 DEF TR!Goroutine
    <3> QED
      BY <2>3, <3>1, ReaderMoves DEF TR!RunCreated, LiveReader
  <2>4. CASE TR!WatchCloses(s)
    <3> DEFINE g == [goroutine[s] EXCEPT !.open = FALSE]
    <3>1. g \in TR!Goroutine /\ g.trigger = goroutine[s].trigger /\ g.stop = goroutine[s].stop
      BY <2>1 DEF TR!Goroutine
    <3> QED
      BY <2>4, <3>1, ReaderMoves DEF TR!WatchCloses, LiveReader
  <2>5. CASE TR!SeeClosed(s)
    <3> DEFINE g == [goroutine[s] EXCEPT !.pc = "reopen"]
    <3>1. g \in TR!Goroutine /\ g.trigger = goroutine[s].trigger /\ g.stop = goroutine[s].stop
      BY <2>1 DEF TR!Goroutine
    <3> QED
      BY <2>5, <3>1, ReaderMoves DEF TR!SeeClosed, LiveReader
  <2>6. CASE TR!Reopen(s)
    <3> DEFINE g == [goroutine[s] EXCEPT !.pc = "select", !.open = TRUE]
    <3>1. g \in TR!Goroutine /\ g.trigger = goroutine[s].trigger /\ g.stop = goroutine[s].stop
      BY <2>1 DEF TR!Goroutine
    <3> QED
      BY <2>6, <3>1, ReaderMoves DEF TR!Reopen, LiveReader
  <2>7. CASE TR!SeeStop(s)
    <3>1. TR!Unused \in TR!Goroutine /\ TR!Unused.pc = "ended"
      BY RegistryAssumption DEF TR!Unused, TR!Goroutine
    <3> QED
      BY <2>7, <3>1, ReaderMoves DEF TR!SeeStop
  <2> QED
    BY <1>5, <2>2, <2>3, <2>4, <2>5, <2>6, <2>7
<1>6. CASE UNCHANGED triggersVars
  BY <1>6 DEF triggersVars, RegistryInv, TR!TypeOK, LiveReader
<1> QED
  BY <1>1, <1>2, <1>3, <1>4, <1>5, <1>6 DEF TR!Next

\* So the live reader of a trigger is the one that can be stopped.
LEMMA RegistryImplies == RegistryInv => TR!OneReader
  BY DEF RegistryInv, TR!OneReader, LiveReader

\* The trigger manager: at any time a trigger is read by at most one goroutine that was
\* not told to stop, the one its registry entry can stop, however edits, refused
\* watches and slow stops overlap: for every set of triggers and every number of edits.
THEOREM RegistryReadsOnce == TR!Spec => [](TR!OneReader)
<1>1. [TR!Next]_triggersVars <=> [TR!Next]_TR!registryVars
  BY DEF triggersVars, TR!registryVars
<1> QED
  BY <1>1, RegistryInit, RegistryStep, RegistryImplies, PTL DEF TR!Spec

\* The same of the registry as MCProgress runs it.
THEOREM TriggersPart == PartsSpec => []OneReader
<1> DEFINE PartInv == part = "triggers" => RegistryInv
<1>1. PartsInit => PartInv
  BY RegistryInit DEF PartsInit
<1>2. [PartsNext]_allVars => part' = part /\ (part = "triggers" => [TR!Next]_triggersVars)
  BY DEF PartsNext, allVars, only
<1>3. PartInv /\ [PartsNext]_allVars => PartInv'
  BY <1>2, RegistryStep
<1>4. PartInv => OneReader
  BY RegistryImplies DEF OneReader
<1> QED
  BY <1>1, <1>3, <1>4, PTL DEF PartsSpec

----------------------------------------------------------------------------
(* The certificates (CertManager).  What each replica has in hand stems    *)
(* from a CA key not newer than the newest.                                *)

\* Where a replica is once it has the pair on its disk, and before.
Up == {"readCA", "readVWC", "patch", "serve"}

\* The places of a replica.
CertPc ==
  Up \cup {"caKey", "caDelete", "leafKey", "leafDelete", "chainLeaf", "chainCA", "repair", "renewCA",
           "createCA", "fillCA", "renewTLS", "createLeaf", "fillLeaf", "validate", "readLeaf", "serving"}

\* What a replica holds of the certificates.
ReplicaState ==
  [pc : CertPc, steady : BOOLEAN, saw : 0 .. MaxKeys, bundle : 0 .. MaxKeys, serves : 0 .. MaxKeys]

\* A certificate Secret: what is in it and the CA key it was signed with.
Secret == [kind : CM!Kinds, key : 0 .. MaxKeys]

\* The webhook configuration.
Config == [exists : BOOLEAN, key : 0 .. MaxKeys, patched : BOOLEAN]

\* A leaf that an earlier install left behind.
Leftover(l) == CM!hasCert(l) /\ l.key = 0

\* What a replica p has seen, with n CA keys made and leaf l stored.
ReplicaFacts(p, n, l) ==
  /\ p.saw <= n /\ p.bundle <= n /\ p.serves <= n
  /\ p.pc \in {"createLeaf", "fillLeaf"} => p.saw > 0
  /\ p.pc \in {"readVWC", "patch"} => p.bundle > 0
  /\ p.steady \/ p.pc \in Up \cup {"readLeaf"} => ~Leftover(l)
  /\ p.steady \/ p.pc \in Up => p.serves > 0

\* The inductive invariant of the replicas' boots.
CertInv ==
  /\ ca \in Secret /\ leaf \in Secret
  /\ vwc \in Config /\ caKeys \in 0 .. MaxKeys
  /\ mishaps \in 0 .. MaxMishaps
  /\ replica \in [Replicas -> ReplicaState]
  /\ ca.key <= caKeys /\ leaf.key <= caKeys /\ vwc.key <= caKeys
  /\ CM!hasCert(ca) => ca.key > 0
  /\ vwc.patched => vwc.key > 0
  /\ \A r \in Replicas : ReplicaFacts(replica[r], caKeys, leaf)

\* A replica that starts holds nothing yet.
LEMMA StartingFine ==
  ASSUME NEW n \in Nat, NEW l
  PROVE  CM!Starting \in ReplicaState /\ ReplicaFacts(CM!Starting, n, l)
<1>1. CM!Starting \in ReplicaState
  BY CertAssumption DEF CM!Starting, ReplicaState, CertPc
<1>2. /\ CM!Starting.pc = "caKey" /\ CM!Starting.steady = FALSE
      /\ CM!Starting.saw = 0 /\ CM!Starting.bundle = 0 /\ CM!Starting.serves = 0
  BY DEF CM!Starting
<1>3. ~CM!Starting.steady
  BY <1>2
<1> QED
  BY <1>1, <1>2, <1>3 DEF ReplicaFacts, Up

\* A new cluster or one with leftovers, every replica about to start.
LEMMA CertInit == CM!Init => CertInv
<1> SUFFICES ASSUME CM!Init PROVE CertInv
  OBVIOUS
<1>1. /\ ca \in [kind : CM!Kinds, key : 0 .. 1] /\ leaf \in [kind : CM!Kinds, key : 0 .. 1]
      /\ caKeys \in 0 .. 1 /\ ca.key <= caKeys /\ leaf.key <= caKeys
      /\ CM!hasCert(ca) => ca.key > 0
  BY DEF CM!Init, CM!Absent, CM!secret, CM!hasCert, CM!Kinds
<1>2. vwc \in Config /\ vwc.key <= caKeys /\ ~vwc.patched
  <2>1. 0 \in 0 .. MaxKeys /\ ca.key \in 0 .. MaxKeys
    BY <1>1, CertAssumption
  <2>2. PICK b \in BOOLEAN, k \in {0, ca.key} : vwc = [exists |-> b, key |-> k, patched |-> FALSE]
    BY DEF CM!Init, CM!config
  <2>3. vwc \in Config /\ vwc.key = k /\ ~vwc.patched
    BY <2>1, <2>2 DEF Config
  <2> QED
    BY <1>1, <2>3
<1>3. replica \in [Replicas -> ReplicaState] /\ \A r \in Replicas : ReplicaFacts(replica[r], caKeys, leaf)
  BY <1>1, StartingFine DEF CM!Init
<1> QED
  BY <1>1, <1>2, <1>3, CertAssumption DEF CertInv, CM!Init, Secret

\* What a step of one replica must show.
LEMMA OneReplica ==
  ASSUME CertInv, NEW r \in Replicas, NEW p \in ReplicaState, replica' = [replica EXCEPT ![r] = p],
         ca' \in Secret, leaf' \in Secret,
         vwc' \in Config, caKeys' \in 0 .. MaxKeys,
         mishaps' \in 0 .. MaxMishaps, caKeys <= caKeys',
         ca'.key <= caKeys', leaf'.key <= caKeys', vwc'.key <= caKeys',
         CM!hasCert(ca') => ca'.key > 0, vwc'.patched => vwc'.key > 0,
         Leftover(leaf') => Leftover(leaf),
         ReplicaFacts(p, caKeys', leaf')
  PROVE  CertInv'
<1>1. replica' \in [Replicas -> ReplicaState]
  BY DEF CertInv
<1>2. \A q \in Replicas : ReplicaFacts(replica'[q], caKeys', leaf')
  <2> SUFFICES ASSUME NEW q \in Replicas PROVE ReplicaFacts(replica'[q], caKeys', leaf')
    OBVIOUS
  <2>1. CASE q = r
    <3>1. replica'[q] = p
      BY <2>1 DEF CertInv
    <3> QED BY <3>1
  <2>2. CASE q # r
    <3>1. replica'[q] = replica[q] /\ ReplicaFacts(replica[q], caKeys, leaf) /\ replica[q] \in ReplicaState
      BY <2>2 DEF CertInv
    <3>2. caKeys \in Nat /\ caKeys' \in Nat
      BY DEF CertInv
    <3>3. replica[q].saw \in Nat /\ replica[q].bundle \in Nat /\ replica[q].serves \in Nat
      BY <3>1 DEF ReplicaState
    <3> QED
      BY <3>1, <3>2, <3>3 DEF ReplicaFacts
  <2> QED BY <2>1, <2>2
<1> QED
  BY <1>1, <1>2 DEF CertInv

\* Places where a replica has nothing in hand that another could spoil.
Plain == CertPc \ (Up \cup {"readLeaf", "createLeaf", "fillLeaf"})

\* A replica that goes on, or starts its pass again, with what it serves kept.
LEMMA GoesOn ==
  ASSUME CertInv, NEW r \in Replicas, NEW pc0 \in Plain,
         NEW k \in 0 .. MaxKeys, NEW n \in Nat, NEW l, caKeys <= n, k <= n, Leftover(l) => Leftover(leaf)
  PROVE  /\ [replica[r] EXCEPT !.pc = pc0] \in ReplicaState
         /\ ReplicaFacts([replica[r] EXCEPT !.pc = pc0], n, l)
         /\ [replica[r] EXCEPT !.pc = pc0, !.saw = k] \in ReplicaState
         /\ ReplicaFacts([replica[r] EXCEPT !.pc = pc0, !.saw = k], n, l)
<1> DEFINE p == [replica[r] EXCEPT !.pc = pc0]
           q == [replica[r] EXCEPT !.pc = pc0, !.saw = k]
<1>0. pc0 \in CertPc /\ pc0 \notin Up /\ pc0 # "readLeaf"
      /\ pc0 \notin {"createLeaf", "fillLeaf", "readVWC", "patch"}
  BY DEF Plain, Up
<1>1. replica[r] \in ReplicaState /\ ReplicaFacts(replica[r], caKeys, leaf) /\ caKeys \in Nat
  BY DEF CertInv
<1>2. replica[r].saw \in Nat /\ replica[r].bundle \in Nat /\ replica[r].serves \in Nat
  BY <1>1 DEF ReplicaState
<1>3. /\ p \in ReplicaState /\ p.pc = pc0 /\ p.saw = replica[r].saw
      /\ p.bundle = replica[r].bundle /\ p.serves = replica[r].serves /\ p.steady = replica[r].steady
  BY <1>0, <1>1 DEF ReplicaState
<1>4. /\ q \in ReplicaState /\ q.pc = pc0 /\ q.saw = k
      /\ q.bundle = replica[r].bundle /\ q.serves = replica[r].serves /\ q.steady = replica[r].steady
  BY <1>0, <1>1 DEF ReplicaState
<1> HIDE DEF p, q
<1>5. ReplicaFacts(p, n, l)
  BY <1>0, <1>1, <1>2, <1>3 DEF ReplicaFacts
<1>6. ReplicaFacts(q, n, l)
  BY <1>0, <1>1, <1>2, <1>4 DEF ReplicaFacts
<1> QED
  BY <1>3, <1>4, <1>5, <1>6 DEF p, q

\* A step that only moves the replica along.
LEMMA Quiet ==
  ASSUME CertInv, NEW r \in Replicas, NEW p \in ReplicaState, replica' = [replica EXCEPT ![r] = p],
         CM!stay, ReplicaFacts(p, caKeys, leaf)
  PROVE  CertInv'
  BY OneReplica DEF CM!stay, CertInv

\* A deleted Secret is of no key.
LEMMA AbsentFine ==
  /\ CM!Absent \in Secret /\ CM!Absent.key = 0 /\ CM!Absent.kind = "absent"
  /\ ~CM!hasCert(CM!Absent) /\ ~Leftover(CM!Absent)
  BY CertAssumption DEF CM!Absent, CM!secret, CM!hasCert, Secret, CM!Kinds, Leftover

\* A pass that is given up and begun again changes nothing else.
LEMMA BeginsAgain ==
  ASSUME CertInv, NEW r \in Replicas, CM!again(r), ca' = ca, leaf' = leaf, vwc' = vwc, caKeys' = caKeys,
         mishaps' \in 0 .. MaxMishaps
  PROVE  CertInv'
<1> DEFINE p == [replica[r] EXCEPT !.pc = "caKey", !.saw = 0]
<1>1. replica' = [replica EXCEPT ![r] = p]
  BY DEF CM!again, CM!goto, CertInv
<1>2. "caKey" \in Plain /\ 0 \in 0 .. MaxKeys /\ caKeys \in Nat /\ caKeys <= caKeys /\ 0 <= caKeys
  BY CertAssumption DEF Plain, CertPc, Up, CertInv
<1>3. p \in ReplicaState /\ ReplicaFacts(p, caKeys, leaf)
  BY <1>2, GoesOn
<1> HIDE DEF p
<1> QED
  BY <1>1, <1>2, <1>3, OneReplica DEF CertInv

\* One pass over the two Secrets.
LEMMA PassStep ==
  ASSUME CertInv, NEW r \in Replicas,
         CM!ReadKey(r) \/ CM!DeleteUndecodable(r) \/ CM!ReadChain(r) \/ CM!repairLeafChain(r)
           \/ CM!RenewCA(r) \/ CM!WriteCA(r)
  PROVE  CertInv'
<1>0. /\ caKeys \in Nat /\ 0 \in 0 .. MaxKeys /\ leaf.key \in 0 .. MaxKeys /\ leaf.key <= caKeys
      /\ ca.kind \in CM!Kinds /\ replica[r] \in ReplicaState
  BY CertAssumption DEF CertInv, Secret
<1>1. \A pc0 \in Plain :
        /\ [replica[r] EXCEPT !.pc = pc0, !.saw = 0] \in ReplicaState
        /\ ReplicaFacts([replica[r] EXCEPT !.pc = pc0, !.saw = 0], caKeys, leaf)
        /\ ReplicaFacts([replica[r] EXCEPT !.pc = pc0, !.saw = 0], caKeys, CM!Absent)
        /\ ReplicaFacts([replica[r] EXCEPT !.pc = pc0, !.saw = 0], caKeys + 1, leaf)
  <2>1. caKeys <= caKeys /\ 0 <= caKeys /\ caKeys <= caKeys + 1 /\ 0 <= caKeys + 1 /\ caKeys + 1 \in Nat
    BY <1>0
  <2> SUFFICES ASSUME NEW pc0 \in Plain
               PROVE  /\ [replica[r] EXCEPT !.pc = pc0, !.saw = 0] \in ReplicaState
                      /\ ReplicaFacts([replica[r] EXCEPT !.pc = pc0, !.saw = 0], caKeys, leaf)
                      /\ ReplicaFacts([replica[r] EXCEPT !.pc = pc0, !.saw = 0], caKeys, CM!Absent)
                      /\ ReplicaFacts([replica[r] EXCEPT !.pc = pc0, !.saw = 0], caKeys + 1, leaf)
    OBVIOUS
  <2>2. /\ [replica[r] EXCEPT !.pc = pc0, !.saw = 0] \in ReplicaState
        /\ ReplicaFacts([replica[r] EXCEPT !.pc = pc0, !.saw = 0], caKeys, leaf)
    BY <1>0, <2>1, GoesOn
  <2>3. ReplicaFacts([replica[r] EXCEPT !.pc = pc0, !.saw = 0], caKeys, CM!Absent)
    BY <1>0, <2>1, GoesOn, AbsentFine
  <2>4. ReplicaFacts([replica[r] EXCEPT !.pc = pc0, !.saw = 0], caKeys + 1, leaf)
    BY <1>0, <2>1, GoesOn
  <2> QED BY <2>2, <2>3, <2>4
<1>2. \A pc0 \in Plain : CM!goto(r, pc0) => replica' = [replica EXCEPT ![r] = [replica[r] EXCEPT !.pc = pc0, !.saw = 0]]
  BY DEF CM!goto, CertInv
<1>3. CASE CM!ReadKey(r)
  <2>1. PICK pc0 \in Plain : CM!goto(r, pc0)
    BY <1>3 DEF CM!ReadKey, Plain, CertPc, Up
  <2> QED
    BY <1>1, <1>2, <1>3, <2>1, Quiet DEF CM!ReadKey
<1>4. CASE CM!DeleteUndecodable(r)
  <2>1. PICK pc0 \in Plain : CM!goto(r, pc0)
    BY <1>4 DEF CM!DeleteUndecodable, Plain, CertPc, Up
  <2>2. (ca' = CM!Absent /\ leaf' = leaf) \/ (leaf' = CM!Absent /\ ca' = ca)
    BY <1>4 DEF CM!DeleteUndecodable
  <2>3. vwc' = vwc /\ caKeys' = caKeys /\ mishaps' = mishaps
    BY <1>4 DEF CM!DeleteUndecodable
  <2> DEFINE p == [replica[r] EXCEPT !.pc = pc0, !.saw = 0]
  <2>4. /\ replica' = [replica EXCEPT ![r] = p] /\ p \in ReplicaState
       /\ ReplicaFacts(p, caKeys, leaf) /\ ReplicaFacts(p, caKeys, CM!Absent)
    BY <1>1, <1>2, <2>1
  <2> HIDE DEF p
  <2>5. ReplicaFacts(p, caKeys', leaf') /\ (Leftover(leaf') => Leftover(leaf)) /\ leaf' \in Secret
    BY <2>2, <2>3, <2>4, AbsentFine DEF CertInv
  <2>6. ca' \in Secret /\ (CM!hasCert(ca') => ca'.key > 0) /\ ca'.key <= caKeys' /\ leaf'.key <= caKeys'
    BY <1>0, <2>2, <2>3, AbsentFine DEF CertInv
  <2>7. /\ vwc' \in Config /\ caKeys' \in 0 .. MaxKeys /\ mishaps' \in 0 .. MaxMishaps
        /\ caKeys <= caKeys' /\ vwc'.key <= caKeys' /\ (vwc'.patched => vwc'.key > 0)
    BY <1>0, <2>2, <2>3 DEF CertInv
  <2> QED
    BY <2>4, <2>5, <2>6, <2>7, OneReplica
<1>5. CASE CM!ReadChain(r)
  <2>1. CASE CM!at(r, "chainLeaf")
    <3>1. PICK pc0 \in Plain : replica' = [replica EXCEPT ![r].pc = pc0, ![r].saw = leaf.key]
      BY <1>5, <2>1 DEF CM!ReadChain, CM!at, Plain, CertPc, Up
    <3>2. replica' = [replica EXCEPT ![r] = [replica[r] EXCEPT !.pc = pc0, !.saw = leaf.key]]
      BY <3>1 DEF CertInv
    <3>3. /\ [replica[r] EXCEPT !.pc = pc0, !.saw = leaf.key] \in ReplicaState
          /\ ReplicaFacts([replica[r] EXCEPT !.pc = pc0, !.saw = leaf.key], caKeys, leaf)
      <4>1. caKeys <= caKeys
        BY <1>0
      <4> QED BY <1>0, <4>1, GoesOn
    <3> QED
      BY <1>5, <3>2, <3>3, Quiet DEF CM!ReadChain
  <2>2. CASE ~CM!at(r, "chainLeaf")
    <3>1. PICK pc0 \in Plain : CM!goto(r, pc0)
      BY <1>5, <2>2 DEF CM!ReadChain, CM!at, Plain, CertPc, Up
    <3> QED
      BY <1>1, <1>2, <1>5, <3>1, Quiet DEF CM!ReadChain
  <2> QED BY <2>1, <2>2
<1>6. CASE CM!repairLeafChain(r)
  <2>1. PICK pc0 \in Plain : CM!goto(r, pc0)
    BY <1>6 DEF CM!repairLeafChain, Plain, CertPc, Up
  <2>2. leaf' = CM!Absent /\ ca' = ca /\ vwc' = vwc /\ caKeys' = caKeys /\ mishaps' = mishaps
    BY <1>6 DEF CM!repairLeafChain
  <2> DEFINE p == [replica[r] EXCEPT !.pc = pc0, !.saw = 0]
  <2>4. /\ replica' = [replica EXCEPT ![r] = p] /\ p \in ReplicaState
       /\ ReplicaFacts(p, caKeys, leaf) /\ ReplicaFacts(p, caKeys, CM!Absent)
    BY <1>1, <1>2, <2>1
  <2> HIDE DEF p
  <2>5. ReplicaFacts(p, caKeys', leaf') /\ (Leftover(leaf') => Leftover(leaf)) /\ leaf' \in Secret
    BY <2>2, <2>4, AbsentFine DEF CertInv
  <2>6. ca' \in Secret /\ (CM!hasCert(ca') => ca'.key > 0) /\ ca'.key <= caKeys' /\ leaf'.key <= caKeys'
    BY <1>0, <2>2, AbsentFine DEF CertInv
  <2>7. /\ vwc' \in Config /\ caKeys' \in 0 .. MaxKeys /\ mishaps' \in 0 .. MaxMishaps
        /\ caKeys <= caKeys' /\ vwc'.key <= caKeys' /\ (vwc'.patched => vwc'.key > 0)
    BY <1>0, <2>2 DEF CertInv
  <2> QED
    BY <2>4, <2>5, <2>6, <2>7, OneReplica
<1>7. CASE CM!RenewCA(r)
  <2>1. CASE ca.kind = "notPEM"
    <3>1. CM!stay /\ replica' = [replica EXCEPT ![r] = CM!Starting]
      BY <1>7, <2>1 DEF CM!RenewCA, CM!stay
    <3> QED
      BY <1>0, <3>1, StartingFine, Quiet
  <2>2. CASE ca.kind # "notPEM"
    <3>1. PICK pc0 \in Plain : CM!goto(r, pc0)
      BY <1>0, <1>7, <2>2 DEF CM!RenewCA, CM!again, Plain, CertPc, Up
    <3>2. (ca' = CM!Absent \/ ca' = ca) /\ leaf' = leaf /\ vwc' = vwc /\ caKeys' = caKeys /\ mishaps' = mishaps
      BY <1>7, <2>2 DEF CM!RenewCA
    <3> DEFINE p == [replica[r] EXCEPT !.pc = pc0, !.saw = 0]
    <3>4. /\ replica' = [replica EXCEPT ![r] = p] /\ p \in ReplicaState
         /\ ReplicaFacts(p, caKeys, leaf) /\ ReplicaFacts(p, caKeys, CM!Absent)
      BY <1>1, <1>2, <3>1
    <3> HIDE DEF p
    <3> QED
      BY <1>0, <3>2, <3>4, OneReplica, AbsentFine DEF CertInv
  <2> QED BY <2>1, <2>2
<1>8. CASE CM!WriteCA(r)
  <2> DEFINE empty == ca.kind = (IF CM!at(r, "createCA") THEN "absent" ELSE "unfilled")
  <2>1. CASE empty
    <3>1. /\ caKeys < MaxKeys /\ caKeys' = caKeys + 1 /\ ca' = CM!secret("ok", caKeys + 1)
          /\ CM!goto(r, "renewTLS") /\ leaf' = leaf /\ vwc' = vwc /\ mishaps' = mishaps
      BY <1>8, <2>1 DEF CM!WriteCA
    <3>2. "renewTLS" \in Plain
      BY DEF Plain, CertPc, Up
    <3>3. /\ ca' \in Secret /\ ca'.key = caKeys + 1 /\ caKeys' \in 0 .. MaxKeys
      BY <1>0, <3>1, CertAssumption DEF CM!secret, Secret, CM!Kinds
    <3>4. leaf.key <= caKeys' /\ vwc.key <= caKeys' /\ caKeys <= caKeys' /\ ca'.key <= caKeys' /\ ca'.key > 0
      BY <1>0, <3>1, <3>3 DEF CertInv, Config
    <3> QED
      BY <1>1, <1>2, <3>1, <3>2, <3>3, <3>4, OneReplica DEF CertInv
  <2>2. CASE ~empty
    <3>1. CM!again(r) /\ CM!stay
      BY <1>8, <2>2 DEF CM!WriteCA, CM!stay
    <3> QED
      BY <3>1, BeginsAgain DEF CM!stay, CertInv
  <2> QED BY <2>1, <2>2
<1> QED
  BY <1>3, <1>4, <1>5, <1>6, <1>7, <1>8

\* The end of a pass.
LEMMA RenewStep ==
  ASSUME CertInv, NEW r \in Replicas, CM!RenewTLS(r) \/ CM!WriteLeaf(r) \/ CM!reconcileCerts(r)
  PROVE  CertInv'
<1>0. /\ caKeys \in Nat /\ 0 \in 0 .. MaxKeys /\ caKeys <= caKeys /\ 0 <= caKeys
      /\ ca.key \in 0 .. MaxKeys /\ ca.key <= caKeys
      /\ leaf.kind \in CM!Kinds /\ ca.kind \in CM!Kinds /\ replica[r] \in ReplicaState
      /\ ReplicaFacts(replica[r], caKeys, leaf) /\ mishaps \in 0 .. MaxMishaps
      /\ replica[r].saw \in 0 .. MaxKeys /\ replica[r].bundle \in Nat /\ replica[r].serves \in Nat
  BY CertAssumption DEF CertInv, Secret, ReplicaState
<1>1. /\ "validate" \in Plain /\ "validate" \in CertPc /\ "serving" \in Plain
      /\ "readLeaf" \in CertPc /\ "createLeaf" \in CertPc /\ "fillLeaf" \in CertPc /\ "serving" \in CertPc
      /\ "createLeaf" \notin Up /\ "fillLeaf" \notin Up /\ "readLeaf" \notin Up /\ "serving" \notin Up
  BY DEF Plain, CertPc, Up
<1> DEFINE v == [replica[r] EXCEPT !.pc = "validate", !.saw = 0]
<1>2. /\ v \in ReplicaState /\ ReplicaFacts(v, caKeys, leaf) /\ ReplicaFacts(v, caKeys, CM!Absent)
      /\ \A l : ~Leftover(l) => ReplicaFacts(v, caKeys, l)
  BY <1>0, <1>1, GoesOn, AbsentFine
<1>3. CM!goto(r, "validate") => replica' = [replica EXCEPT ![r] = v]
  BY DEF CM!goto, CertInv
<1> HIDE DEF v
<1>4. CASE CM!RenewTLS(r)
  <2>1. ca' = ca /\ vwc' = vwc /\ caKeys' = caKeys /\ mishaps' = mishaps
    BY <1>4 DEF CM!RenewTLS
  <2>2. CASE leaf.kind \in {"wrongType", "ok"}
    <3>1. CM!goto(r, "validate") /\ (leaf' = CM!Absent \/ leaf' = leaf)
      BY <1>4, <2>2 DEF CM!RenewTLS
    <3> QED
      BY <1>0, <1>2, <1>3, <2>1, <3>1, OneReplica, AbsentFine DEF CertInv
  <2>3. CASE leaf.kind = "notPEM"
    <3>1. CM!stay /\ replica' = [replica EXCEPT ![r] = CM!Starting]
      BY <1>4, <2>1, <2>3 DEF CM!RenewTLS, CM!stay
    <3> QED
      BY <1>0, <3>1, StartingFine, Quiet
  <2>4. CASE leaf.kind \notin {"wrongType", "ok", "notPEM"} /\ (leaf.kind = "foreign" \/ ca.kind # "ok")
    <3>1. leaf' = leaf /\ CM!again(r)
      BY <1>4, <2>4 DEF CM!RenewTLS
    <3> QED
      BY <1>0, <2>1, <3>1, BeginsAgain
  <2>5. CASE leaf.kind \notin {"wrongType", "ok", "notPEM", "foreign"} /\ ca.kind = "ok"
    <3> DEFINE pc0 == IF leaf.kind = "absent" THEN "createLeaf" ELSE "fillLeaf"
               p == [replica[r] EXCEPT !.saw = ca.key, !.pc = pc0]
    <3>1. leaf' = leaf /\ replica' = [replica EXCEPT ![r].saw = ca.key, ![r].pc = pc0]
      BY <1>4, <2>5 DEF CM!RenewTLS
    <3>2. replica' = [replica EXCEPT ![r] = p]
      BY <3>1 DEF CertInv
    <3>3. /\ p \in ReplicaState /\ p.pc = pc0 /\ p.saw = ca.key /\ p.steady = replica[r].steady
          /\ p.bundle = replica[r].bundle /\ p.serves = replica[r].serves
      BY <1>0, <1>1 DEF ReplicaState
    <3> HIDE DEF p
    <3>4. ReplicaFacts(p, caKeys, leaf)
      BY <1>0, <1>1, <2>5, <3>3 DEF ReplicaFacts, CertInv, Leftover, CM!hasCert
    <3> QED
      BY <2>1, <3>1, <3>2, <3>3, <3>4, Quiet DEF CM!stay
  <2> QED BY <2>2, <2>3, <2>4, <2>5
<1>5. CASE CM!WriteLeaf(r)
  <2>1. ca' = ca /\ vwc' = vwc /\ caKeys' = caKeys /\ mishaps' = mishaps
    BY <1>5 DEF CM!WriteLeaf
  <2> DEFINE empty == leaf.kind = (IF CM!at(r, "createLeaf") THEN "absent" ELSE "unfilled")
  <2>2. CASE empty
    <3>1. CM!goto(r, "validate") /\ leaf' = CM!secret("ok", replica[r].saw)
      BY <1>5, <2>2 DEF CM!WriteLeaf
    <3>2. replica[r].saw > 0 /\ replica[r].saw <= caKeys
      BY <1>0, <1>5 DEF CM!WriteLeaf, CM!at, ReplicaFacts
    <3>3. leaf' \in Secret /\ leaf'.key = replica[r].saw /\ ~Leftover(leaf')
      BY <1>0, <3>1, <3>2 DEF CM!secret, Secret, CM!Kinds, Leftover
    <3> QED
      BY <1>0, <1>2, <1>3, <2>1, <3>1, <3>2, <3>3, OneReplica DEF CertInv
  <2>3. CASE ~empty
    <3>1. leaf' = leaf /\ CM!again(r)
      BY <1>5, <2>3 DEF CM!WriteLeaf
    <3> QED
      BY <1>0, <2>1, <3>1, BeginsAgain
  <2> QED BY <2>2, <2>3
<1>6. CASE CM!reconcileCerts(r)
  <2>1. CASE CM!ValidateCert
    <3>1. PICK pc0 \in {"serving", "readLeaf"} : replica' = [replica EXCEPT ![r].pc = pc0, ![r].saw = 0]
      BY <1>6, <2>1 DEF CM!reconcileCerts, CM!goto
    <3> DEFINE p == [replica[r] EXCEPT !.pc = pc0, !.saw = 0]
    <3>2. replica' = [replica EXCEPT ![r] = p]
      BY <3>1 DEF CertInv
    <3>3. /\ p \in ReplicaState /\ p.pc = pc0 /\ p.saw = 0 /\ p.steady = replica[r].steady
          /\ p.bundle = replica[r].bundle /\ p.serves = replica[r].serves
      BY <1>0, <1>1 DEF ReplicaState
    <3>4. ~Leftover(leaf)
      BY <2>1 DEF CM!ValidateCert, Leftover, CM!hasCert, CertInv
    <3> HIDE DEF p
    <3>5. ReplicaFacts(p, caKeys, leaf)
      BY <1>0, <1>1, <3>3, <3>4 DEF ReplicaFacts
    <3> QED
      BY <1>6, <3>2, <3>3, <3>5, Quiet DEF CM!reconcileCerts
  <2>2. CASE ~CM!ValidateCert
    BY <1>0, <1>6, <2>2, BeginsAgain DEF CM!reconcileCerts, CM!stay
  <2> QED BY <2>1, <2>2
<1> QED
  BY <1>4, <1>5, <1>6

\* The bootstrap of a replica, from the pair on its disk to serving it.
LEMMA BootStep ==
  ASSUME CertInv, NEW r \in Replicas,
         CM!BootstrapWebhookCerts(r) \/ CM!ReadVWC(r) \/ CM!PatchVWC(r) \/ CM!Serve(r)
  PROVE  CertInv'
<1>0. /\ caKeys \in Nat /\ 0 \in 0 .. MaxKeys /\ 0 <= caKeys
      /\ ca.key \in 0 .. MaxKeys /\ ca.key <= caKeys /\ leaf.key \in 0 .. MaxKeys /\ leaf.key <= caKeys
      /\ vwc.key \in 0 .. MaxKeys /\ vwc.key <= caKeys
      /\ replica[r] \in ReplicaState /\ ReplicaFacts(replica[r], caKeys, leaf)
      /\ replica[r].saw \in Nat /\ replica[r].bundle \in 0 .. MaxKeys /\ replica[r].serves \in Nat
  BY CertAssumption DEF CertInv, Secret, Config, ReplicaState
<1>1. /\ "readCA" \in CertPc /\ "readVWC" \in CertPc /\ "patch" \in CertPc /\ "serve" \in CertPc
      /\ "serving" \in CertPc /\ "serving" \notin Up
      /\ "createLeaf" \notin Up /\ "fillLeaf" \notin Up /\ "readCA" \in Up /\ "readVWC" \in Up /\ "patch" \in Up /\ "serve" \in Up
  BY DEF CertPc, Up
<1>2. CASE CM!stay /\ replica' = [replica EXCEPT ![r] = CM!Starting]
  BY <1>0, <1>2, StartingFine, Quiet
<1>3. CASE CM!BootstrapWebhookCerts(r)
  <2>1. CASE CM!at(r, "readLeaf") /\ CM!hasCert(leaf)
    <3> DEFINE p == [replica[r] EXCEPT !.pc = "readCA", !.serves = leaf.key]
    <3>1. replica' = [replica EXCEPT ![r].pc = "readCA", ![r].serves = leaf.key]
      BY <1>3, <2>1 DEF CM!BootstrapWebhookCerts, CM!at
    <3>2. replica' = [replica EXCEPT ![r] = p]
      BY <3>1 DEF CertInv
    <3>3. /\ p \in ReplicaState /\ p.pc = "readCA" /\ p.saw = replica[r].saw /\ p.steady = replica[r].steady
          /\ p.bundle = replica[r].bundle /\ p.serves = leaf.key
      BY <1>0, <1>1 DEF ReplicaState
    <3>4. ~Leftover(leaf) /\ leaf.key > 0
      BY <1>0, <2>1 DEF ReplicaFacts, CM!at, Leftover
    <3> HIDE DEF p
    <3>5. ReplicaFacts(p, caKeys, leaf)
      BY <1>0, <1>1, <3>3, <3>4 DEF ReplicaFacts
    <3> QED
      BY <1>3, <3>2, <3>3, <3>5, Quiet DEF CM!BootstrapWebhookCerts
  <2>2. CASE CM!at(r, "readCA") /\ CM!hasCert(ca)
    <3> DEFINE p == [replica[r] EXCEPT !.pc = "readVWC", !.bundle = ca.key]
    <3>1. replica' = [replica EXCEPT ![r] = p]
      BY <1>3, <2>2 DEF CM!BootstrapWebhookCerts, CM!at, CertInv
    <3>2. /\ p \in ReplicaState /\ p.pc = "readVWC" /\ p.saw = replica[r].saw /\ p.steady = replica[r].steady
          /\ p.bundle = ca.key /\ p.serves = replica[r].serves
      BY <1>0, <1>1 DEF ReplicaState
    <3> HIDE DEF p
    <3>3. ReplicaFacts(p, caKeys, leaf)
      BY <1>0, <1>1, <2>2, <3>2 DEF ReplicaFacts, CM!at, CertInv
    <3> QED
      BY <1>3, <3>1, <3>2, <3>3, Quiet DEF CM!BootstrapWebhookCerts
  <2>3. CASE (CM!at(r, "readLeaf") /\ ~CM!hasCert(leaf)) \/ (CM!at(r, "readCA") /\ ~CM!hasCert(ca))
    BY <1>2, <1>3, <2>3 DEF CM!BootstrapWebhookCerts, CM!at
  <2> QED
    BY <1>3, <2>1, <2>2, <2>3 DEF CM!BootstrapWebhookCerts
<1>4. CASE CM!ReadVWC(r)
  <2>1. PICK pc0 \in {"patch", "serve"} : replica' = [replica EXCEPT ![r].pc = pc0, ![r].saw = vwc.key]
    BY <1>4 DEF CM!ReadVWC
  <2> DEFINE p == [replica[r] EXCEPT !.pc = pc0, !.saw = vwc.key]
  <2>2. replica' = [replica EXCEPT ![r] = p]
    BY <2>1 DEF CertInv
  <2>3. /\ p \in ReplicaState /\ p.pc = pc0 /\ p.saw = vwc.key /\ p.steady = replica[r].steady
        /\ p.bundle = replica[r].bundle /\ p.serves = replica[r].serves
    BY <1>0, <1>1 DEF ReplicaState
  <2> HIDE DEF p
  <2>4. ReplicaFacts(p, caKeys, leaf)
    BY <1>0, <1>1, <1>4, <2>3 DEF ReplicaFacts, CM!at, CM!ReadVWC
  <2> QED
    BY <1>4, <2>2, <2>3, <2>4, Quiet DEF CM!ReadVWC
<1>5. CASE CM!PatchVWC(r)
  <2> DEFINE p == [replica[r] EXCEPT !.pc = "serve", !.saw = 0]
  <2>1. replica' = [replica EXCEPT ![r] = p]
    BY <1>5 DEF CM!PatchVWC, CM!goto, CertInv
  <2>2. /\ p \in ReplicaState /\ p.pc = "serve" /\ p.saw = 0 /\ p.steady = replica[r].steady
        /\ p.bundle = replica[r].bundle /\ p.serves = replica[r].serves
    BY <1>0, <1>1 DEF ReplicaState
  <2> HIDE DEF p
  <2>3. ReplicaFacts(p, caKeys, leaf)
    BY <1>0, <1>1, <1>5, <2>2 DEF ReplicaFacts, CM!at, CM!PatchVWC
  <2>4. vwc' \in Config /\ (vwc' = vwc \/ vwc'.key = replica[r].bundle)
    BY <1>0, <1>5 DEF CM!PatchVWC, CertInv, Config
  <2>5. vwc'.key <= caKeys /\ caKeys <= caKeys /\ (vwc'.patched => vwc'.key > 0)
    BY <1>0, <1>5, <2>4 DEF ReplicaFacts, CM!PatchVWC, CM!at, CertInv
  <2>6. ca' = ca /\ leaf' = leaf /\ caKeys' = caKeys /\ mishaps' = mishaps
    BY <1>5 DEF CM!PatchVWC
  <2> QED
    BY <2>1, <2>2, <2>3, <2>4, <2>5, <2>6, OneReplica DEF CertInv
<1>6. CASE CM!Serve(r)
  <2> DEFINE p == [replica[r] EXCEPT !.pc = "serving", !.steady = TRUE, !.saw = 0, !.bundle = 0]
  <2>1. replica' = [replica EXCEPT ![r] = p]
    BY <1>6 DEF CM!Serve, CertInv
  <2>2. p \in ReplicaState /\ p.pc = "serving" /\ p.saw = 0 /\ p.bundle = 0 /\ p.serves = replica[r].serves
    BY <1>0, <1>1 DEF ReplicaState
  <2> HIDE DEF p
  <2>3. replica[r].serves > 0 /\ ~Leftover(leaf) /\ replica[r].serves <= caKeys
    BY <1>0, <1>1, <1>6 DEF ReplicaFacts, CM!at, CM!Serve
  <2>4. ReplicaFacts(p, caKeys, leaf)
    BY <1>0, <1>1, <2>2, <2>3 DEF ReplicaFacts
  <2> QED
    BY <1>6, <2>1, <2>2, <2>4, Quiet DEF CM!Serve
<1> QED
  BY <1>3, <1>4, <1>5, <1>6

\* Every step of a boot, of a deletion by hand and of a restart keeps it.
LEMMA CertStep == CertInv /\ [CM!Next]_certVars => CertInv'
<1> SUFFICES ASSUME CertInv, [CM!Next]_certVars PROVE CertInv'
  OBVIOUS
<1>0. caKeys \in 0 .. MaxKeys /\ mishaps \in 0 .. MaxMishaps /\ ca \in Secret /\ leaf \in Secret
  BY DEF CertInv
<1>1. ASSUME NEW r \in Replicas, CM!Step(r) PROVE CertInv'
  <2>1. CASE CM!Renew(r)
    BY <1>0, <2>1, BeginsAgain DEF CM!Renew, CM!stay
  <2> QED
    BY <1>1, <2>1, PassStep, RenewStep, BootStep DEF CM!Step
<1>2. ASSUME NEW r \in Replicas, CM!Fails(r) PROVE CertInv'
  <2>0. ca' = ca /\ leaf' = leaf /\ vwc' = vwc /\ caKeys' = caKeys /\ mishaps' \in 0 .. MaxMishaps
    BY <1>0, <1>2, CertAssumption DEF CM!Fails
  <2>1. caKeys \in Nat /\ caKeys <= caKeys
    BY <1>0, CertAssumption
  <2>2. CASE replica' = [replica EXCEPT ![r] = CM!Starting]
    BY <2>0, <2>1, <2>2, StartingFine, OneReplica DEF CertInv
  <2>3. CASE replica[r].pc \in {"readVWC", "patch"} /\ CM!goto(r, "serve")
    <3> DEFINE p == [replica[r] EXCEPT !.pc = "serve", !.saw = 0]
    <3>1. replica' = [replica EXCEPT ![r] = p]
      BY <2>3 DEF CM!goto, CertInv
    <3>2. replica[r] \in ReplicaState /\ ReplicaFacts(replica[r], caKeys, leaf)
      BY DEF CertInv
    <3>3. /\ p \in ReplicaState /\ p.pc = "serve" /\ p.saw = 0 /\ p.steady = replica[r].steady
          /\ p.bundle = replica[r].bundle /\ p.serves = replica[r].serves
      <4>1. 0 \in 0 .. MaxKeys /\ "serve" \in CertPc
        BY CertAssumption DEF CertPc, Up
      <4> QED BY <3>2, <4>1 DEF ReplicaState
    <3> HIDE DEF p
    <3>4. ReplicaFacts(p, caKeys, leaf)
      BY <2>1, <2>3, <3>2, <3>3 DEF ReplicaFacts, Up
    <3> QED
      BY <2>0, <2>1, <3>1, <3>3, <3>4, OneReplica DEF CertInv
  <2>4. CASE CM!again(r)
    BY <2>0, <2>4, BeginsAgain
  <2> QED BY <1>2, <2>2, <2>3, <2>4 DEF CM!Fails
<1>3. CASE CM!Damage
  <2>1. mishaps' \in 0 .. MaxMishaps /\ vwc' = vwc /\ replica' = replica
    BY <1>0, <1>3, CertAssumption DEF CM!Damage
  <2>2. /\ caKeys' \in 0 .. MaxKeys /\ caKeys <= caKeys'
        /\ ca' \in Secret /\ ca'.key <= caKeys' /\ (CM!hasCert(ca') => ca'.key > 0)
    BY <1>0, <1>3, CertAssumption DEF CM!Damage, CM!Absent, CM!secret, CM!hasCert, Secret, CM!Kinds, CertInv
  <2>3. leaf' \in Secret /\ leaf'.key <= caKeys' /\ (Leftover(leaf') => Leftover(leaf))
    BY <1>0, <1>3, <2>2, CertAssumption
       DEF CM!Damage, CM!Absent, CM!secret, CM!hasCert, Secret, CM!Kinds, CertInv, Leftover
  <2>4. vwc.key <= caKeys' /\ \A r \in Replicas : replica[r].saw <= caKeys' /\ replica[r].bundle <= caKeys' /\ replica[r].serves <= caKeys'
    BY <1>0, <2>2 DEF CertInv, Config, ReplicaState, ReplicaFacts
  <2>5. \A r \in Replicas : ReplicaFacts(replica[r], caKeys', leaf')
    BY <2>3, <2>4 DEF CertInv, ReplicaFacts
  <2> QED
    BY <2>1, <2>2, <2>3, <2>4, <2>5 DEF CertInv
<1>4. CASE CM!ChartApplied
  <2>1. vwc' \in Config /\ vwc'.key = vwc.key /\ vwc'.patched = vwc.patched
    BY <1>4 DEF CM!ChartApplied, CertInv, Config
  <2> QED
    BY <1>4, <2>1 DEF CM!ChartApplied, CertInv
<1>5. CASE UNCHANGED certVars
  BY <1>5 DEF certVars, CertInv
<1> QED
  BY <1>1, <1>2, <1>3, <1>4, <1>5 DEF CM!Next

\* With one CA a replica that is up serves what the shared configuration trusts.
LEMMA CertImplies == CertInv => CM!TypeOK /\ CM!ServedIsTrusted
<1> SUFFICES ASSUME CertInv PROVE CM!TypeOK /\ CM!ServedIsTrusted
  OBVIOUS
<1>1. \A r \in Replicas : /\ replica[r].serves \in 0 .. MaxKeys /\ replica[r].steady \in BOOLEAN
                          /\ replica[r].serves <= caKeys /\ (replica[r].steady => replica[r].serves > 0)
  BY DEF CertInv, ReplicaState, ReplicaFacts
<1>2. vwc.key \in 0 .. MaxKeys /\ vwc.key <= caKeys /\ caKeys \in Nat /\ (vwc.patched => vwc.key > 0)
  BY DEF CertInv, Config
<1>3. CM!TypeOK
  BY <1>1 DEF CertInv, CM!TypeOK, Secret, Config
<1>4. CM!ServedIsTrusted
  BY <1>1, <1>2 DEF CM!ServedIsTrusted
<1> QED BY <1>3, <1>4

\* certmanager: as long as no second CA is made, every replica that is up serves a
\* certificate of the CA that the shared webhook configuration trusts, although boots
\* create, delete and patch under each other's feet and may start over leftovers, or
\* else no patch was ever accepted and the configuration holds the bundle found there:
\* for every number of replicas and of mishaps.
THEOREM CertificatesTrusted == CM!Spec => [](CM!TypeOK /\ CM!ServedIsTrusted)
<1>1. [CM!Next]_certVars <=> [CM!Next]_CM!certVars
  BY DEF certVars, CM!certVars
<1> QED
  BY <1>1, CertInit, CertStep, CertImplies, PTL DEF CM!Spec

\* The same of the certificates as MCProgress runs them.
THEOREM CertsPart == PartsSpec => []ServedIsTrusted
<1> DEFINE PartInv == part = "certs" => CertInv
<1>1. PartsInit => PartInv
  BY CertInit DEF PartsInit
<1>2. [PartsNext]_allVars => part' = part /\ (part = "certs" => [CM!Next]_certVars)
  BY DEF PartsNext, allVars, only
<1>3. PartInv /\ [PartsNext]_allVars => PartInv'
  BY <1>2, CertStep
<1>4. PartInv => ServedIsTrusted
  BY CertImplies DEF ServedIsTrusted
<1> QED
  BY <1>1, <1>3, <1>4, PTL DEF PartsSpec
----------------------------------------------------------------------------
(* The types of the parts that MCSafety shows more about (FinishedRuns,    *)
(* RunnerAccess, Exposure), with what they need to be inductive.           *)

\* The run policy at work: what it lists are runs.
Policies ==
  [pc : {"idle", "retention", "excess"}, current : SUBSET Runs, todo : UNION {[S -> Nat] : S \in SUBSET Runs}]

FinishedTyped == FR!TypeOK /\ clock \in 1 .. MaxClock /\ policy \in Policies

\* A list of runs with times can be the policy's.
LEMMA PolicyLists ==
  /\ FR!Idle \in Policies
  /\ \A S \in SUBSET Runs : \A f \in [S -> Nat] : f \in UNION {[R -> Nat] : R \in SUBSET Runs}
  /\ \A p \in Policies : DOMAIN p.todo \subseteq Runs /\ p.current \subseteq Runs /\ p.todo \in [DOMAIN p.todo -> Nat]
<1>1. \A S \in SUBSET Runs : \A f \in [S -> Nat] : f \in UNION {[R -> Nat] : R \in SUBSET Runs}
  OBVIOUS
<1>2. <<>> \in [{} -> Nat] /\ {} \in SUBSET Runs
  OBVIOUS
<1>3. FR!Idle \in Policies
  <2>2. <<>> \in UNION {[R -> Nat] : R \in SUBSET Runs}
    BY <1>1, <1>2
  <2> QED BY <2>2 DEF FR!Idle, Policies
<1>4. \A p \in Policies : DOMAIN p.todo \subseteq Runs /\ p.current \subseteq Runs /\ p.todo \in [DOMAIN p.todo -> Nat]
  <2> TAKE p \in Policies
  <2>1. PICK S \in SUBSET Runs : p.todo \in [S -> Nat]
    BY DEF Policies
  <2> QED BY <2>1 DEF Policies
<1> QED BY <1>1, <1>3, <1>4

\* The runs are new and nothing is listed.
LEMMA FinishedInit == FR!Init => FinishedTyped
<1> SUFFICES ASSUME FR!Init PROVE FinishedTyped
  OBVIOUS
<1>1. clock \in 1 .. MaxClock /\ policy \in Policies
  BY FinishedAssumption, PolicyLists DEF FR!Init
<1>2. wfRun \in [Runs -> FR!Run] /\ wfCache \in [Runs -> FR!Run]
  BY FinishedAssumption DEF FR!Init, FR!Run
<1>3. counted \in [Runs -> Nat] /\ ends \in [Runs -> Nat] /\ queue \subseteq Runs
  BY DEF FR!Init
<1>4. DOMAIN policy.todo \subseteq Runs /\ policy.current \subseteq Runs
  BY <1>1, PolicyLists
<1> QED BY <1>1, <1>2, <1>3, <1>4 DEF FinishedTyped, FR!TypeOK

\* Deleting a run, and what the policy has left to do then.
LEMMA DeletionTyped ==
  ASSUME FinishedTyped, NEW r \in DOMAIN policy.todo, FR!deleteRun(r)
  PROVE  wfRun' \in [Runs -> FR!Run] /\ policy' \in Policies
<1>0. policy \in Policies /\ wfRun \in [Runs -> FR!Run]
  BY DEF FinishedTyped, FR!TypeOK
<1>1. DOMAIN policy.todo \subseteq Runs /\ policy.todo \in [DOMAIN policy.todo -> Nat]
  BY <1>0, PolicyLists
<1>2. wfRun' \in [Runs -> FR!Run]
  BY <1>0, <1>1 DEF FR!deleteRun, FR!Run
<1>3. CASE r \in policy.current
  BY <1>2, <1>3, PolicyLists DEF FR!deleteRun
<1>4. CASE r \notin policy.current
  <2> DEFINE rest == [s \in DOMAIN policy.todo \ {r} |-> policy.todo[s]]
  <2>0. rest \in [DOMAIN policy.todo \ {r} -> Nat] /\ DOMAIN policy.todo \ {r} \in SUBSET Runs
    BY <1>1
  <2>1. rest \in UNION {[R -> Nat] : R \in SUBSET Runs}
    BY <2>0, PolicyLists
  <2>2. policy' = [policy EXCEPT !.todo = rest]
    BY <1>4 DEF FR!deleteRun
  <2> HIDE DEF rest
  <2>3. policy.pc \in {"idle", "retention", "excess"} /\ policy.current \subseteq Runs
        /\ policy = [pc |-> policy.pc, current |-> policy.current, todo |-> policy.todo]
    BY <1>0 DEF Policies
  <2>4. policy' = [pc |-> policy.pc, current |-> policy.current, todo |-> rest]
    BY <2>2, <2>3
  <2>5. policy' \in Policies
    BY <2>1, <2>3, <2>4 DEF Policies
  <2> QED BY <1>2, <2>5
<1> QED BY <1>3, <1>4

\* What the cache lists as completed.
LEMMA ListTyped ==
  ASSUME FinishedTyped, NEW S \in SUBSET FR!completed
  PROVE  FR!listed(S) \in UNION {[R -> Nat] : R \in SUBSET Runs}
<1>1. wfCache \in [Runs -> FR!Run]
  BY DEF FinishedTyped, FR!TypeOK
<1>2. S \subseteq Runs
  BY DEF FR!completed
<1>3. \A r \in Runs : wfCache[r].time \in Nat
  BY <1>1, FinishedAssumption DEF FR!Run
<1> QED BY <1>2, <1>3, PolicyLists DEF FR!listed

\* Every step keeps the types.
LEMMA FinishedStep == FinishedTyped /\ [FR!Next]_finishedVars => FinishedTyped'
<1> SUFFICES ASSUME FinishedTyped, [FR!Next]_finishedVars PROVE FinishedTyped'
  OBVIOUS
<1> USE FinishedAssumption
<1>0. /\ wfRun \in [Runs -> FR!Run] /\ wfCache \in [Runs -> FR!Run] /\ counted \in [Runs -> Nat]
      /\ ends \in [Runs -> Nat] /\ queue \subseteq Runs /\ clock \in 1 .. MaxClock /\ policy \in Policies
      /\ policy.current \subseteq Runs
  BY PolicyLists DEF FinishedTyped, FR!TypeOK
<1> DEFINE Typed(wr, wc, n, e, q, t, p) ==
      /\ wr \in [Runs -> FR!Run] /\ wc \in [Runs -> FR!Run] /\ n \in [Runs -> Nat] /\ e \in [Runs -> Nat]
      /\ q \subseteq Runs /\ t \in 1 .. MaxClock /\ p \in Policies
<1> DEFINE Goal == Typed(wfRun', wfCache', counted', ends', queue', clock', policy')
<1> SUFFICES Goal
  BY PolicyLists DEF FinishedTyped, FR!TypeOK
<1>1. CASE FR!DeleteExpired
  BY <1>0, <1>1, DeletionTyped DEF FR!DeleteExpired
<1>2. CASE FR!Recount
  <2>1. ASSUME NEW S \in FR!tooMany, policy' = [policy EXCEPT !.pc = "excess", !.todo = FR!listed(S)]
        PROVE  policy' \in Policies
    <3>1. S \in SUBSET FR!completed
      BY DEF FR!tooMany
    <3> QED BY <1>0, <2>1, <3>1, ListTyped DEF Policies
  <2>2. policy' \in Policies
    BY <1>2, <2>1, PolicyLists DEF FR!Recount
  <2> QED BY <1>0, <1>2, <2>2 DEF FR!Recount
<1>3. CASE FR!DeleteExcess
  <2>1. CASE DOMAIN policy.todo = {}
    BY <1>0, <1>3, <2>1, PolicyLists DEF FR!DeleteExcess
  <2>2. CASE DOMAIN policy.todo # {}
    BY <1>0, <1>3, <2>2, DeletionTyped DEF FR!DeleteExcess
  <2> QED BY <2>1, <2>2
<1>4. ASSUME NEW r \in Runs, FR!Begin(r) PROVE Goal
  <2>1. FR!expired \in SUBSET FR!completed
    BY DEF FR!expired
  <2>2. policy' \in Policies
    BY <1>0, <1>4, <2>1, ListTyped DEF FR!Begin, Policies
  <2> QED BY <1>0, <1>4, <2>2 DEF FR!Begin
<1>5. CASE FR!DeleteFails
  BY <1>0, <1>5, PolicyLists DEF FR!DeleteFails
<1>6. CASE FR!NewLeader
  BY <1>0, <1>6, PolicyLists DEF FR!NewLeader
<1>7. CASE FR!Deliver
  BY <1>0, <1>7 DEF FR!Deliver, FR!transitions
<1>8. ASSUME NEW r \in Runs, FR!EndRun(r) \/ FR!EndAgain(r) \/ FR!Revive(r) PROVE Goal
  <2>1. clock' \in 1 .. MaxClock
    BY <1>0, <1>8 DEF FR!EndRun, FR!EndAgain, FR!Revive
  <2>2. wfRun' \in [Runs -> FR!Run]
    BY <1>0, <1>8 DEF FR!EndRun, FR!EndAgain, FR!Revive, FR!Run
  <2>3. ends' \in [Runs -> Nat]
    <3>1. ends' = ends \/ ends' = [ends EXCEPT ![r] = ends[r] + 1]
      BY <1>8 DEF FR!EndRun, FR!EndAgain, FR!Revive
    <3> QED BY <1>0, <3>1
  <2> QED BY <1>0, <1>8, <2>1, <2>2, <2>3 DEF FR!EndRun, FR!EndAgain, FR!Revive
<1>9. CASE UNCHANGED finishedVars
  BY <1>0, <1>9 DEF finishedVars
<1> QED BY <1>1, <1>2, <1>3, <1>4, <1>5, <1>6, <1>7, <1>8, <1>9 DEF FR!Next, FR!Reconcile

\* An object at the API server.
Object == [uid : 0 .. MaxUid, says : RA!Managed \cup RA!Unmanaged \cup {"none"}, val : Nat]

AccessTyped == RA!TypeOK /\ caVersion \in Nat /\ caRead \in Nat

\* The invariant, variable by variable.
LEMMA AccessBefore ==
  AccessTyped <=>
    /\ obj \in [RA!Objects -> Object]
    /\ account \in 0 .. MaxUid /\ known \in 0 .. MaxUid /\ uids \in 0 .. MaxUid
    /\ jobMade \in BOOLEAN /\ changes \in 0 .. MaxChanges
    /\ caVersion \in Nat /\ caRead \in Nat
  BY DEF AccessTyped, RA!TypeOK, Object

\* The objects a runner needs, and the one that is not there.
LEMMA ObjectNames ==
  /\ RA!Objects = {"binding", "caller", "writer", "cm"}
  /\ RA!None \in Object /\ RA!None.uid = 0
  BY AccessAssumption DEF RA!Objects, RA!None, Object

\* Objects left by earlier runs are objects.
LEMMA AccessInit == RA!Init => AccessTyped
<1> SUFFICES ASSUME RA!Init PROVE AccessTyped
  OBVIOUS
<1> USE AccessAssumption, ObjectNames
<1>1. /\ obj["binding"] \in {RA!None} \cup [uid : {1}, says : {"wrongRole", "foreign"}, val : {0}]
      /\ obj["caller"] \in {RA!None} \cup [uid : {1}, says : {"wrongRole"}, val : {0}]
      /\ obj["writer"] \in {RA!None} \cup [uid : {1}, says : {"right", "wrongRole"}, val : {1, 2}]
      /\ obj["cm"] \in {RA!None} \cup [uid : {1}, says : {"right"}, val : {0}]
      /\ DOMAIN obj = RA!Objects /\ obj = [o \in RA!Objects |-> obj[o]]
  BY DEF RA!Init
<1>2. \A o \in RA!Objects : obj[o] \in Object
  BY <1>1 DEF Object, RA!Managed, RA!Unmanaged
<1>3. obj \in [RA!Objects -> Object]
  BY <1>1, <1>2
<1>4. /\ account \in 0 .. MaxUid /\ known \in 0 .. MaxUid /\ uids \in 0 .. MaxUid
      /\ changes \in 0 .. MaxChanges /\ caVersion \in Nat /\ caRead \in Nat
  BY DEF RA!Init
<1>5. jobMade \in BOOLEAN
  BY DEF RA!Init
<1> QED BY <1>3, <1>4, <1>5, AccessBefore

\* A call that writes nothing.
LEMMA LeaveTyped == ASSUME AccessTyped, NEW p, RA!leave(p) PROVE AccessTyped'
  BY DEF AccessTyped, RA!TypeOK, RA!leave, RA!goto

\* A call that writes an object.
LEMMA WriteTyped ==
  ASSUME AccessTyped, NEW o \in RA!Objects, NEW new \in Object, NEW p, RA!write(o, new, p)
  PROVE  AccessTyped'
<1>1. obj' \in [RA!Objects -> Object]
  BY AccessBefore DEF RA!write
<1>2. uids' \in 0 .. MaxUid
  BY AccessBefore, AccessAssumption DEF RA!write, Object
<1> QED
  BY <1>1, <1>2 DEF AccessTyped, RA!TypeOK, RA!write, RA!goto, Object

\* The three calls: create, delete as seen and update as seen.
LEMMA CreateTyped ==
  ASSUME AccessTyped, NEW o \in RA!Objects, NEW v \in Nat, NEW p, NEW q, RA!create(o, v, p, q)
  PROVE  AccessTyped'
<1>1. CASE RA!leave(q)
  BY <1>1, LeaveTyped
<1>2. CASE uids < MaxUid /\ RA!write(o, RA!ours(v), p)
  <2>1. RA!ours(v) \in Object
    BY <1>2, AccessBefore, AccessAssumption DEF RA!ours, Object, RA!Managed
  <2> QED BY <1>2, <2>1, WriteTyped
<1> QED BY <1>1, <1>2 DEF RA!create

LEMMA DeleteTyped ==
  ASSUME AccessTyped, NEW o \in RA!Objects, NEW p, RA!deleteSeen(o, p) PROVE AccessTyped'
  BY LeaveTyped, WriteTyped, ObjectNames DEF RA!deleteSeen

LEMMA UpdateTyped ==
  ASSUME AccessTyped, NEW o \in RA!Objects, NEW p, RA!updateSeen(o, p) PROVE AccessTyped'
<1>1. [obj[o] EXCEPT !.says = "right"] \in Object
  BY AccessBefore DEF Object, RA!Managed
<1> QED BY <1>1, LeaveTyped, WriteTyped DEF RA!updateSeen

\* Every step keeps the types.
LEMMA AccessStep == AccessTyped /\ (RA!Next \/ UNCHANGED accessVars) => AccessTyped'
<1> SUFFICES ASSUME AccessTyped, RA!Next \/ UNCHANGED accessVars PROVE AccessTyped'
  OBVIOUS
<1> USE AccessAssumption
<1>0. /\ obj \in [RA!Objects -> Object]
      /\ account \in 0 .. MaxUid /\ known \in 0 .. MaxUid /\ uids \in 0 .. MaxUid
      /\ jobMade \in BOOLEAN /\ changes \in 0 .. MaxChanges
      /\ caVersion \in Nat /\ caRead \in Nat
  BY AccessBefore
<1>n. "binding" \in RA!Objects /\ "caller" \in RA!Objects /\ "writer" \in RA!Objects /\ "cm" \in RA!Objects
      /\ 0 \in Nat
  BY ObjectNames
<1>1. CASE RA!Build \/ RA!EnsureSecrets
  BY <1>1, LeaveTyped DEF RA!Build, RA!EnsureSecrets
<1>2. CASE RA!EnsureAccount
  <2>1. account' \in 0 .. MaxUid /\ known' \in 0 .. MaxUid /\ uids' \in 0 .. MaxUid /\ changes' \in 0 .. MaxChanges
    BY <1>0, <1>2 DEF RA!EnsureAccount
  <2> QED BY <1>0, <1>2, <2>1, AccessBefore DEF RA!EnsureAccount, AccessTyped, RA!TypeOK, Object
<1>3. CASE RA!EnsureBinding
  BY <1>3, <1>n, LeaveTyped, CreateTyped, DeleteTyped, UpdateTyped DEF RA!EnsureBinding
<1>4. CASE RA!Rebind \/ RA!Recall
  BY <1>4, <1>n, CreateTyped DEF RA!Rebind, RA!Recall
<1>5. CASE RA!EnsureCaller
  BY <1>5, <1>n, LeaveTyped, CreateTyped, DeleteTyped, UpdateTyped DEF RA!EnsureCaller
<1>6. CASE RA!EnsureWriter
  BY <1>6, <1>n, LeaveTyped, DeleteTyped, UpdateTyped DEF RA!EnsureWriter
<1>7. CASE RA!CreateWriter
  <2>1. account \in Nat /\ known \in Nat
    BY <1>0
  <2> QED BY <1>7, <1>n, <2>1, LeaveTyped, CreateTyped DEF RA!CreateWriter
<1>8. CASE RA!ReadCA
  BY <1>0, <1>8 DEF RA!ReadCA, RA!goto, AccessTyped, RA!TypeOK
<1>9. CASE RA!PublishCA
  <2>1. [obj["cm"] EXCEPT !.val = caRead] \in Object
    BY <1>0, <1>n DEF Object
  <2> QED BY <1>0, <1>9, <1>n, <2>1, LeaveTyped, CreateTyped, WriteTyped DEF RA!PublishCA
<1>10. CASE RA!CreateJob
  BY <1>10 DEF RA!CreateJob, AccessTyped, RA!TypeOK
<1>11. CASE RA!Watch
  BY <1>11 DEF RA!Watch, AccessTyped, RA!TypeOK
<1>12. CASE RA!Interrupted
  BY <1>0, <1>12 DEF RA!Interrupted, AccessTyped, RA!TypeOK
<1>13. CASE RA!ReplaceAccount
  BY <1>0, <1>13 DEF RA!ReplaceAccount, AccessTyped, RA!TypeOK
<1>14. CASE RA!RotateCA
  BY <1>0, <1>14 DEF RA!RotateCA, AccessTyped, RA!TypeOK
<1>15. CASE RA!CollectGarbage
  <2>1. obj' \in [RA!Objects -> Object]
    BY <1>0, <1>15, <1>n, ObjectNames DEF RA!CollectGarbage
  <2> QED BY <1>15, <2>1 DEF RA!CollectGarbage, AccessTyped, RA!TypeOK, Object
<1>16. ASSUME NEW k \in RA!Informers, RA!Sync(k) PROVE AccessTyped'
  BY <1>16 DEF RA!Sync, AccessTyped, RA!TypeOK
<1>17. ASSUME NEW o \in RA!Objects, RA!Outsider(o) PROVE AccessTyped'
  <2>1. PICK new \in {RA!None, [uid |-> uids + 1, says |-> "foreign", val |-> 0]}
                     \cup (IF obj[o].says \in RA!Managed THEN {[obj[o] EXCEPT !.says = how] : how \in {"wrongSubject", "unlabelled"}} ELSE {}) :
          obj' = [obj EXCEPT ![o] = new] /\ uids' = IF new.uid > uids THEN new.uid ELSE uids
    BY <1>17 DEF RA!Outsider
  <2>2. [uid |-> uids + 1, says |-> "foreign", val |-> 0] \in Object
    BY <1>0, <1>17 DEF RA!Outsider, Object, RA!Unmanaged
  <2>3. \A how \in {"wrongSubject", "unlabelled"} : [obj[o] EXCEPT !.says = how] \in Object
    BY <1>0 DEF Object, RA!Managed, RA!Unmanaged
  <2>4. new \in Object
    BY <2>1, <2>2, <2>3, ObjectNames
  <2>5. obj' \in [RA!Objects -> Object] /\ uids' \in 0 .. MaxUid
    BY <1>0, <2>1, <2>4 DEF Object
  <2>6. changes' \in 0 .. MaxChanges
    BY <1>0, <1>17 DEF RA!Outsider
  <2> QED BY <1>0, <1>17, <2>5, <2>6 DEF RA!Outsider, AccessTyped, RA!TypeOK, Object
<1>18. CASE UNCHANGED accessVars
  BY <1>18 DEF accessVars, AccessTyped, RA!TypeOK
<1> QED
  BY <1>1, <1>2, <1>3, <1>4, <1>5, <1>6, <1>7, <1>8, <1>9, <1>10, <1>11, <1>12, <1>13, <1>14, <1>15, <1>16,
     <1>17, <1>18 DEF RA!Next, RA!Reconcile

\* A Workflow and a RoleBinding, in the cluster or in the cache.
WorkflowState ==
  [uid : 0 .. (MaxOwnerEdits + 1), expose : EX!Exposes, deleting : BOOLEAN, finalizer : BOOLEAN, rv : Nat]
BindingState == [kind : EX!Kinds, version : Nat]
CopyState == [uid : 0 .. (MaxOwnerEdits + 1), rv : Nat]

\* Types of what the reconcile holds, of what it reads and writes, and of the counters.
WorkTyped ==
  /\ copy \in CopyState /\ existing \in Nat
  /\ expAt \in {"idle", "deleteAgent", "unfinalize", "finalize", "account", "binding",
                "rebind", "recreate", "agent", "prune"}
WorldTyped ==
  /\ wf \in WorkflowState /\ wfSeen \in WorkflowState
  /\ agentNow \in EX!Owners /\ agentOld \in EX!Owners
  /\ binding \in BindingState /\ bindingSeen \in BindingState
SwitchesTyped ==
  saMade \in BOOLEAN /\ crd \in BOOLEAN /\ queued \in BOOLEAN /\ serveImage \in BOOLEAN
CountersTyped ==
  edits \in 0 .. MaxOwnerEdits /\ others \in 0 .. MaxOthers /\ failures \in 0 .. MaxFaults

ExposureTyped == WorkTyped /\ WorldTyped /\ SwitchesTyped /\ CountersTyped

\* These are the component's types.
LEMMA ExposureImplies == ExposureTyped => EX!TypeOK
<1>1. \A w \in WorkflowState :
        /\ w.uid \in 0 .. (MaxOwnerEdits + 1) /\ w.rv \in Nat
        /\ w.expose \in EX!Exposes /\ {w.deleting, w.finalizer} \subseteq BOOLEAN
  BY DEF WorkflowState
<1>2. \A b \in BindingState : b.kind \in EX!Kinds /\ b.version \in Nat
  BY DEF BindingState
<1>3. copy \in CopyState => copy.uid \in 0 .. (MaxOwnerEdits + 1) /\ copy.rv \in Nat
  BY DEF CopyState
<1> QED
  BY <1>1, <1>2, <1>3 DEF ExposureTyped, WorkTyped, WorldTyped, SwitchesTyped, CountersTyped, EX!TypeOK

\* The Workflow is new.
LEMMA ExposureInit == EX!Init => ExposureTyped
<1> SUFFICES ASSUME EX!Init PROVE ExposureTyped
  OBVIOUS
<1> USE ExposureAssumption
<1>1. PICK e \in EX!Exposes : wf = [EX!None EXCEPT !.uid = 1, !.expose = e, !.rv = 1]
  BY DEF EX!Init
<1>2. wf \in WorkflowState /\ wfSeen \in WorkflowState
  <2>1. EX!None \in WorkflowState /\ 1 \in 0 .. (MaxOwnerEdits + 1) /\ 1 \in Nat
    BY DEF EX!None, WorkflowState, EX!Exposes
  <2>2. wf \in WorkflowState
    BY <1>1, <2>1 DEF WorkflowState
  <2> QED BY <2>2 DEF EX!Init
<1>3. binding \in BindingState /\ bindingSeen \in BindingState
  BY DEF EX!Init, BindingState
<1>4. agentNow \in EX!Owners /\ agentOld \in EX!Owners
  BY DEF EX!Init, EX!Owners, EX!Absent, EX!Foreign
<1>5. WorldTyped
  BY <1>2, <1>3, <1>4 DEF WorldTyped
<1>6. SwitchesTyped
  BY DEF EX!Init, SwitchesTyped
<1>7. WorkTyped /\ CountersTyped
  BY DEF EX!Init, EX!noCopy, CopyState, WorkTyped, CountersTyped
<1> QED BY <1>5, <1>6, <1>7 DEF ExposureTyped

\* Where a reconcile goes, with the copy it works on.
LEMMA ReconcileMoves ==
  ASSUME ExposureTyped, EX!Worker \/ EX!CallFails \/ EX!Redeploy PROVE WorkTyped' /\ queued' \in BOOLEAN
<1> USE ExposureAssumption
<1> DEFINE Goal == WorkTyped' /\ queued' \in BOOLEAN
<1>0. wfSeen \in WorkflowState /\ WorkTyped /\ bindingSeen.version \in Nat
  BY DEF ExposureTyped, WorldTyped, BindingState
<1>b. queued \in BOOLEAN
  BY DEF ExposureTyped, SwitchesTyped
<1>1. ASSUME NEW again \in BOOLEAN, EX!done(again) PROVE Goal
  <2>1. queued' \in BOOLEAN
    BY <1>b, <1>1 DEF EX!done
  <2>2. WorkTyped'
    BY <1>1 DEF EX!done, EX!noCopy, CopyState, WorkTyped
  <2> QED BY <2>1, <2>2
<1>2. ASSUME NEW next \in {"unfinalize", "account", "binding", "recreate", "agent", "prune"}, EX!then(next)
      PROVE  Goal
  <2>1. queued' \in BOOLEAN
    BY <1>b, <1>2 DEF EX!then
  <2>2. WorkTyped'
    BY <1>0, <1>2 DEF EX!then, WorkTyped
  <2> QED BY <2>1, <2>2
<1> SUFFICES Goal
  OBVIOUS
<1>3. CASE EX!Reconcile
  <2>1. expAt' \in {"idle", "account", "finalize", "deleteAgent"}
    BY <1>3 DEF EX!Reconcile
  <2>2. queued' \in BOOLEAN
    BY <1>3 DEF EX!Reconcile
  <2>3. EX!noCopy \in CopyState /\ [uid |-> wfSeen.uid, rv |-> wfSeen.rv] \in CopyState
    BY <1>0 DEF EX!noCopy, CopyState, WorkflowState
  <2>4. copy' \in CopyState /\ existing' = existing
    BY <1>3, <2>3 DEF EX!Reconcile
  <2>5. WorkTyped'
    BY <1>0, <2>1, <2>4 DEF WorkTyped
  <2> QED BY <2>2, <2>5
<1>4. CASE expAt' = "rebind" /\ existing' = bindingSeen.version /\ UNCHANGED <<copy, queued>>
  <2>1. WorkTyped'
    BY <1>0, <1>4 DEF WorkTyped
  <2> QED BY <1>b, <1>4, <2>1
<1> HIDE DEF Goal
<1>5. CASE EX!Unfinalize \/ EX!Finalize
  BY <1>1, <1>2, <1>5 DEF EX!Unfinalize, EX!Finalize
<1>6. CASE EX!reconcileRoleBinding
  BY <1>1, <1>2, <1>4, <1>6 DEF EX!reconcileRoleBinding
<1>7. CASE EX!Rebind \/ EX!Recreate
  BY <1>1, <1>2, <1>7 DEF EX!Rebind, EX!Recreate
<1>8. CASE EX!deleteAgent \/ EX!EnsureAccount \/ EX!upsertAgent \/ EX!pruneStaleAgents \/ EX!CallFails \/ EX!Redeploy
  BY <1>1, <1>2, <1>8 DEF EX!deleteAgent, EX!EnsureAccount, EX!upsertAgent, EX!pruneStaleAgents, EX!CallFails,
     EX!Redeploy
<1> QED BY <1>3, <1>5, <1>6, <1>7, <1>8 DEF EX!Worker

\* The Workflow at the API server, which the reconcile and its owner write.
LEMMA WorkflowTyped ==
  ASSUME ExposureTyped, EX!Unfinalize \/ EX!Finalize \/ EX!Owner PROVE wf' \in WorkflowState
<1> USE ExposureAssumption
<1>0. wf \in WorkflowState /\ wf.rv + 1 \in Nat /\ EX!None \in WorkflowState /\ edits \in 0 .. MaxOwnerEdits
  BY DEF ExposureTyped, WorldTyped, CountersTyped, WorkflowState, EX!None, EX!Exposes
<1>1. [EX!None EXCEPT !.rv = wf.rv + 1] \in WorkflowState
  BY <1>0 DEF WorkflowState
<1>2. \A fin \in BOOLEAN : [wf EXCEPT !.finalizer = fin, !.rv = @ + 1] \in WorkflowState
  BY <1>0 DEF WorkflowState
<1>3. \A e \in EX!Exposes : [wf EXCEPT !.expose = e, !.rv = @ + 1] \in WorkflowState
  BY <1>0 DEF WorkflowState
<1>4. [wf EXCEPT !.deleting = TRUE, !.rv = @ + 1] \in WorkflowState
  BY <1>0 DEF WorkflowState
<1>5. ASSUME edits < MaxOwnerEdits
      PROVE  \A e \in EX!Exposes :
               [EX!None EXCEPT !.uid = edits + 2, !.expose = e, !.rv = wf.rv + 1] \in WorkflowState
  <2>1. edits + 2 \in 0 .. (MaxOwnerEdits + 1)
    BY <1>0, <1>5
  <2> QED BY <1>0, <2>1 DEF WorkflowState
<1>6. CASE EX!Unfinalize \/ EX!Finalize
  BY <1>0, <1>1, <1>2, <1>6 DEF EX!Unfinalize, EX!Finalize, EX!update
<1>7. CASE EX!Owner
  BY <1>1, <1>3, <1>4, <1>5, <1>7 DEF EX!Owner
<1> QED BY <1>6, <1>7

\* Every step keeps the types.
LEMMA ExposureStep == ExposureTyped /\ [EX!Next]_exposureVars => ExposureTyped'
<1> SUFFICES ASSUME ExposureTyped, [EX!Next]_exposureVars PROVE ExposureTyped'
  OBVIOUS
<1> USE ExposureAssumption
<1>0. WorkTyped /\ WorldTyped /\ SwitchesTyped /\ CountersTyped
  BY DEF ExposureTyped
<1>1. wf' \in WorkflowState /\ wfSeen' \in WorkflowState
  <2>1. CASE EX!Unfinalize \/ EX!Finalize \/ EX!Owner
    BY <1>0, <2>1, WorkflowTyped DEF EX!Unfinalize, EX!Finalize, EX!Owner, WorldTyped
  <2>2. CASE ~(EX!Unfinalize \/ EX!Finalize \/ EX!Owner)
    <3>1. wf' = wf /\ (wfSeen' = wfSeen \/ wfSeen' = wf)
      BY <2>2 DEF EX!Next, EX!Worker, EX!Reconcile, EX!deleteAgent, EX!EnsureAccount, EX!reconcileRoleBinding,
         EX!Rebind, EX!Recreate, EX!upsertAgent, EX!pruneStaleAgents, EX!CallFails, EX!Redeploy, EX!CacheSyncs,
         EX!Others, EX!world, exposureVars
    <3> QED BY <1>0, <3>1 DEF WorldTyped
  <2> QED BY <2>1, <2>2
<1>2. WorkTyped' /\ queued' \in BOOLEAN
  <2>1. CASE EX!Worker \/ EX!CallFails \/ EX!Redeploy
    BY <2>1, ReconcileMoves
  <2>2. CASE ~(EX!Worker \/ EX!CallFails \/ EX!Redeploy)
    <3>1. copy' = copy /\ existing' = existing /\ expAt' = expAt
      BY <2>2 DEF EX!Next, EX!CacheSyncs, EX!Owner, EX!Others, exposureVars
    <3>2. queued' = queued \/ queued' = (queued \/ wfSeen # wf)
      BY <2>2 DEF EX!Next, EX!CacheSyncs, EX!Owner, EX!Others, exposureVars
    <3>3. queued' \in BOOLEAN
      BY <1>0, <3>2 DEF SwitchesTyped
    <3>4. WorkTyped'
      BY <1>0, <3>1 DEF WorkTyped
    <3> QED BY <3>3, <3>4
  <2> QED BY <2>1, <2>2
<1>3. agentNow' \in EX!Owners /\ agentOld' \in EX!Owners
  <2>1. /\ agentNow' \in {agentNow, EX!Absent, EX!Foreign, copy.uid}
        /\ agentOld' \in {agentOld, EX!Absent}
    BY DEF EX!Next, EX!Worker, EX!Reconcile, EX!deleteAgent, EX!Unfinalize, EX!Finalize, EX!EnsureAccount,
       EX!reconcileRoleBinding, EX!Rebind, EX!Recreate, EX!upsertAgent, EX!pruneStaleAgents, EX!CallFails,
       EX!Redeploy, EX!CacheSyncs, EX!Owner, EX!Others, EX!world, exposureVars
  <2>2. {agentNow, agentOld, EX!Absent, EX!Foreign, copy.uid} \subseteq EX!Owners
    BY <1>0 DEF WorldTyped, WorkTyped, EX!Owners, EX!Absent, EX!Foreign, CopyState
  <2> QED BY <2>1, <2>2
<1>4. binding' \in BindingState /\ bindingSeen' \in BindingState
  <2>1. /\ binding' = binding \/ EX!bind("right") \/ EX!bind("absent")
        /\ bindingSeen' \in {binding, bindingSeen}
    <3>1. CASE EX!reconcileRoleBinding
      BY <3>1 DEF EX!reconcileRoleBinding
    <3>2. CASE EX!Rebind \/ EX!Recreate \/ EX!Others
      BY <3>2 DEF EX!Rebind, EX!Recreate, EX!Others
    <3>3. CASE EX!Reconcile \/ EX!CallFails \/ EX!Redeploy \/ UNCHANGED exposureVars
      BY <3>3 DEF EX!Reconcile, EX!CallFails, EX!Redeploy, EX!world, exposureVars
    <3>4. CASE EX!deleteAgent \/ EX!Unfinalize \/ EX!Finalize \/ EX!EnsureAccount \/ EX!upsertAgent
               \/ EX!pruneStaleAgents \/ EX!CacheSyncs \/ EX!Owner
      BY <3>4 DEF EX!deleteAgent, EX!Unfinalize, EX!Finalize, EX!EnsureAccount, EX!upsertAgent,
         EX!pruneStaleAgents, EX!CacheSyncs, EX!Owner
    <3> QED BY <3>1, <3>2, <3>3, <3>4 DEF EX!Next, EX!Worker
  <2> QED BY <1>0, <2>1 DEF WorldTyped, EX!bind, BindingState, EX!Kinds
<1>5. saMade' \in BOOLEAN /\ crd' \in BOOLEAN
  <2>1. saMade' \in {saMade, TRUE} /\ crd' \in {crd, TRUE}
    BY DEF EX!Next, EX!Worker, EX!Reconcile, EX!deleteAgent, EX!Unfinalize, EX!Finalize, EX!EnsureAccount,
       EX!reconcileRoleBinding, EX!Rebind, EX!Recreate, EX!upsertAgent, EX!pruneStaleAgents, EX!CallFails,
       EX!Redeploy, EX!CacheSyncs, EX!Owner, EX!Others, EX!world, exposureVars
  <2> QED BY <1>0, <2>1 DEF SwitchesTyped
<1>5a. serveImage' \in BOOLEAN
  <2>1. serveImage' \in {serveImage, ~serveImage}
    BY DEF EX!Next, EX!Worker, EX!Reconcile, EX!deleteAgent, EX!Unfinalize, EX!Finalize, EX!EnsureAccount,
       EX!reconcileRoleBinding, EX!Rebind, EX!Recreate, EX!upsertAgent, EX!pruneStaleAgents, EX!CallFails,
       EX!Redeploy, EX!CacheSyncs, EX!Owner, EX!Others, EX!outside, exposureVars
  <2> QED BY <1>0, <2>1 DEF SwitchesTyped
<1>6. CountersTyped'
  <2>1. EX!Worker \/ EX!CacheSyncs => UNCHANGED <<edits, others, failures>>
    BY DEF EX!Worker, EX!Reconcile, EX!deleteAgent, EX!Unfinalize, EX!Finalize, EX!EnsureAccount,
       EX!reconcileRoleBinding, EX!Rebind, EX!Recreate, EX!upsertAgent, EX!pruneStaleAgents, EX!CacheSyncs,
       EX!outside
  <2>2. CASE UNCHANGED <<edits, others, failures>>
    BY <1>0, <2>2 DEF CountersTyped
  <2>3. CASE EX!CallFails
    BY <1>0, <2>3 DEF EX!CallFails, CountersTyped
  <2>4. CASE EX!Owner
    <3>1. edits < MaxOwnerEdits /\ edits' = edits + 1 /\ UNCHANGED <<others, failures>>
      BY <2>4 DEF EX!Owner
    <3> QED BY <1>0, <3>1 DEF CountersTyped
  <2>5. CASE EX!Others
    BY <1>0, <2>5 DEF EX!Others, CountersTyped
  <2>6. CASE EX!Redeploy
    BY <1>0, <2>6 DEF EX!Redeploy, CountersTyped
  <2> QED BY <2>1, <2>2, <2>3, <2>4, <2>5, <2>6 DEF EX!Next, exposureVars
<1>7. WorldTyped'
  BY <1>1, <1>3, <1>4 DEF WorldTyped
<1>8. SwitchesTyped'
  BY <1>2, <1>5, <1>5a DEF SwitchesTyped
<1> QED BY <1>2, <1>6, <1>7, <1>8 DEF ExposureTyped

----------------------------------------------------------------------------
(* The parts of MCProgress together.                                       *)

\* The part at work has its invariant; the step loop has it even while at rest.
PartsInv ==
  /\ part \in Parts
  /\ Inv
  /\ part = "forEach" => ForEachInv
  /\ part = "agent" => AgentInv
  /\ part = "servers" => ServersInv
  /\ part = "triggers" => RegistryInv
  /\ part = "finished" => FinishedTyped
  /\ part = "access" => AccessTyped
  /\ part = "exposure" => ExposureTyped
  /\ part = "certs" => CertInv

\* Every part begins with its invariant.
LEMMA PartsStart == PartsInit => Init /\ PartsInv
<1>1. PartsInit => Init
  BY DEF PartsInit, StepsAtRest
<1> QED
  BY <1>1, InitInv, ForEachInit, AgentInit, ServersInit, RegistryInit, FinishedInit, AccessInit, ExposureInit,
     CertInit DEF PartsInit, PartsInv

\* A step is one of the part at work, and leaves the step loop alone otherwise.
LEMMA PartMoves ==
  ASSUME [PartsNext]_allVars
  PROVE  /\ part' = part /\ [Next]_vars
         /\ part = "forEach" => [FE!Next]_forEachVars
         /\ part = "agent" => [AC!Next]_agentVars
         /\ part = "servers" => [RS!Next]_serversVars
         /\ part = "triggers" => [TR!Next]_triggersVars
         /\ part = "finished" => [FR!Next]_finishedVars
         /\ part = "access" => RA!Next \/ UNCHANGED accessVars
         /\ part = "exposure" => [EX!Next]_exposureVars
         /\ part = "certs" => [CM!Next]_certVars
  BY DEF PartsNext, only, allVars

\* And keeps its invariant.
LEMMA PartsStep == PartsInv /\ [PartsNext]_allVars => PartsInv'
<1> SUFFICES ASSUME PartsInv, [PartsNext]_allVars PROVE PartsInv'
  OBVIOUS
<1>1. part' = part /\ Inv'
  BY PartMoves, StepInv DEF PartsInv
<1>2. /\ part = "forEach" => ForEachInv'
      /\ part = "agent" => AgentInv'
      /\ part = "servers" => ServersInv'
      /\ part = "triggers" => RegistryInv'
  BY PartMoves, ForEachStep, AgentStep, ServersStep, RegistryStep DEF PartsInv
<1>3. /\ part = "finished" => FinishedTyped'
      /\ part = "access" => AccessTyped'
      /\ part = "exposure" => ExposureTyped'
      /\ part = "certs" => CertInv'
  BY PartMoves, FinishedStep, AccessStep, ExposureStep, CertStep DEF PartsInv
<1> QED BY <1>1, <1>2, <1>3 DEF PartsInv

\* The invariants have the types.
LEMMA PartsTypes == PartsInv => PartsTypeOK
<1> SUFFICES ASSUME PartsInv PROVE PartsTypeOK
  OBVIOUS
<1>1. /\ Inv => TypeOK
      /\ ForEachInv => FE!TypeOK
      /\ AgentInv => AC!TypeOK
      /\ ServersInv => RS!TypeOK
      /\ RegistryInv => TR!TypeOK
      /\ FinishedTyped => FR!TypeOK
      /\ AccessTyped => RA!TypeOK
  BY DEF Inv, ForEachInv, AgentInv, ServersInv, RegistryInv, FinishedTyped, AccessTyped
<1> QED BY <1>1, CertImplies, ExposureImplies DEF PartsInv, PartsTypeOK, Parts

\* The parts that MCProgress runs keep their types and limits: the iterations of the
\* step loop, the attempts of an agent call to execHTTPMaxRetries, the entries of the
\* trigger registry, and the places of every reconcile.
THEOREM ProgressPartsTyped == PartsSpec => []PartsTypeOK
  BY PartsStart, PartsStep, PartsTypes, PTL DEF PartsSpec

\* What the step loop promises it promises among the other parts too: ExecuteWorkflow
\* returns nil only for a run that has succeeded, and does what WorkflowPromise says.
THEOREM StepsPart == PartsSpec => []NilMeansSucceeded /\ KeepsPromise
<1>1. PartsInit => Init
  BY PartsStart
<1>2. [PartsNext]_allVars => [Next]_vars
  BY PartMoves
<1>3. Inv => NilMeansSucceeded
  BY DEF Inv
<1> QED
  BY <1>1, <1>2, <1>3, InitInv, StepInv, InitRefines, StepRefines, PTL
     DEF PartsSpec, KeepsPromise, Promise!Spec
============================================================================
