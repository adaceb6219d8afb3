--------------------------- MODULE AdmissionCases ---------------------------
(* Workflows for checking Admission, with the steps a, b and c: every shape of *)
(* dependencies and reads, references to other objects, pairs of actions, and  *)
(* fields that are missing or wrong.                                           *)
EXTENDS Naturals, FiniteSets

StepNames == {"a", "b", "c"}
all(x) == [s \in StepNames |-> x]
upTo(n, S) == {A \in SUBSET S : Cardinality(A) <= n}
ActionNames ==
  {"forEach", "stepTemplateRef", "workflowRef", "agentRef", "mcpToolCall", "externalAgentRef",
   "resourceQuery", "prometheusQuery", "mutate", "openReport", "waitForCallback"}
NoRef == [kind |-> "", name |-> "", ns |-> ""]
https ==
  [url |-> TRUE, scheme |-> "https", insecureOK |-> FALSE, secret |-> FALSE, clusterLocal |-> FALSE, protocol |-> "a2a"]

Simple ==
  [deps |-> all({}), reads |-> all({}), place |-> all("step"), writes |-> all({}),
   variables |-> {"w"}, inputs |-> {"i"}, acts |-> all({}), innerActs |-> all({}),
   templateActs |-> {"agentRef"}, remote |-> https, complete |-> TRUE, ns |-> "n", runNs |-> "n",
   ownReads |-> {},
   ref |-> all(NoRef), order |-> [a |-> 1, b |-> 2, c |-> 3],
   exist |-> {}, triggersChanged |-> FALSE, inScope |-> FALSE,
   webhooksOK |-> TRUE]

mention(root, name, form, stem) == [root |-> root, name |-> name, form |-> form, stem |-> stem]
dot(root, name) == mention(root, name, "dot", name)

Mentions ==
  {dot("steps", "a"), mention("steps", "a", "index", "a"), dot("steps", "z"),
   dot("variables", "v"), dot("variables", "w"), mention("variables", "v", "index", "v"),
   mention("variables", "v-x", "literal", "v"), mention("variables", "w_x", "dot", "w"),
   dot("inputs", "i"), dot("inputs", "j")}

\* What step c may read: one thing, or a variable and something beside it.
SomeReads ==
  upTo(1, Mentions) \cup
  {{dot("variables", "v"), m} : m \in {dot("steps", "a"), mention("variables", "v", "index", "v"),
                                      mention("variables", "v-x", "literal", "v")}}

Orders ==
  {[Simple EXCEPT !.deps = [a |-> da, b |-> db, c |-> dc], !.reads["c"] = reads, !.place["c"] = place,
      !.acts["c"] = IF place = "step" THEN {} ELSE {"forEach"},
      !.writes = [a |-> wa, b |-> {}, c |-> wc]] :
    da \in SUBSET {"b"}, db \in SUBSET {"a", "c"}, dc \in (SUBSET {"a", "b"}) \cup {{"z"}},
    reads \in SomeReads, place \in {"step", "inner"}, wa \in SUBSET {"v"}, wc \in SUBSET {"v"}}

Refs ==
  {[Simple EXCEPT !.ref = [a |-> x, b |-> y, c |-> NoRef], !.place["c"] = "template", !.exist = exist,
      !.runNs = runNs,
      !.acts = [a |-> {"workflowRef"}, b |-> {"agentRef"}, c |-> c],
      !.templateActs = {"agentRef", "mcpToolCall"}] :
    x \in [kind : {"workflow"}, name : {"x"}, ns : {"", "m"}],
    y \in [kind : {"agent"}, name : {"x", "y"}, ns : {"", "m"}],
    exist \in SUBSET ({"workflow", "agent"} \X {"x"} \X {"n", "m"}),
    c \in {{"forEach"}, {"stepTemplateRef"}}, runNs \in {"n", "m"}}
  \cup {[Simple EXCEPT !.ref = [a |-> x, b |-> y, c |-> NoRef], !.exist = exist,
           !.acts = [a |-> {"workflowRef"}, b |-> {"workflowRef"}, c |-> {}]] :
         x \in [kind : {"workflow"}, name : {"x"}, ns : {"", "m"}],
         y \in [kind : {"workflow"}, name : {"x"}, ns : {"", "m"}],
         exist \in SUBSET ({"workflow"} \X {"x"} \X {"n", "m"})}

Actions ==
  {[Simple EXCEPT !.acts["a"] = A, !.innerActs["a"] = inner] :
    A \in upTo(2, ActionNames),
    inner \in upTo(2, {"resourceQuery", "agentRef", "externalAgentRef", "openReport"})}

Fields ==
  {[Simple EXCEPT !.acts["a"] = A, !.remote = remote, !.complete = f[1], !.triggersChanged = f[2],
      !.inScope = f[3], !.webhooksOK = f[4], !.ownReads = own] :
    own \in {{}, {dot("inputs", "j")}}, A \in {{"externalAgentRef"}, {"openReport"}, {"waitForCallback"}}, f \in [1 .. 4 -> BOOLEAN],
    remote \in {https, [https EXCEPT !.protocol = "acp"], [https EXCEPT !.scheme = "http"],
                [https EXCEPT !.protocol = "acp", !.url = FALSE]}}

All == Orders \cup Refs \cup Actions \cup Fields
============================================================================
