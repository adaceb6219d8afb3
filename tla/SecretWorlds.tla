---------------------------- MODULE SecretWorlds ----------------------------
(* Clusters for checking SecretWalk: chains of Workflows that refer to each  *)
(* other across two namespaces, and the kinds of servers and Job settings.   *)
EXTENDS TLC

CONSTANT RunNs

Ns == {RunNs, "other"}

plain == [kind |-> "plain"]
body(kind, ns) == [kind |-> kind, ns |-> ns]
subWorkflow(name, ns) == [kind |-> "workflow", name |-> name, ns |-> ns]

step(via, ns, mayNotRun, what) == [via |-> via, ns |-> ns, mayNotRun |-> mayNotRun, body |-> what]
direct(what) == step("direct", "", FALSE, what)

Leaves ==
  {direct(body("external", "")), direct(body("mcp", "")), direct(body("agent", "")),
   direct(body("agent", "other"))}
Refs == {direct(subWorkflow("B", "")), direct(subWorkflow("B", "other")), direct(subWorkflow("A", ""))}
TemplateSteps ==
  {step("template", "", FALSE, plain), step("template", "other", TRUE, plain),
   step("forEachTemplate", "other", FALSE, plain)}
OtherSteps ==
  {step("forEach", "", FALSE, body("agent", "")),
   step("forEach", "", FALSE, subWorkflow("B", "other")), direct(body("external", "other")),
   step("direct", "", TRUE, body("agent", "")), step("direct", "", TRUE, subWorkflow("B", ""))}

Simple ==
  [rootNs |-> RunNs, job |-> "plain", kubeconfig |-> {}, allowed |-> {"other"}, denied |-> FALSE, missing |-> {},
   server |-> [n \in Ns |-> [transport |-> "stdio", env |-> "mandatory", auth |-> "none", ns |-> ""]],
   provider |-> [n \in Ns |-> "nirmata"], template |-> [n \in Ns |-> plain],
   steps |-> [k \in {"A", "B"} \X Ns |-> <<direct(plain)>>]]

Chains(roots, firsts, templates, denied) ==
  {[Simple EXCEPT !.rootNs = root, !.denied = denied,
      !.template = (RunNs :> t) @@ ("other" :> body("mcp", "")),
      !.steps = [k \in {"A", "B"} \X Ns |->
                   IF k = <<"A", root>> THEN <<first, second>>
                   ELSE IF k[1] = "A" THEN <<direct(subWorkflow("B", ""))>> ELSE <<sub[k[2]]>>]] :
    root \in roots, first \in firsts, second \in Leaves \cup {direct(subWorkflow("A", ""))},
    sub \in [Ns -> Refs \cup {direct(body("mcp", "")), direct(body("agent", ""))}],
    t \in templates}

ServerKinds ==
  [transport : {"stdio"}, env : {"none", "optional", "mandatory"}, auth : {"none"}, ns : {""}]
  \cup [transport : {"http"}, env : {"none"}, ns : {"", "other"},
        auth : {"none", "bearer", "basic", "clientSecret", "clientCredentials"}]

Servers(jobs, configs, alloweds, denied, missings) ==
  {[Simple EXCEPT !.job = job, !.kubeconfig = kc, !.allowed = allowed, !.rootNs = "other",
      !.denied = denied, !.missing = missing,
      !.provider = provider, !.server = [n \in at |-> server], !.steps[<<"A", "other">>] = <<s>>] :
    job \in jobs, kc \in configs, allowed \in alloweds, missing \in missings,
    provider \in {[n \in {} |-> "nirmata"], [n \in Ns |-> "openai"], [n \in Ns |-> "nirmata"]},
    at \in {{RunNs}, Ns}, server \in ServerKinds,
    s \in {direct(body("mcp", "")), direct(body("agent", "")), direct(body("agent", "other")),
           step("forEachTemplate", "none", FALSE, plain)}}

\* Of these, some in which the credentials Secret may not be read, and some in which a
\* Secret is known to be missing.
agentTemplate == body("agent", "")
Denied ==
  Chains({RunNs}, Refs \cup TemplateSteps \cup OtherSteps, {agentTemplate}, TRUE)
  \cup Servers({"plain"}, {{""}}, {{}}, TRUE, {{}})
Missing ==
  Servers({"plain"}, {{""}}, {{"other"}}, FALSE,
          {{<<"mcp", "token">>}, {<<"mcp", "env">>}, {<<"kubeconfig", "">>}})

All ==
  Chains(Ns, Refs \cup OtherSteps, {agentTemplate}, FALSE)
  \cup Chains(Ns, TemplateSteps, {agentTemplate, subWorkflow("B", "")}, FALSE)
  \cup Servers({"plain"}, {{""}, {"other"}}, {{}, {"other"}}, FALSE, {{}})
  \cup Servers({"reservedEnv", "reservedVolume", "caVolume"}, {{""}}, {{"other"}}, FALSE, {{}})
  \cup Denied \cup Missing
============================================================================
