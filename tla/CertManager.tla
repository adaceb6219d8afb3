----------------------------- MODULE CertManager -----------------------------
(***************************************************************************)
(* The TLS Secrets of the webhook service: every controller replica runs   *)
(* reconcileCerts over the same two Secrets when it starts and then on a   *)
(* timer, writes the pair it finds to its own disk once, and patches the   *)
(* CA into the ValidatingWebhookConfiguration they share.                  *)
(*                                                                         *)
(* A CA is the key that signs: rotation near expiry keeps the key, so what *)
(* verified before still does.  The renewer (kyverno/pkg/tls) is external. *)
(* Every call to the API server is a step of its own; no Delete carries a  *)
(* precondition.                                                           *)
(***************************************************************************)
EXTENDS Naturals, FiniteSets

CONSTANTS
  Replicas,     \* controller replicas
  MaxKeys,      \* bound on CA keys
  MaxMishaps    \* bound on calls that fail, replicas that die and outsiders' edits

VARIABLES
  ca,           \* the CA Secret: [kind, key]
  leaf,         \* the TLS pair: [kind, key], the key being that of its signer
  vwc,          \* the webhook configuration: [exists, key, patched], the key of its
                \* caBundle and whether a replica ever patched it
  replica,      \* per replica: where it is, what it read, what it serves
  caKeys,       \* CA keys made so far
  mishaps       \* failed calls, deaths and outsiders' edits so far

certVars == <<ca, leaf, vwc, replica, caKeys, mishaps>>

\* What a Secret holds: nothing usable yet, a key that is no PEM, another Secret
\* type, a certificate whose key decodes but does not parse (PKCS#8), or a pair.
Kinds == {"absent", "unfilled", "notPEM", "wrongType", "foreign", "ok"}
hasCert(s) == s.kind \in {"foreign", "ok"}
secret(kind, key) == [kind |-> kind, key |-> key]
Absent == secret("absent", 0)
config(exists, key) == [exists |-> exists, key |-> key, patched |-> FALSE]

\* A process that starts; it serves nothing yet.
Starting == [pc |-> "caKey", steady |-> FALSE, saw |-> 0, bundle |-> 0, serves |-> 0]

\* A fresh install, a restart over a good pair, or leftovers: a leaf that an
\* earlier CA (key 0) signed, a placeholder, a Secret of the wrong type, or keys of
\* a form the renewer does not read.  A placeholder and a Secret of the wrong type
\* hold no pair.  The configuration may hold the bundle of the earlier CA.
Init ==
  /\ ca \in {Absent, secret("ok", 1), secret("foreign", 1)} \cup
            {secret(k, 0) : k \in {"notPEM", "unfilled", "wrongType"}}
  /\ leaf \in {Absent, secret("ok", ca.key), secret("foreign", ca.key)} \cup
              {secret(k, 0) : k \in {"ok", "notPEM", "unfilled", "wrongType"}}
  /\ caKeys = IF hasCert(ca) THEN 1 ELSE 0
  /\ vwc \in {config(FALSE, 0), config(TRUE, 0), config(TRUE, ca.key)}
  /\ replica = [r \in Replicas |-> Starting]
  /\ mishaps = 0
----------------------------------------------------------------------------
at(r, pc) == replica[r].pc = pc
goto(r, pc) == replica' = [replica EXCEPT ![r].pc = pc, ![r].saw = 0]
again(r) == goto(r, "caKey")
stay == UNCHANGED <<ca, leaf, vwc, caKeys, mishaps>>

\* deleteSecretWithUndecodableKey, for the CA and then for the leaf.
ReadKey(r) ==
  /\ stay
  /\ \/ at(r, "caKey") /\ goto(r, IF ca.kind = "notPEM" THEN "caDelete" ELSE "leafKey")
     \/ at(r, "leafKey") /\ goto(r, IF leaf.kind = "notPEM" THEN "leafDelete" ELSE "chainLeaf")

DeleteUndecodable(r) ==
  /\ \/ at(r, "caDelete") /\ ca' = Absent /\ goto(r, "leafKey") /\ UNCHANGED leaf
     \/ at(r, "leafDelete") /\ leaf' = Absent /\ goto(r, "chainLeaf") /\ UNCHANGED ca
  /\ UNCHANGED <<vwc, caKeys, mishaps>>

\* repairLeafChain: the leaf is read, then the CA, then a leaf that no stored CA
\* signed is deleted; without a CA there is nothing to judge it by.  Only the
\* certificates are looked at, never the keys.
ReadChain_Leaves(r) ==
  /\ stay
  /\ \/ at(r, "chainLeaf") /\ goto(r, "renewCA")
     \/ at(r, "chainCA") /\ goto(r, "renewCA")

ReadChain(r) ==
  /\ stay
  /\ \/ /\ at(r, "chainLeaf")
        /\ replica' = [replica EXCEPT ![r].pc = IF hasCert(leaf) THEN "chainCA" ELSE "renewCA",
                                      ![r].saw = leaf.key]
     \/ /\ at(r, "chainCA")
        /\ goto(r, IF hasCert(ca) /\ ca.key # replica[r].saw THEN "repair" ELSE "renewCA")

repairLeafChain(r) ==
  /\ at(r, "repair")
  /\ leaf' = Absent /\ goto(r, "renewCA")
  /\ UNCHANGED <<ca, vwc, caKeys, mishaps>>
----------------------------------------------------------------------------
\* The renewer.  A Secret of the wrong type is deleted and left for a later
\* pass, one that is missing or unfilled is written, which fails when another
\* replica was faster; a key that is no PEM makes it panic, and one that does not
\* parse is an error: nobody deletes it, and every pass ends there.
RenewCA(r) ==
  /\ at(r, "renewCA")
  /\ CASE ca.kind = "wrongType" -> ca' = Absent /\ goto(r, "renewTLS")
       [] ca.kind = "ok" -> UNCHANGED ca /\ goto(r, "renewTLS")
       [] ca.kind = "notPEM" -> UNCHANGED ca /\ replica' = [replica EXCEPT ![r] = Starting]
       [] ca.kind = "foreign" -> UNCHANGED ca /\ again(r)
       [] OTHER -> UNCHANGED ca /\ goto(r, IF ca.kind = "absent" THEN "createCA" ELSE "fillCA")
  /\ UNCHANGED <<leaf, vwc, caKeys, mishaps>>

WriteCA(r) ==
  /\ replica[r].pc \in {"createCA", "fillCA"}
  /\ IF ca.kind = (IF at(r, "createCA") THEN "absent" ELSE "unfilled")
     THEN /\ caKeys < MaxKeys /\ caKeys' = caKeys + 1
          /\ ca' = secret("ok", caKeys + 1) /\ goto(r, "renewTLS")
     ELSE UNCHANGED <<ca, caKeys>> /\ again(r)
  /\ UNCHANGED <<leaf, vwc, mishaps>>

RenewTLS(r) ==
  /\ at(r, "renewTLS")
  /\ CASE leaf.kind = "wrongType" -> leaf' = Absent /\ goto(r, "validate")
       [] leaf.kind = "ok" -> UNCHANGED leaf /\ goto(r, "validate")
       [] leaf.kind = "notPEM" -> UNCHANGED leaf /\ replica' = [replica EXCEPT ![r] = Starting]
       [] leaf.kind = "foreign" -> UNCHANGED leaf /\ again(r)
       [] OTHER -> /\ UNCHANGED leaf
                   /\ IF ca.kind # "ok" THEN again(r)
                      ELSE replica' = [replica EXCEPT ![r].saw = ca.key,
                             ![r].pc = IF leaf.kind = "absent" THEN "createLeaf" ELSE "fillLeaf"]
  /\ UNCHANGED <<ca, vwc, caKeys, mishaps>>

WriteLeaf(r) ==
  /\ replica[r].pc \in {"createLeaf", "fillLeaf"}
  /\ IF leaf.kind = (IF at(r, "createLeaf") THEN "absent" ELSE "unfilled")
     THEN leaf' = secret("ok", replica[r].saw) /\ goto(r, "validate")
     ELSE UNCHANGED leaf /\ again(r)
  /\ UNCHANGED <<ca, vwc, caKeys, mishaps>>

ValidateCert == ca.kind = "ok" /\ leaf.kind = "ok" /\ leaf.key = ca.key

\* The end of a pass.  One that did not converge is repeated; a bootstrap that
\* runs out of its budget ends the process, which starts over in the same way.
reconcileCerts_Unvalidated(r) ==
  /\ at(r, "validate")
  /\ goto(r, IF replica[r].steady THEN "serving" ELSE "readLeaf")
  /\ stay

reconcileCerts(r) ==
  /\ at(r, "validate")
  /\ IF ValidateCert
     THEN goto(r, IF replica[r].steady THEN "serving" ELSE "readLeaf")
     ELSE again(r)
  /\ stay
----------------------------------------------------------------------------
\* BootstrapWebhookCerts polls for the pair, writes it to disk and then reads the
\* CA; without one the process ends.
BootstrapWebhookCerts(r) ==
  /\ stay
  /\ \/ /\ at(r, "readLeaf") /\ hasCert(leaf)
        /\ replica' = [replica EXCEPT ![r].pc = "readCA", ![r].serves = leaf.key]
     \/ /\ at(r, "readLeaf") /\ ~hasCert(leaf)
        /\ replica' = [replica EXCEPT ![r] = Starting]
     \/ /\ at(r, "readCA")
        /\ replica' = [replica EXCEPT ![r] =
              IF hasCert(ca) THEN [@ EXCEPT !.pc = "readVWC", !.bundle = ca.key] ELSE Starting]

\* PatchValidatingWebhookConfigCA: Get, then Update of what was read.  A failure
\* is only logged.
ReadVWC(r) ==
  /\ at(r, "readVWC") /\ stay
  /\ replica' = [replica EXCEPT ![r].pc = IF vwc.exists THEN "patch" ELSE "serve", ![r].saw = vwc.key]

PatchVWC(r) ==
  /\ at(r, "patch")
  /\ vwc' = IF vwc.key = replica[r].saw
            THEN [vwc EXCEPT !.key = replica[r].bundle, !.patched = TRUE] ELSE vwc
  /\ goto(r, "serve")
  /\ UNCHANGED <<ca, leaf, caKeys, mishaps>>

\* The webhook server starts with the directory that was written.
Serve(r) ==
  /\ at(r, "serve") /\ stay
  /\ replica' = [replica EXCEPT ![r].pc = "serving", ![r].steady = TRUE, ![r].saw = 0, ![r].bundle = 0]

\* The renewal ticker; what is on disk and in the configuration stays as it is.
Renew(r) == at(r, "serving") /\ stay /\ again(r)
----------------------------------------------------------------------------
\* A call fails: the pass is repeated, a bootstrap that cannot read the CA ends
\* the process, and a configuration that cannot be patched is only logged.  Or the
\* replica dies.
Fails(r) ==
  /\ mishaps < MaxMishaps /\ mishaps' = mishaps + 1
  /\ \/ replica' = [replica EXCEPT ![r] = Starting]
     \/ replica[r].pc \in {"readVWC", "patch"} /\ goto(r, "serve")
     \/ replica[r].pc \notin {"readLeaf", "readCA", "readVWC", "patch", "serve", "serving"} /\ again(r)
  /\ UNCHANGED <<ca, leaf, vwc, caKeys>>

\* Operators delete a Secret, blank it, restore one from a backup or put one of
\* their own in its place, a leaf being signed by the CA that is stored.
Damage ==
  /\ mishaps < MaxMishaps /\ mishaps' = mishaps + 1
  /\ \/ /\ ca' \in {Absent, secret("notPEM", 0)} /\ UNCHANGED <<leaf, caKeys>>
     \/ /\ caKeys < MaxKeys /\ caKeys' = caKeys + 1
        /\ ca' \in {secret("ok", caKeys + 1), secret("foreign", caKeys + 1)} /\ UNCHANGED leaf
     \/ leaf' \in {Absent, secret("notPEM", 0)} /\ UNCHANGED <<ca, caKeys>>
     \/ hasCert(ca) /\ leaf' = secret("foreign", ca.key) /\ UNCHANGED <<ca, caKeys>>
  /\ UNCHANGED <<vwc, replica>>

\* The chart may create the configuration after a replica looked for it.
ChartApplied ==
  /\ ~vwc.exists /\ vwc' = [vwc EXCEPT !.exists = TRUE]
  /\ UNCHANGED <<ca, leaf, replica, caKeys, mishaps>>

Step(r) ==
  \/ ReadKey(r) \/ DeleteUndecodable(r) \/ ReadChain(r) \/ repairLeafChain(r)
  \/ RenewCA(r) \/ WriteCA(r) \/ RenewTLS(r) \/ WriteLeaf(r) \/ reconcileCerts(r)
  \/ BootstrapWebhookCerts(r) \/ ReadVWC(r) \/ PatchVWC(r) \/ Serve(r) \/ Renew(r)

Next == Damage \/ ChartApplied \/ \E r \in Replicas : Step(r) \/ Fails(r)

\* A replica runs, its ticker ticks, and a process that ended is started again.
Fairness == \A r \in Replicas : WF_certVars(Step(r))

Spec == Init /\ [][Next]_certVars /\ Fairness
----------------------------------------------------------------------------
TypeOK ==
  /\ ca \in [kind : Kinds, key : 0 .. MaxKeys] /\ leaf \in [kind : Kinds, key : 0 .. MaxKeys]
  /\ vwc \in [exists : BOOLEAN, key : 0 .. MaxKeys, patched : BOOLEAN] /\ caKeys \in 0 .. MaxKeys
  /\ mishaps \in 0 .. MaxMishaps
  /\ \A r \in Replicas : replica[r].serves \in 0 .. MaxKeys /\ replica[r].steady \in BOOLEAN

(* As long as no second CA was made or restored, every replica serves a     *)
(* certificate that the configuration they share trusts, although they      *)
(* create, delete and patch under each other's feet and may start over      *)
(* leftovers of an earlier install.  The one exception: the bundle in the   *)
(* configuration is still the one found there, an earlier CA's or none, as  *)
(* every replica's patch failed or found no configuration, which is only    *)
(* logged; the first patch that is accepted ends it for all.                *)
ServedIsTrusted ==
  caKeys <= 1 => \A r \in Replicas : replica[r].steady =>
    \/ replica[r].serves = vwc.key
    \/ vwc.key = 0 /\ ~vwc.patched

(* When outsiders and failures end, the Secrets settle on a pair that       *)
(* verifies and every replica comes up: no replica's stale decision to      *)
(* delete starts another round for ever.  Left out are Secrets that the     *)
(* code keeps on purpose although the renewer cannot read their keys: a CA, *)
(* or a leaf that the stored CA signed.  A pass then fails for ever and no  *)
(* process comes up.                                                        *)
stuck == ca.kind = "foreign" \/ (leaf.kind = "foreign" /\ leaf.key = ca.key)
settled == ValidateCert /\ \A r \in Replicas : replica[r].steady
CertsSettle == <>[](stuck \/ settled)
============================================================================
