------------------------------ MODULE Admission ------------------------------
(***************************************************************************)
(* Admissibility: the reference definition of a chain whose signatures are *)
(* worth checking.  It has no order of evaluation and no early return, and *)
(* is what the blocks of AuditChecks are held against.                     *)
(***************************************************************************)
EXTENDS AuditChecks

WellFormedRegistry(g) ==
  /\ Len(g.entries) \in 1..MaxRegistryEntries
  /\ g.schema = "shield.key_registry.v1"
  /\ g.registry_version >= MinimumRegistryVersion
  /\ \A i, j \in DOMAIN g.entries : KeyIdentity(g.entries[i]) = KeyIdentity(g.entries[j]) => i = j
  /\ \A e \in ToSet(g.entries) :
       /\ e.role \in SupportedRoles
       /\ e.algorithm \in Algorithms
       /\ e.not_before < e.not_after
       /\ e.status \in {"active", "revoked"}

\* The artifact is in force now, and the key was in force all of its life.
TrustedFor(g, artifact, entry, not_before, not_after) ==
  \E k \in ToSet(g.entries) :
    /\ KeyIdentity(k) = <<artifact, entry.key, entry.algorithm>>
    /\ k.status = "active"
    /\ k.not_before <= not_before /\ not_after <= k.not_after

AdmissibleBundle(bundle, artifact, g, not_before, not_after) ==
  /\ bundle.faults = {}
  /\ [i \in DOMAIN bundle.signatures |-> bundle.signatures[i].algorithm]
       \in {<<"classical-ed25519", "ml-dsa">>, <<"classical-ed25519", "ml-dsa", "fn-dsa">>}
  /\ \A i, j \in DOMAIN bundle.signatures :
       bundle.signatures[i].key = bundle.signatures[j].key => i = j
  /\ not_before < not_after
  /\ not_before <= VerificationTime /\ VerificationTime <= not_after
  /\ \A e \in ToSet(bundle.signatures) :
       /\ e.faults = {}
       /\ e.signed_payload_hash = "own"
       /\ e.domain = DomainTag(artifact)
       /\ TrustedFor(g, artifact, e, not_before, not_after)

AdmissibleComponent(c, g) ==
  /\ c.faults = {}
  /\ c.context_hash = ExpectedContextHash
  /\ c.key_registry_version = g.registry_version
  /\ c.decision \in Decisions
  /\ c.signed_payload_hash = "own"
  /\ AdmissibleBundle(c.signature_bundle, c.component_id, g, c.not_before, c.not_after)

Admissible(r, g) ==
  /\ WellFormedRegistry(g)
  /\ r.faults = {}
  /\ r.schema_version = "shield.receipt.v2"
  /\ r.signature_policy = "policy.v1"
  /\ r.request_id = ExpectedRequestId
  /\ r.context_hash = ExpectedContextHash
  /\ r.key_registry_version = g.registry_version
  /\ r.receipt_hash = "own" /\ r.signed_payload_hash = "own"
  /\ Len(r.component_verdicts) = Len(Components)
  /\ {c.component_id : c \in ToSet(r.component_verdicts)} = ComponentIds
  /\ \A c \in ToSet(r.component_verdicts) : AdmissibleComponent(c, g)
  /\ AdmissibleBundle(r.signature_bundle, Orchestrator, g, r.not_before, r.not_after)
  /\ r.component_signature_results = ExpectedSignatureResults(r.component_verdicts)
  /\ r.final_outcome = ExpectedFinalOutcome(r.component_verdicts)
  /\ r.handoff_allowed => r.final_outcome = "ALLOW"
  /\ Cardinality(Tokens(r)) <= MaxVerificationCalls
  /\ Cardinality({t \in Tokens(r) : t[2] \in PqcAlgorithms}) <= MaxPqcCalls
=============================================================================
