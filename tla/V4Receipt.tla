------------------------------ MODULE V4Receipt ------------------------------
(***************************************************************************)
(* Signed component verdicts (shield.verdict.v2) and the receipt that      *)
(* carries five of them (shield.receipt.v2): the checks on their contents. *)
(*                                                                         *)
(* A component verdict is                                                  *)
(*   [component_id, faults, request_id, context_hash, key_registry_version,*)
(*    not_before, not_after, decision, signed_payload_hash,                *)
(*    signature_bundle]                                                    *)
(* and a receipt is                                                        *)
(*   [faults, schema_version, request_id, context_hash, signature_policy,  *)
(*    key_registry_version, freshness_nonce, not_before, not_after,        *)
(*    component_verdicts, component_signature_results, final_outcome,      *)
(*    handoff_allowed, receipt_hash, signed_payload_hash,                  *)
(*    signature_bundle].                                                   *)
(* `faults` names the fields whose value fails a check that looks at that  *)
(* field alone.                                                            *)
(***************************************************************************)
EXTENDS SignatureBundle

CONSTANTS ExpectedContextHash, ExpectedRequestId   \* trusted arguments

Decisions == {"ALLOW", "ESCALATE", "DENY", "ERROR", "SKIPPED"}

FinalOutcomes == {"ALLOW", "DENY", "HUMAN_REVIEW_REQUIRED"}

\* The fields of a verdict and of a receipt that can be wrong on their own; a
\* receipt's graph and its canonical bytes can be too large.
VerdictFaults ==
  { "fields", "contract_version", "schema_version", "canonicalization_profile",
    "signature_policy", "fail_closed", "metadata_type", "metadata", "request_id",
    "freshness_nonce", "not_before", "not_after", "reason_ids", "evidence_hash",
    "evidence_families" }

ReceiptFaults ==
  { "graph", "fields", "contract_version", "canonicalization_profile", "fail_closed",
    "freshness_nonce", "dominant_reason_ids", "adamantineos_handoff", "bytes" }

-----------------------------------------------------------------------------
(* Component verdicts *)

\* unsigned_component_payload, up to the payload it returns.
ComponentHeaderVerdict(verdict) ==
  LET Field(name, words) == Demand(name \notin verdict.faults, words)
  IN  FirstFailure(<<
        Field("fields", {"field", "schema"}),
        Field("contract_version", {"contract"}),
        Field("schema_version", {"schema"}),
        Field("canonicalization_profile", {"profile"}),
        Field("signature_policy", {"signature", "policy"}),
        Field("fail_closed", {}),
        Demand(verdict.decision \in Decisions, {}),
        Field("metadata_type", {}),
        Field("metadata", {"authority", "field"}) >>)

\* The fields of that payload, in the order they are written: each text must not
\* be empty, each list hold one text at least and none twice.
ComponentFieldsVerdict(verdict) ==
  LET Field(name, words) == Demand(name \notin verdict.faults, words)
  IN  FirstFailure(<<
        Field("request_id", {"request"}),
        Field("freshness_nonce", {"freshness"}),
        Field("not_before", {}),
        Field("not_after", {}),
        Field("reason_ids", {}),
        Field("evidence_hash", {"hash"}),
        Field("evidence_families", {}) >>)

\* unsigned_component_payload
ComponentPayloadVerdict(verdict) ==
  FirstFailure(<<ComponentHeaderVerdict(verdict), ComponentFieldsVerdict(verdict)>>)

ComponentContextVerdict(verdict) ==
  Demand(verdict.context_hash = ExpectedContextHash, {"context", "hash"})

ComponentRegistryVerdict(verdict, registry) ==
  Demand(verdict.key_registry_version = registry.registry_version, {"key", "registry"})

SignedHashVerdict(artifact) == Demand(artifact.signed_payload_hash = "own", {"hash"})

\* validate_component_verdict_envelope
ComponentEnvelopeVerdict(verdict, registry, now, accepted) ==
  FirstFailure(<<
    ComponentPayloadVerdict(verdict),
    ComponentContextVerdict(verdict),
    SignedHashVerdict(verdict),
    ComponentRegistryVerdict(verdict, registry),
    BundleVerdict(verdict.signature_bundle, verdict.component_id, "own", registry,
                  now, verdict.not_before, verdict.not_after, accepted) >>)

ComponentBundle(verdicts, component_id) ==
  verdicts[SelectInSeq(verdicts, LAMBDA v : v.component_id = component_id)].signature_bundle

-----------------------------------------------------------------------------
(* Receipts *)

\* _expected_final_outcome
ExpectedFinalOutcome(verdicts) ==
  LET decisions == {verdicts[i].decision : i \in DOMAIN verdicts}
  IN  IF decisions \cap {"DENY", "ERROR"} # {} THEN "DENY"
      ELSE IF decisions \cap {"ESCALATE", "SKIPPED"} # {} THEN "HUMAN_REVIEW_REQUIRED"
      ELSE "ALLOW"

\* What a component contributes to component_signature_results.  Its id stands in
\* it as it stands in the verdict: `padded` says that white space surrounds it.
Summary(component_id, padded, bundle) ==
  [ component_id |-> component_id,
    padded       |-> padded,
    verified     |-> TRUE,
    algorithms   |-> [i \in DOMAIN bundle.signatures |-> bundle.signatures[i].algorithm] ]

\* _expected_component_signature_results: the bundles' algorithms in canonical
\* component order, whatever the order of the verdicts.
ExpectedSignatureResults(verdicts) ==
  [k \in DOMAIN Components |->
     Summary(Components[k], FALSE, ComponentBundle(verdicts, Components[k]))]

\* _validate_component_verdicts_for_receipt: stripped ids, and each only once.
ReceiptListVerdict(list) ==
  FirstFailure(<<
    Demand(Len(list) = Len(Components), {}),
    FirstFailure([i \in DOMAIN list |-> FirstFailure(<<
      Demand(list[i].component_id \in ComponentIds, {}),
      Demand(\A j \in 1..(i - 1) : list[j].component_id # list[i].component_id, {}),
      Demand("contract_version" \notin list[i].faults, {"contract"}),
      Demand("schema_version" \notin list[i].faults, {"schema"}),
      Demand(list[i].context_hash = ExpectedContextHash, {"context"}),
      Demand(list[i].decision \in Decisions, {}) >>)]) >>)

\* _validate_component_signature_results_for_receipt
SignatureResultsVerdict(results) ==
  FirstFailure(<<
    Demand(Len(results) = Len(Components), {"signature"}),
    FirstFailure([i \in DOMAIN results |->
      LET algorithms == results[i].algorithms
      IN  FirstFailure(<<
            Demand(results[i].component_id \in ComponentIds, {"signature"}),
            Demand(\A j \in 1..(i - 1) : results[j].component_id # results[i].component_id,
                   {"signature"}),
            Demand(results[i].verified, {"signature"}),
            Demand(/\ \A k, l \in DOMAIN algorithms : algorithms[k] = algorithms[l] => k = l
                   /\ RequiredAlgorithms \subseteq ToSet(algorithms)
                   /\ ToSet(algorithms) \subseteq Algorithms,
                   {"signature", "algorithm"}) >>)]) >>)

\* _validate_receipt_payload_semantics, after the header checks, which its callers
\* have made already.
ReceiptSemanticsVerdict(receipt) ==
  LET Field(name, words) == Demand(name \notin receipt.faults, words)
  IN  FirstFailure(<<
        Field("freshness_nonce", {"freshness"}),
        ReceiptListVerdict(receipt.component_verdicts),
        SignatureResultsVerdict(receipt.component_signature_results),
        Demand(receipt.final_outcome \in FinalOutcomes, {}),
        Demand(receipt.final_outcome = ExpectedFinalOutcome(receipt.component_verdicts), {}),
        Field("dominant_reason_ids", {}),
        Field("adamantineos_handoff", {"authority", "field"}),
        Demand(receipt.final_outcome = "ALLOW" \/ ~receipt.handoff_allowed,
               {"handoff_allowed"}) >>)

BundleOf(receipt, artifact) ==
  IF artifact = Orchestrator
  THEN receipt.signature_bundle
  ELSE ComponentBundle(receipt.component_verdicts, artifact)

\* Every signature of a receipt, as <<artifact, algorithm>>: what the verifier
\* plans a callback for, and the key of its one-shot result cache.
Tokens(receipt) ==
  {t \in Artifacts \X Algorithms : t[2] \in AlgorithmsOf(BundleOf(receipt, t[1]))}

Accepted(artifact, tokens) == {algorithm \in Algorithms : <<artifact, algorithm>> \in tokens}

\* Mutant: a bundle finds its own answers taken, as if it had been asked before.
RemainingAfter(tokens, verdicts, i) ==
  tokens \ UNION {{verdicts[j].component_id} \X AlgorithmsOf(verdicts[j].signature_bundle) :
                     j \in 1..i}

\* What is left of `tokens` for the i-th verdict: an answer is given once, and the
\* bundles before it have taken theirs.  (The entries of one bundle cannot take
\* each other's: their algorithms are found distinct before any answer is asked.)
Remaining(tokens, verdicts, i) ==
  tokens \ UNION {{verdicts[j].component_id} \X AlgorithmsOf(verdicts[j].signature_bundle) :
                     j \in 1..(i - 1)}

\* verify_component_verdicts, with a verifier that answers True once for each of
\* `tokens`.
ComponentListVerdict(verdicts, registry, now, tokens) ==
  FirstFailure(<<
    Demand(Len(verdicts) = Len(Components), {}),
    FirstFailure([i \in DOMAIN verdicts |-> FirstFailure(<<
      ComponentEnvelopeVerdict(verdicts[i], registry, now,
        Accepted(verdicts[i].component_id, Remaining(tokens, verdicts, i))),
      Demand(\A j \in 1..(i - 1) : verdicts[j].component_id # verdicts[i].component_id,
             {}) >>)]) >>)

\* validate_receipt_envelope of a loaded registry, with a verifier that answers
\* True for `tokens`.
ReceiptEnvelopeVerdict(receipt, registry, now, tokens) ==
  LET Field(name, words) == Demand(name \notin receipt.faults, words)
  IN  FirstFailure(<<
        Field("fields", {"field", "schema"}),
        Demand(receipt.schema_version = "shield.receipt.v2", {"schema"}),
        Field("contract_version", {"contract"}),
        Field("fail_closed", {}),
        Field("canonicalization_profile", {"profile"}),
        Demand(receipt.signature_policy = "policy.v1", {"signature", "policy"}),
        Demand(receipt.context_hash = ExpectedContextHash, {"context"}),
        ReceiptSemanticsVerdict(receipt),
        Demand(receipt.receipt_hash = "own", {"hash"}),
        SignedHashVerdict(receipt),
        Demand(receipt.key_registry_version = registry.registry_version,
               {"key", "registry"}),
        BundleVerdict(receipt.signature_bundle, Orchestrator, "own", registry,
                      now, receipt.not_before, receipt.not_after,
                      Accepted(Orchestrator, tokens)) >>)

-----------------------------------------------------------------------------
(* What verdicts and receipts are *)

\* The JSON arrays of a receipt and the tuple of a registry are sequences; what
\* is no array is a fault of the object that holds it.
IsListing(list) ==
  /\ Len(list) \in Nat /\ DOMAIN list = 1..Len(list)
  /\ list = [i \in DOMAIN list |-> list[i]]

HoldsListings(r) ==
  /\ IsListing(r.component_verdicts)
  /\ \A i \in DOMAIN r.component_verdicts :
       IsListing(r.component_verdicts[i].signature_bundle.signatures)
  /\ IsListing(r.signature_bundle.signatures)
  /\ IsListing(r.component_signature_results)

\* What is wrong with a field on its own is one of the faults the checks look for,
\* and instants are numbers.
IsInterval(x) == x.not_before \in Nat /\ x.not_after \in Nat

HasKnownFaults(bundle) ==
  /\ bundle.faults \subseteq BundleFaults
  /\ \A i \in DOMAIN bundle.signatures : bundle.signatures[i].faults \subseteq EntryFaults

IsWellTyped(r) ==
  /\ r.faults \subseteq ReceiptFaults /\ IsInterval(r)
  /\ HasKnownFaults(r.signature_bundle)
  /\ \A i \in DOMAIN r.component_verdicts :
       LET c == r.component_verdicts[i]
       IN  /\ c.faults \subseteq VerdictFaults /\ IsInterval(c)
           /\ HasKnownFaults(c.signature_bundle)
=============================================================================
