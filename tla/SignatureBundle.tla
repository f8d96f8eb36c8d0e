--------------------------- MODULE SignatureBundle ---------------------------
(***************************************************************************)
(* shield.signature_bundle.v1.  A bundle is [faults, signatures]: `faults` *)
(* is the set of its own fields that break the schema, `signatures` the    *)
(* sequence of its entries.  An entry is                                   *)
(* [faults, algorithm, key, signed_payload_hash, domain].                  *)
(*                                                                         *)
(* A stored hash is abstracted to how it relates to the payload it should  *)
(* cover: "own" equals the recomputed, domain-separated hash, "other" is a *)
(* different, well-formed hash.                                            *)
(***************************************************************************)
EXTENDS KeyRegistry, FiniteSets

ComponentDomain == "DGB-SHIELD-V4-COMPONENT-VERDICT"
ReceiptDomain   == "DGB-SHIELD-V4-ORCH-RECEIPT"

DomainTag(artifact) == IF artifact = Orchestrator THEN ReceiptDomain ELSE ComponentDomain

\* The fields of a bundle and of an entry that can be wrong on their own.
BundleFaults == {"fields", "schema", "policy"}
EntryFaults  == {"fields", "profile", "signature"}

AlgorithmsOf(bundle) == {bundle.signatures[i].algorithm : i \in DOMAIN bundle.signatures}

\* validate_signature_bundle_shape
BundleShapeVerdict(bundle) ==
  FirstFailure(<<
    Demand("fields" \notin bundle.faults, {"signature", "field", "schema"}),
    Demand("schema" \notin bundle.faults, {"signature", "schema"}),
    Demand("policy" \notin bundle.faults, {"signature", "policy"}),
    Demand(bundle.signatures # <<>>, {"signature"}) >>)

\* One iteration of the first loop of verify_signature_bundle: everything an
\* entry says of itself, no key looked up.
BundleEntryVerdict(bundle, i, expected_hash, expected_domain) ==
  LET entry   == bundle.signatures[i]
      Earlier == {bundle.signatures[j] : j \in 1..(i - 1)}
  IN  FirstFailure(<<
        Demand("fields" \notin entry.faults, {"signature", "field", "schema"}),
        Demand(entry.algorithm \in Algorithms, {"signature", "algorithm"}),
        Demand("profile" \notin entry.faults, {"signature", "profile"}),
        Demand(\A e \in Earlier : e.algorithm # entry.algorithm, {"signature", "algorithm"}),
        Demand(\A e \in Earlier : e.key # entry.key, {"signature", "key"}),
        Demand(entry.signed_payload_hash = expected_hash, {"signature", "hash"}),
        Demand(entry.domain = expected_domain, {"signature"}) >>)

\* algorithm_sequence = canonical_sequence, for distinct supported algorithms.
InPolicyOrder(bundle) ==
  \A i, j \in DOMAIN bundle.signatures :
    i < j => AlgorithmRank(bundle.signatures[i].algorithm)
               < AlgorithmRank(bundle.signatures[j].algorithm)

\* verify_signature_bundle at the verification time `now`, with a verifier that
\* returns True exactly for the entries whose algorithm is in `accepted`.  In the
\* second loop the lookup of an entry's key and the verifier's answer alternate,
\* entry by entry.
BundleVerdict(bundle, artifact, expected_hash, registry, now, not_before, not_after, accepted) ==
  LET entries == DOMAIN bundle.signatures
  IN  FirstFailure(<<
        BundleShapeVerdict(bundle),
        FirstFailure([i \in entries |->
          BundleEntryVerdict(bundle, i, expected_hash, DomainTag(artifact))]),
        Demand(InPolicyOrder(bundle), {"signature", "algorithm", "policy"}),
        Demand(RequiredAlgorithms \subseteq AlgorithmsOf(bundle), {"signature", "policy"}),
        FirstFailure([i \in entries |-> FirstFailure(<<
          FindKeyVerdict(registry, artifact, bundle.signatures[i].key,
                         bundle.signatures[i].algorithm, now, not_before, not_after),
          Demand(bundle.signatures[i].algorithm \in accepted, {"signature"}) >>)]) >>)

\* Mutant: the last instant of an artifact's window is refused.
FreshnessHalfOpen(now, not_before, not_after) ==
  FirstFailure(<<
    Demand(not_before < not_after, {"freshness"}),
    Demand(not_before <= now /\ now < not_after, {"time"}) >>)

\* _require_artifact_freshness_window, which only the audited verifier applies.
FreshnessVerdict(now, not_before, not_after) ==
  FirstFailure(<<
    Demand(not_before < not_after, {"freshness"}),
    Demand(not_before <= now /\ now <= not_after, {"time"}) >>)

\* _prepare_signature_bundle_keys: signature texts, then verify_signature_bundle
\* against the first entry's own hash, recomputing nothing and accepting all.
PrepareVerdict(bundle, artifact, registry, now, not_before, not_after) ==
  FirstFailure(<<
    FirstFailure([i \in DOMAIN bundle.signatures |->
      Demand("signature" \notin bundle.signatures[i].faults, {"signature"})]),
    BundleVerdict(bundle, artifact, bundle.signatures[1].signed_payload_hash,
                  registry, now, not_before, not_after, Algorithms) >>)
=============================================================================
