------------------------------- MODULE MCAudit -------------------------------
(***************************************************************************)
(* Inputs for model-checking VerificationAudit: admissible receipts and    *)
(* the registry that admits them.                                          *)
(***************************************************************************)
EXTENDS AuditProperties

TwoComponents  == <<"adn", "dqsn">>
FiveComponents == <<"adn", "dqsn", "guardian_wallet", "qwg", "sentinel_ai">>

\* Artifacts live from 2 to 6, keys from 1 to 8, and it is 4 o'clock.
Key(role, algorithm) ==
  [ role |-> role, key |-> algorithm, algorithm |-> algorithm,
    not_before |-> 1, not_after |-> 8, status |-> "active" ]

Roles == Append(Components, Orchestrator)

GoodRegistry ==
  [ registry_version |-> 2, schema |-> "shield.key_registry.v1",
    entries |-> [i \in 1..(3 * Len(Roles)) |->
                   Key(Roles[1 + ((i - 1) \div 3)], AllowedAlgorithms[1 + ((i - 1) % 3)])] ]

Signature(artifact, algorithm) ==
  [ faults |-> {}, algorithm |-> algorithm, key |-> algorithm,
    signed_payload_hash |-> "own", domain |-> DomainTag(artifact) ]

\* A bundle of the required algorithms, with FN-DSA for the artifacts in `fn`.
Bundle(artifact, fn) ==
  [ faults |-> {},
    signatures |-> [i \in 1..(IF artifact \in fn THEN 3 ELSE 2) |->
                      Signature(artifact, AllowedAlgorithms[i])] ]

Verdict(id, fn, decision) ==
  [ component_id |-> id, faults |-> {}, request_id |-> "request-of-" \o id,
    context_hash |-> ExpectedContextHash, key_registry_version |-> 2,
    not_before |-> 2, not_after |-> 6, decision |-> decision,
    signed_payload_hash |-> "own", signature_bundle |-> Bundle(id, fn) ]

\* The receipt a correct producer makes of these decisions.
Receipt(fn, decisions) ==
  LET verdicts == [i \in DOMAIN Components |-> Verdict(Components[i], fn, decisions[i])]
      outcome  == ExpectedFinalOutcome(verdicts)
  IN  [ faults |-> {}, schema_version |-> "shield.receipt.v2",
        request_id |-> ExpectedRequestId, context_hash |-> ExpectedContextHash,
        signature_policy |-> "policy.v1", key_registry_version |-> 2,
        freshness_nonce |-> "nonce-" \o outcome, not_before |-> 2, not_after |-> 6,
        component_verdicts |-> verdicts,
        component_signature_results |-> ExpectedSignatureResults(verdicts),
        final_outcome |-> outcome, handoff_allowed |-> outcome = "ALLOW",
        receipt_hash |-> "own", signed_payload_hash |-> "own",
        signature_bundle |-> Bundle(Orchestrator, fn) ]

Unanimous(decision) == [i \in DOMAIN Components |-> decision]

AllowReceipt == Receipt({Orchestrator, Components[1]}, Unanimous("ALLOW"))

DenyReceipt == Receipt({Orchestrator, Components[1]}, [Unanimous("ALLOW") EXCEPT ![1] = "DENY"])

-----------------------------------------------------------------------------
(* The constants of the runs *)

OneRegistry == {GoodRegistry}

BothReceipts == {AllowReceipt, DenyReceipt}

\* Admissible receipts of five components, FN-DSA in any set of bundles.
EveryFnDsa == {Receipt(fn, Unanimous("ALLOW")) : fn \in SUBSET Artifacts}

NoReceipts == {}

\* Seven, eight and nine callbacks: one below, at and above a limit of eight.
AtTheLimits ==
  {Receipt(fn, Unanimous("ALLOW")) :
     fn \in {{Orchestrator}, {Orchestrator, Components[1]}, Artifacts}}

OverwriteWithDeny == {DenyReceipt}
=============================================================================
