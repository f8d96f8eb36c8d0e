--------------------------- MODULE ChainProperties ---------------------------
(***************************************************************************)
(* What EvidenceChain must satisfy.                                        *)
(***************************************************************************)
EXTENDS EvidenceChain

\* A registry trusts every key of the bundle for the artifact, and for all of its
\* window.
Trusted(g, bundle, role, artifact) ==
  \A entry \in ToSet(bundle.signatures) : \E key \in ToSet(g.entries) :
    /\ KeyIdentity(key) = <<role, entry.key, entry.algorithm>>
    /\ key.status = "active"
    /\ key.not_before <= artifact.not_before /\ artifact.not_after <= key.not_after

\* The type invariant.  A receipt that was built holds exactly one verdict of every
\* component, whatever list was submitted.
TypeOK ==
  /\ clock \in 0..MaxClock
  /\ epoch \in DOMAIN Registries
  /\ verdicts \in {<<>>} \cup UNION {Submissions[version] : version \in DOMAIN Submissions}
  /\ receipt # None =>
       /\ Len(receipt.component_verdicts) = Len(Components)
       /\ {v.component_id : v \in ToSet(receipt.component_verdicts)} = ComponentIds
       /\ receipt.final_outcome \in FinalOutcomes
  /\ last.operation \in {"none", "components", "build", "validate"}
  /\ last.result \in AuditReasonIds

\* A receipt the Orchestrator has just built passes the checks of the audited
\* verifier, in whatever order the verdicts came: its components verify again from
\* inside the receipt, and its summaries are those the verifier derives.  Two
\* things the verifier asks and the builder does not: that the present lies in
\* every window, and that no component wrote its id with white space.
BuiltIsAdmissible ==
  /\ last.operation = "build" /\ last.result = Ok
  /\ \A v \in ToSet(receipt.component_verdicts) : ~v.padded
  => /\ ComponentsVerdict(receipt.component_verdicts, registry, clock) = Ok
     /\ EnvelopeVerdict(receipt, registry, clock) = Ok
     /\ receipt.component_signature_results
          = ExpectedSignatureResults(receipt.component_verdicts)

\* A receipt that validates rests on evidence that is still good: although only
\* the signatures of the receipt are looked at, every component verdict in it was
\* genuine, and the registry now in force trusts every component key; a rotation
\* that revokes one takes every older receipt with it.
EvidenceStaysTrusted ==
  last.operation = "validate" /\ last.result = Ok =>
    /\ Trusted(registry, receipt.signature_bundle, Orchestrator, receipt)
    /\ \A v \in ToSet(receipt.component_verdicts) :
         v.genuine /\ Trusted(registry, v.signature_bundle, v.component_id, v)

\* A denial is not lost on the way: a receipt that validates and lets the request
\* pass, or hands it on, holds one verdict of every component and all of them
\* allow it.
HandoffNeedsEveryAllow ==
  last.operation = "validate" /\ last.result = Ok
    /\ (receipt.final_outcome = "ALLOW" \/ receipt.handoff_allowed) =>
    /\ {v.component_id : v \in ToSet(receipt.component_verdicts)} = ComponentIds
    /\ \A v \in ToSet(receipt.component_verdicts) : v.decision = "ALLOW"
=============================================================================
