---------------------------- MODULE EvidenceChain ----------------------------
(***************************************************************************)
(* The life of v4 evidence outside the audited verifier: components sign   *)
(* verdicts, the Orchestrator verifies them and signs a receipt, and a     *)
(* consumer calls the validators of the library itself, while time passes  *)
(* and the key registry is rotated.                                        *)
(*                                                                         *)
(* Verdicts and receipts are those of V4Receipt; a verdict also says       *)
(* whether its component_id carries surrounding white space (`padded`,     *)
(* component_id being the id without it) and whether its signatures are    *)
(* its component's (`genuine`).                                            *)
(***************************************************************************)
EXTENDS V4Receipt

CONSTANTS
  Registries,   \* the registries in force one after the other
  Submissions,  \* lists of verdicts components may submit, per registry version
  Windows,      \* [not_before, not_after] a receipt may be given
  MaxClock,     \* bound of the model: the last instant
  None          \* no receipt

VARIABLES
  clock,        \* the trusted verification time
  epoch,        \* which registry is in force
  verdicts,     \* the signed component verdicts that were submitted
  receipt,      \* the receipt last built
  last          \* the last operation and how it ended

vars == <<clock, epoch, verdicts, receipt, last>>

registry == Registries[epoch]

\* What a component may submit: a verdict of a known component, with a bundle of
\* signatures.  (What is no such thing is refused before anything is read of it.)
IsSubmitted(verdict) ==
  /\ verdict.component_id \in ComponentIds
  /\ verdict.padded \in BOOLEAN /\ verdict.genuine \in BOOLEAN
  /\ verdict.faults \subseteq VerdictFaults
  /\ IsListing(verdict.signature_bundle.signatures)
  /\ HasKnownFaults(verdict.signature_bundle)

IsSubmission(list) == IsListing(list) /\ \A i \in DOMAIN list : IsSubmitted(list[i])

\* What is submitted are such lists, and a registry is a list of keys.
ASSUME ChainAssumption ==
  /\ MaxClock \in Nat
  /\ IsListing(Registries) /\ Registries # <<>>
  /\ \A e \in DOMAIN Registries :
       /\ IsListing(Registries[e].entries)
       /\ Registries[e].registry_version \in DOMAIN Submissions
  /\ \A version \in DOMAIN Submissions : \A list \in Submissions[version] : IsSubmission(list)

\* A registry that replaces another has a version of its own: the version is all
\* that ties a verdict or a receipt to a registry.
ASSUME RotationAssumption ==
  \A d, e \in DOMAIN Registries :
    Registries[d].registry_version = Registries[e].registry_version => d = e

-----------------------------------------------------------------------------
\* sorted(list, key): in the order of the keys, elements of one key in the order
\* they had.
SortedBy(list, key) ==
  LET Before(i) == {j \in DOMAIN list : key[j] < key[i] \/ (key[j] = key[i] /\ j < i)}
      At(k)     == CHOOSE i \in DOMAIN list : Cardinality(Before(i)) = k - 1
  IN  [k \in DOMAIN list |-> list[At(k)]]

-----------------------------------------------------------------------------
\* build_test_component_signature_entry, and for the receipt
\* build_test_only_orchestrator_signature_entry: a key for each algorithm.
SignatureEntry(artifact, algorithm, version) ==
  [ faults |-> {}, algorithm |-> algorithm, key |-> <<algorithm, version>>,
    signed_payload_hash |-> "own", domain |-> DomainTag(artifact) ]

\* build_signature_bundle: entries in policy order, however they come.
Bundle(entries) ==
  [ faults |-> {},
    signatures |-> SortedBy(entries,
                     [i \in DOMAIN entries |-> AlgorithmRank(entries[i].algorithm)]) ]

\* What verify_test_only_component_signature answers: genuine entries verify.
AcceptedOf(verdict) == IF verdict.genuine THEN Algorithms ELSE {}

\* verify_component_verdicts, of a registry its caller has loaded or passes as a
\* dict.  Everything about a verdict is read with its id
\* stripped, but two verdicts are duplicates when their ids are the same text.
ComponentsVerdict(list, g, now) ==
  FirstFailure(<<
    Demand(Len(list) = Len(Components), {}),
    LoadRegistryVerdict(g),
    FirstFailure([i \in DOMAIN list |-> FirstFailure(<<
      ComponentEnvelopeVerdict(list[i], g, now, AcceptedOf(list[i])),
      Demand(\A j \in 1..(i - 1) : <<list[j].component_id, list[j].padded>>
                                     # <<list[i].component_id, list[i].padded>>, {}) >>)]) >>)

\* An id with white space after it comes next to the id without.  (White space in
\* front would sort before every id, and is not modelled.)
IdRank(verdict) == 2 * ArtifactRank(verdict.component_id) + (IF verdict.padded THEN 1 ELSE 0)

\* Its result: verdicts and summaries in the order of their ids.
InOrder(list) == SortedBy(list, [i \in DOMAIN list |-> IdRank(list[i])])

SummaryOf(verdict) == Summary(verdict.component_id, verdict.padded, verdict.signature_bundle)

\* Mutant: the verdicts are sorted, their summaries are not.
SummariesAsSubmitted(list) == [i \in DOMAIN list |-> SummaryOf(list[i])]

Summaries(list) == [i \in DOMAIN list |-> SummaryOf(InOrder(list)[i])]

\* The Orchestrator's own signatures on a receipt.
OwnBundle(request) ==
  LET algorithms == IF request.include_optional_fn_dsa
                    THEN <<"classical-ed25519", "ml-dsa", "fn-dsa">>
                    ELSE <<"classical-ed25519", "ml-dsa">>
  IN  Bundle([i \in DOMAIN algorithms |-> SignatureEntry(Orchestrator, algorithms[i], 1)])

\* The envelope the Orchestrator signs: build_unsigned_receipt_payload, then
\* build_signed_receipt_envelope around its own signatures.
ReceiptOf(list, g, request) ==
  [ faults                      |-> {},
    schema_version              |-> "shield.receipt.v2",
    request_id                  |-> ExpectedRequestId,
    context_hash                |-> ExpectedContextHash,
    signature_policy            |-> "policy.v1",
    key_registry_version        |-> g.registry_version,
    not_before                  |-> request.window.not_before,
    not_after                   |-> request.window.not_after,
    component_verdicts          |-> InOrder(list),
    component_signature_results |-> Summaries(list),
    final_outcome               |-> ExpectedFinalOutcome(list),
    handoff_allowed             |-> request.handoff_allowed,
    receipt_hash                |-> "own",
    signed_payload_hash         |-> "own",
    signature_bundle            |-> OwnBundle(request) ]

\* Mutant: the receipt is not held against the version of the registry.
EnvelopeOfAnyVersion(r, g, now) ==
  FirstFailure(<<
    LoadRegistryVerdict(g),
    ReceiptEnvelopeVerdict([r EXCEPT !.key_registry_version = g.registry_version],
                           g, now, Tokens(r)) >>)

\* Mutant: only the signatures of the receipt are looked at, not what it says.
EnvelopeOfSignatures(r, g, now) ==
  FirstFailure(<<
    LoadRegistryVerdict(g),
    Demand(r.key_registry_version = g.registry_version, {"key", "registry"}),
    BundleVerdict(r.signature_bundle, Orchestrator, "own", g, now,
                  r.not_before, r.not_after, Algorithms) >>)

\* validate_receipt_envelope, of a receipt nobody has touched, after the caller has
\* loaded the registry.  (The function also takes the dict, and then loads it just
\* before it compares the versions: the same registries and receipts pass.)
EnvelopeVerdict(r, g, now) ==
  FirstFailure(<<LoadRegistryVerdict(g), ReceiptEnvelopeVerdict(r, g, now, Tokens(r))>>)

\* The checks of build_test_only_signed_v4_receipt: the verdicts are verified, then
\* taken for a receipt, and what was signed is validated before it is returned.
BuildVerdict(list, built, g, now) ==
  FirstFailure(<<
    ComponentsVerdict(list, g, now), ReceiptListVerdict(list), EnvelopeVerdict(built, g, now) >>)

-----------------------------------------------------------------------------
Init ==
  /\ clock = 0 /\ epoch = 1
  /\ verdicts = <<>> /\ receipt = None
  /\ last = [operation |-> "none", result |-> Ok]

\* External: time passes.
Tick ==
  /\ clock < MaxClock /\ clock' = clock + 1
  /\ last' = [operation |-> "none", result |-> Ok]
  /\ UNCHANGED <<epoch, verdicts, receipt>>

\* External: the next registry comes into force.
Rotate ==
  /\ epoch < Len(Registries) /\ epoch' = epoch + 1
  /\ last' = [operation |-> "none", result |-> Ok]
  /\ UNCHANGED <<clock, verdicts, receipt>>

\* External: the components sign, in their own processes.  The code keeps nothing
\* from one call to the next, so a behaviour of the model stops at one receipt.
Submit ==
  /\ receipt = None
  /\ verdicts' \in Submissions[registry.registry_version]
  /\ last' = [operation |-> "none", result |-> Ok]
  /\ UNCHANGED <<clock, epoch, receipt>>

VerifyComponents ==
  /\ last' = [operation |-> "components", result |-> ComponentsVerdict(verdicts, registry, clock)]
  /\ UNCHANGED <<clock, epoch, verdicts, receipt>>

\* What the Orchestrator is asked to sign, and what becomes of it.
Requests == [window : Windows, handoff_allowed : BOOLEAN, include_optional_fn_dsa : BOOLEAN]

\* Mutant: the receipt is signed, and only then are the components verified.
SignThenVerify ==
  /\ verdicts # <<>>
  /\ \E request \in Requests :
       /\ receipt' = ReceiptOf(verdicts, registry, request)
       /\ last' = [operation |-> "build", result |-> Ok]
  /\ verdicts' = <<>>
  /\ UNCHANGED <<clock, epoch>>

\* build_test_only_signed_v4_receipt.  The verdicts live on inside the receipt.
Build ==
  /\ verdicts # <<>>
  /\ \E request \in Requests :
       LET built  == ReceiptOf(verdicts, registry, request)
           result == BuildVerdict(verdicts, built, registry, clock)
       IN  /\ last' = [operation |-> "build", result |-> result]
           /\ receipt' = IF result = Ok THEN built ELSE receipt
           /\ verdicts' = IF result = Ok THEN <<>> ELSE verdicts
  /\ UNCHANGED <<clock, epoch>>

Validate ==
  /\ receipt # None
  /\ last' = [operation |-> "validate", result |-> EnvelopeVerdict(receipt, registry, clock)]
  /\ UNCHANGED <<clock, epoch, verdicts, receipt>>

Next == Tick \/ Rotate \/ Submit \/ VerifyComponents \/ Build \/ Validate

Spec == Init /\ [][Next]_vars
=============================================================================
