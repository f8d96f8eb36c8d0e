----------------------------- MODULE AuditChecks -----------------------------
(***************************************************************************)
(* The blocks of checks of verify_v4_receipt_with_audit, from the snapshot *)
(* to the final validation: each is one try block of the function, in the  *)
(* order it makes its checks.                                              *)
(***************************************************************************)
EXTENDS V4Receipt

CONSTANTS
  VerificationTime,       \* the trusted verification_time argument
  MinimumRegistryVersion, \* the trusted registry floor
  MaxRegistryEntries,     \* MAX_TRUSTED_REGISTRY_ENTRIES
  MaxVerificationCalls,   \* MAX_VERIFICATION_CALLS
  MaxPqcCalls             \* MAX_PQC_VERIFICATION_CALLS

ASSUME LimitsAssumption ==
  /\ VerificationTime \in Nat
  /\ MaxRegistryEntries \in Nat
  /\ MaxVerificationCalls \in Nat
  /\ MaxPqcCalls \in Nat

\* _require_complete_bundle_budgets
BundleBudgetsVerdict(r) ==
  LET verdicts == r.component_verdicts
      Sized(bundle) == WithinBudget(Len(bundle.signatures) \in 2..3)
  IN  FirstFailure(<<
        WithinBudget(Len(verdicts) = Len(Components)),
        FirstFailure([i \in DOMAIN verdicts |-> FirstFailure(<<
          Demand(/\ verdicts[i].component_id \in ComponentIds
                 /\ \A j \in 1..(i - 1) :
                      verdicts[j].component_id # verdicts[i].component_id, {}),
          Sized(verdicts[i].signature_bundle) >>)]),
        Sized(r.signature_bundle) >>)

\* _require_loaded_registry_budget: the registry object is taken apart and loaded anew.
RegistryBudgetVerdict(g) ==
  FirstFailure(<<
    Demand(g.entries # <<>>, {"registry"}),
    WithinBudget(Len(g.entries) <= MaxRegistryEntries),
    Demand(g.schema = "shield.key_registry.v1", {"key", "registry", "schema"}),
    LoadRegistryVerdict(g) >>)

\* snapshot_bounded_receipt: the limits on the receipt's JSON graph.
GraphVerdict(r) == WithinBudget("graph" \notin r.faults)

\* The first try block: snapshot, field set, budgets, registry and its floor.
SnapshotVerdict(r, g) ==
  FirstFailure(<<
    GraphVerdict(r),
    Demand("fields" \notin r.faults, {"field", "schema"}),
    BundleBudgetsVerdict(r),
    RegistryBudgetVerdict(g),
    RegistryFloorVerdict(g, MinimumRegistryVersion) >>)

\* The four binding checks, each with a reason of its own.
BindingVerdict(r) ==
  FirstFailure(<<
    Require(r.request_id = ExpectedRequestId, "V4_REQUEST_MISMATCH"),
    Require(r.schema_version \notin {"shield.receipt.v1"}, "V4_DOWNGRADE_REJECTED"),
    Require(r.schema_version = "shield.receipt.v2", "V4_CONTRACT_INVALID"),
    Require(r.context_hash = ExpectedContextHash, "V4_CONTEXT_MISMATCH"),
    Require(r.signature_policy = "policy.v1", "V4_POLICY_INVALID") >>)

HeaderVerdict(r, g) ==
  LET Field(name, words) == Demand(name \notin r.faults, words)
  IN  FirstFailure(<<
        Field("contract_version", {"contract"}),
        Field("canonicalization_profile", {"profile"}),
        Field("fail_closed", {}),
        Demand(r.key_registry_version = g.registry_version, {"key", "registry"}) >>)

\* The body of the component loop.
PrepareComponentVerdict(c, g) ==
  FirstFailure(<<
    ComponentPayloadVerdict(c),
    ComponentContextVerdict(c),
    ComponentRegistryVerdict(c, g),
    FreshnessVerdict(VerificationTime, c.not_before, c.not_after),
    PrepareVerdict(c.signature_bundle, c.component_id, g, VerificationTime,
                   c.not_before, c.not_after) >>)

\* Mutant: the plan is not held against the call budgets.
PlanUnbudgeted(plan) == Ok

\* require_planned_call_budget
PlanBudgetVerdict(plan) ==
  WithinBudget(/\ Cardinality(plan) <= MaxVerificationCalls
               /\ Cardinality({t \in plan : t[2] \in PqcAlgorithms}) <= MaxPqcCalls)

\* _validate_prehashed_plan and _validate_complete_plan: the plan is a set, so
\* it holds no callback twice.  Their messages differ in a prefix, `words`.
PlanVerdict(plan, words) ==
  FirstFailure(<<
    Demand({t[1] : t \in plan} = Artifacts, words),
    Demand(\A a \in Artifacts : Cardinality({t \in plan : t[1] = a}) \in 2..3,
           words \cup {"signature"}),
    PlanBudgetVerdict(plan) >>)

PrepareReceiptVerdict(r, g, plan) ==
  FirstFailure(<<
    FreshnessVerdict(VerificationTime, r.not_before, r.not_after),
    PrepareVerdict(r.signature_bundle, Orchestrator, g, VerificationTime,
                   r.not_before, r.not_after),
    PlanVerdict(plan, {"hash"}) >>)

\* The canonical sizes of the bundles and of the receipt.
ByteBudgetVerdict(r) == WithinBudget("bytes" \notin r.faults)

\* The payload block: semantics, prepared results, byte budgets, then hashes.
PayloadVerdict(r) ==
  LET verdicts == r.component_verdicts
  IN  FirstFailure(<<
        ReceiptSemanticsVerdict(r),
        Demand(r.component_signature_results = ExpectedSignatureResults(verdicts), {}),
        ByteBudgetVerdict(r),
        Demand(r.receipt_hash = "own", {"hash"}),
        SignedHashVerdict(r),
        FirstFailure([i \in DOMAIN verdicts |-> SignedHashVerdict(verdicts[i])]) >>)

\* The dry run of the real validators over one-shot tokens, none left over.
DryRunVerdict(r, g, plan) ==
  FirstFailure(<<
    PlanVerdict(plan, {}),
    ComponentListVerdict(r.component_verdicts, g, VerificationTime, plan),
    ReceiptEnvelopeVerdict(r, g, VerificationTime, plan),
    Demand(plan \subseteq Tokens(r), {}) >>)

\* The same validators again, over the callbacks' results.
FinalVerdict(r, g, plan) ==
  FirstFailure(<<
    ComponentListVerdict(r.component_verdicts, g, VerificationTime, plan),
    Demand(r.component_signature_results = ExpectedSignatureResults(r.component_verdicts),
           {"signature", "contract"}),
    ReceiptEnvelopeVerdict(r, g, VerificationTime, plan),
    Demand(plan \subseteq Tokens(r), {}) >>)
=============================================================================
