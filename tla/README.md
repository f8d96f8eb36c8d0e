# Shield Orchestrator, verified

TLA+ models of the DGB Quantum Immune Shield orchestrator (`src/shield_orchestrator`),
the TLC runs that check them, and theorems about them checked by TLAPS. Source paths
below are relative to `src/shield_orchestrator/`; `VA` is `v4/verification_audit.py`.

## 1. The system

The orchestrator collects the verdicts of five Shield components (ADN, DQSN, Guardian
Wallet, QWG, Sentinel AI), combines them into one fail-closed outcome, and in v4 binds
them with hybrid signatures (Ed25519, ML-DSA, optionally FN-DSA): one signed bundle per
component and one around the whole receipt. `verify_v4_receipt_with_audit` is the entry
point for consumers of a receipt: it verifies all six bundles and returns the receipt only
after a durable audit batch has been acknowledged.

| part | state it keeps | operations | correct when |
|---|---|---|---|
| audited verifier, `VA` | per call: receipt and registry snapshots, callback plan, work counter, event buffer | one call: blocks of checks, waves of callbacks, append, conclude | only admissible chains reach the backend; what the caller is told is backed by a durable batch that says the same |
| work budgets, `v4/work_budget.py` | callback counter | bounded snapshot, counts, byte limits, callback counter | limits hold before work is done; the counter never refuses work that was planned |
| key registry, `v4/key_registry.py` | none (immutable registry objects) | load, floor, `find_key` | each identity once; a key is used only while active and in its window |
| signature bundles, `v4/signature_bundle.py`, `v4/crypto_algorithms.py` | none | shape, two loops of `verify_signature_bundle` | required algorithms, policy order, distinct keys, the hash and domain of the artifact |
| component verdicts, receipts, `v4/component_verdicts.py`, `v4/contracts/v4_receipt.py` | none | envelopes, semantics, builders | five distinct components, outcome and summaries derived from them |
| canonical JSON, `v4/canonical_json.py` | none | encode, hash | one byte string per payload, domains never mixed |
| evidence producer, `v4/orchestrate.py` | none | verify components, assemble, sign, validate | what it builds, its consumers accept, as long as the keys are trusted |
| crypto backend and OQS adapters, `v4/real_crypto_backend.py`, `v4/oqs_*` | key material, adapters | sign, verify | an entry verifies only as what was signed; a missing or failing library never verifies |
| v3 orchestration and bridges, `v3/`, `bridges/` | locals of one call, the caller's payload | bind the request, evaluate each component, build the receipt, report, answer, two error handlers | every component votes once; any error or missing component denies; a receipt validates against the hash it is answered with, and a computed hash covers what every engine was handed |
| v3.2 receipts, `v3/contracts/v3_2_receipt.py` | none | validate a verdict, build and validate a receipt | what a consumer accepts is derived from the verdicts in it |
| legacy pipeline, `pipeline.py` | none | run layers in order | no state worth a model |

Interactions. A *caller* passes the receipt object, the loaded registry and trusted
arguments. Two verifier callbacks are the *backend*; each signature is one call to one of
them. An *audit sink* gets one `append_batch` per call. Everything inside a call is
synchronous and sequential, so the concurrency is all at these three boundaries: the
caller (or a callback) may change the receipt object while the call runs; a callback may
answer, refuse, raise or return nonsense; the sink may store, lose, truncate, or
misreport; and the process may die between any two steps. The code has no timeouts and no
retries: both belong to its caller, who may call again.

v3 `orchestrate` has the same shape one layer up: the caller owns the request's payload, the
component engines are handed objects of it, and the bridges between them read it again one
after the other. The two generations share no state and do not call each other; each is a
composition of its own here, v3 over its receipts, v4 over registry, bundles and receipt.

## 2. Modules

| module | models | content |
|---|---|---|
| `ShieldPolicy` | constants, `policy.v1`, `_classify_error` | vocabulary; a check is a value, `Ok` or the reason its error is classified as; `FirstFailure` is a block of checks that stops at the first that raises |
| `KeyRegistry` | `v4/key_registry.py` | `LoadRegistryVerdict`, `RegistryFloorVerdict`, `FindKeyVerdict` |
| `SignatureBundle` | `v4/signature_bundle.py`, freshness and preparation in `VA` | `BundleVerdict`, `FreshnessVerdict`, `PrepareVerdict` |
| `V4Receipt` | `v4/component_verdicts.py`, `v4/contracts/v4_receipt.py` | envelopes, semantics, expected outcome and summaries |
| `AuditChecks` | the `try` blocks of `verify_v4_receipt_with_audit`, `v4/work_budget.py` | one verdict per block, from the snapshot to the final validation |
| `Admission` | - | reference definition: a chain whose signatures are worth checking |
| `VerificationAudit` | `verify_v4_receipt_with_audit` and its helpers | the state machine of the audited verifier |
| `BoundedSnapshot` | `snapshot_bounded_receipt` of `v4/work_budget.py` | the copy the verifier begins with, step by step, over a graph its owner changes |
| `EvidenceChain` | `v4/orchestrate.py`, test-only signers, the validators of `V4Receipt` | producer and consumers of v4 evidence under time and registry rotation |
| `OqsBackend`, `RealCryptoBackend` | `v4/oqs_*_backend.py`; `v4/real_crypto_backend.py` | the library's failures; signing, transport and verification of entries |
| `V32Receipt`, `ReceiptExchange` | `v3/contracts/v3_2_receipt.py` | verdicts, classification, `BuiltReceipt`, `ValidReceipt`; a receipt from producer to consumer |
| `V3Orchestrate` | `v3/orchestrate.py`, `bridges/` | the call of `orchestrate` |
| `AuditProperties`, `SnapshotProperties`, `ChainProperties`, `RealCryptoProperties`, `V3Properties` | - | what each machine must satisfy: reference definitions, invariants, refinement mappings, liveness |
| `EvidenceGate` | - | abstract specification of the verifier: decide, offer to a log, announce only what the log holds |
| `DecisionGate` | - | abstract specification of v3 orchestration: every voter votes once, a favourable decision needs every vote |
| `MCAudit`, `MCEdits`, `MCSnapshot`, `MCChain`, `MCCrypto`, `MCReceipts`, `MCOrchestrate` | - | inputs of the runs |
| `CheckProofs`, `AuditProofs` | - | proofs about the verdict operators, about `VerificationAudit` and its callbacks |
| `ChainProofs` | - | proofs about `EvidenceChain`, and about sorting |
| `V32Proofs` | - | lemmas about `V32Receipt`: sorting by ranks, classification, the built receipt |
| `ReceiptProofs`, `OrchestrateProofs`, `SnapshotProofs`, `RealCryptoProofs` | - | proofs about `ReceiptExchange`, `V3Orchestrate`, `BoundedSnapshot`, `RealCryptoBackend` |

`VerificationAudit` EXTENDS `AuditChecks`, which EXTENDS `V4Receipt`, `SignatureBundle`,
`KeyRegistry` and `ShieldPolicy`; `EvidenceChain` EXTENDS the same `V4Receipt`, so the producer
and the audited verifier are held against one translation of the validators, and the lemmas of
`CheckProofs` serve both. The verdict operators take the registry and the time as parameters, as
the functions do: the audited verifier passes its trusted `verification_time`, the chain its clock.
`V3Orchestrate` and `ReceiptExchange` EXTEND `V32Receipt`. `AuditProperties` and `V3Properties`
instantiate their gates with a refinement mapping.

### State and actions of `VerificationAudit`

The variables are the local variables of a call (`receipt`, `registry`, `prepared` for
`prehashed`/`plans`, `pending` for the callbacks not made yet, `work` for the counter,
`events`), the control point `pc`, the reason the call has decided on (`verdict`), the
caller's own objects, what the caller was told (`result`), and two observers of the
outside: `backend`, the callbacks really made in this call with their answers, and
`store`, the batches the sink made durable.

| action | code in `VA` |
|---|---|
| `Call`, `CallWithBadArguments` | 886-908: trusted arguments; an error here raises with no batch |
| `TakeSnapshot` | 910-924: bounded snapshot, field set, bundle counts, registry reload, floor |
| `CheckBindings` | 926-953: request, schema, context, policy, each with a reason of its own |
| `CheckHeader` | 955-966 |
| `PrepareComponent` | 967-992, one iteration of the loop |
| `PrepareReceipt` | 993-1011, with `_validate_prehashed_plan` |
| `CheckPayload` | 1013-1074: semantics, prepared results, byte limits, hashes |
| `DryRun` | 1076-1134: the real validators over one-shot tokens |
| `RunCallback` | 767-828 and 1136-1151, one callback |
| `FinalValidation` | 1153-1207: the validators again, over the callbacks' results |
| `AppendBatch`, `Conclude` | 831-869, 1208-1210: hand over, compare the acknowledgement, return or raise |
| `CallerOverwrites`, `Crash` | the environment |

Each action is a whole block of the function: its checks in source order, the rejection
that a failed check leads to (`RejectPreflight`), and the assignments it makes.

### State and actions of `BoundedSnapshot`

`stack` is the open calls of `visit`, `active_containers`, `node_count` and `scalar_bytes` are
the traversal's own variables, `snapshot` is the copy written in pre-order, `heap` is the
caller's graph. One step is one turn of an innermost loop.

| action | code in `v4/work_budget.py`, 78-146 |
|---|---|
| `Start` | the first call of `visit` |
| `VisitEntry` | the next entry of a list or dict, key checked and counted before the value is visited |
| `LeaveContainer` | an exhausted container, its `finally`, the return of the last one |
| `IterationBreaks` | a dict whose size changed: its iterator raises |
| `Mutate` | the owner, on another thread |

### State and actions of `V3Orchestrate`

The variables are the locals of `orchestrate` (`request_id`, `context_hash`, `verdicts`,
`error`, `receipt`, `sink`), those of the running bridge (`bound`), the caller's `header` and
`payload`, and observers: what each bridge met (`answers`), the payloads engines were
consulted about (`seen`), whether the caller interfered (`disturbed`).

| action | code |
|---|---|
| `ValidateRequest`, `BindRequest` | `v3/orchestrate.py` 44-53, `_validate_request`, `receipt_request_id`, `receipt_context_hash` |
| `BindVerdict` | `evaluate_v3` of a bridge before the engine: id and hash computed again |
| `ConsultEngine` | the engine, `_normalized_decision`, `_build_verdict`, the append |
| `ReplacedBridge` | `_normalize_bridge_result` of what is no v3.2 verdict |
| `Synthesize` | `build_receipt` |
| `Report` | `AdaptiveCoreBridge.report_v3` and the handler around it |
| `Respond` | `_response_from_receipt` |
| `FailClosed` | both exception handlers, which hash the request again and may raise |
| `MutatePayload` | the caller, on another thread |

### State and actions of the other machines

`EvidenceChain`: `Submit` (components sign), `VerifyComponents` (`verify_component_verdicts`),
`Build` (`build_test_only_signed_v4_receipt`: verify, assemble, sign, validate what was
signed), `Validate` (`validate_receipt_envelope`), `Tick` and `Rotate` (time, registry). The
code keeps nothing from one call to the next, so a behaviour stops at one receipt.

`RealCryptoBackend`: `Sign` (`build_signature_entry_with_real_backend`), `Splice` (the entry's
way: one field or the signature exchanged), `Verify` (`verify_signature_entry_with_real_backend`).
Each call meets its own state of liboqs.

`ReceiptExchange`: `Build`, `Change` (one field exchanged, the hash made to fit or not),
`Validate`.

### What is abstracted

- A check that looks at one field alone (a missing field, a wrong constant, an ill-typed
  value) is a name in the `faults` of its record; a check that relates fields, or a field
  and an argument, is modelled with their values. Each check keeps its place in the order
  and the classifier words of its message, so the reason of a rejection is computed as in
  the code.
- A stored hash is `"own"` (equals the recomputed, domain-separated hash of its payload) or
  `"other"`. Hash collisions and the byte layout of canonical JSON are out.
- Keys are identities (`key_id` with `key_version`), times are naturals.
- A component's signing role is named by the component: `COMPONENT_ROLES` is one-to-one.
- A cached result is keyed by artifact and algorithm; entry identity and key add nothing,
  as a bundle has one entry per algorithm by then. It is given once: `Remaining` takes from the
  cache what the bundles before have asked for.
- The words by which a message is classified are inputs of the model, translated message by
  message. The two validators of a plan word their messages differently, and each has its own
  words. No property says which words there should be; they decide the reasons that the log and
  the caller are given, and of these only `work_order` distinguishes some.
- `EnvelopeVerdict` loads the registry first, while `validate_receipt_envelope` of a registry that
  is a dict loads it after the header and payload checks: which reason wins between a bad registry
  and a bad receipt is not told apart, since its properties ask only whether all checks pass.
- The optional `verification_summary` of an input is left out: it is replaced on return.
- In `VerificationAudit` the snapshot of the receipt is one step and its limits are one fault,
  `"graph"`; `BoundedSnapshot` models the copy itself. A copy taken while the owner writes may
  be a mixture of old and new; the verifier treats it as any other receipt.
- An audit record's byte limit (2048) is not modelled: every variable-length text in a
  record is a hash or has a fixed set of values. The record count limit is.
- The backend and the sink answer. The code waits for them without a timeout.
- `V3Orchestrate`: a payload is its request id, its context hash, the components it has an
  input for and a word for the rest of it, which tells apart what `asdict`, canonical JSON and
  UTF-8 do with it. Hashes are injective constructors. `BindRequest` reads request id and
  context hash in one step, as `BindVerdict` does; a caller on another thread could come
  between. An engine's computation is its answer. Trace entries are left out except for the
  status of the sink, and with them the hash over the trace (`v3/orchestrate.py:113-123`), which
  is computed and dropped: all it hashes is text the call wrote itself, so it does not raise.
- Text the code strips before it compares is [name, padded], padded by white space after it
  (in front of it, it would sort before every name); a lone surrogate stands for every string
  without a UTF-8 encoding.
- `RealCryptoBackend`: signatures are ideal (only the holder of a secret signs under it, and a
  signature is good for one message); base64url is abstracted to malformed, oversized and the
  length after decoding. A key id is its lines, because the signed message is a join of lines.
- `EvidenceChain`: a verdict says whether its signatures are its component's (`genuine`); the
  test-only signing scheme behind that is one digest and is left out.

## 3. Runs

| run | question | bounds | distinct states |
|---|---|---|---|
| `edits` | do the ordered checks let through exactly the admissible chains (`AdmissionIsExact`); is every batch well formed (`BatchGrammar`) | two components; every receipt and registry at most one field away from two admissible receipts, all outcomes against all decisions, all bundles against all summaries | 535 668 |
| `five` | waves, counters, log against the backend's story | five components, the code's limits 18/12/24/64, FN-DSA in any subset of the six bundles, every answer | 53 314 |
| `retry` | types, evidence before release or rejection, the receipt returned is the one verified, counters at their limits, refinement of `EvidenceGate`, every call ends | two components, two calls, receipts of 7, 8 and 9 callbacks against limits of 8 callbacks, 5 post-quantum and 9 records, one overwriting receipt, all sink answers, crashes | 90 185 |
| `graphs` | is a graph copied exactly when the tree it unfolds to fits (`SnapshotIsExact`) | all graphs of three containers with at most two entries each; depth 3, 6 nodes, 5 bytes | 354 384 |
| `moving` | budgets, cycle check and end of the copy while the owner writes; every turn uses up one of a bounded number (`TurnsAreBounded`) | two containers, lists and dicts of up to 4 entries exchanged at any step; depth 3, 4 nodes, 6 bytes | 128 749 |
| `chain` | is what the producer hands out acceptable to its consumers; does what is accepted rest on trusted evidence | two components, eight kinds of verdict each (one out of the ordinary per list), two windows, three registries, six instants | 12 216 |
| `crypto` | do entries verify exactly as what was signed | two entries signed of 17 requests, one change, ten keys, seven states of liboqs, Falcon (the mechanism with variable lengths) | 51 360 |
| `receipts` | what a v3.2 consumer accepts; round trip; order of submission | three components, all combinations of decisions in two orders, eight defects of a list, one field changed in transit, rehashed or not | 799 565 |
| `requests` | is the outcome of a call the one an order-free reference gives, and when does it raise (`OutcomeIsExact`) | three bridges, 14 headers, 90 payloads, eleven kinds of answer | 297 629 |
| `bridges` | what a receipt's hash vouches for, refinement of `DecisionGate`, every call ends, a receipt is returned | two bridges, six payloads (two contents without a hash of their own, two under one they name, two unfit ones) exchanged at any step by engines or caller, four kinds of answer | 389 523 |
| `work_order` | the documented work order, refuted | as `edits` | - |
| `deny_padded` | "a component that denies dominates", refuted | three components, a padded decision or id | - |

Why the bounds are enough. Two components already distinguish first from last, component
from receipt, and one bundle's defect from another's; nothing in the v4 code depends on there
being five except the counts, which `five` checks at their real values. One edit at a time
reaches every check with all earlier ones passing; the combined edits cover the checks that
compare two fields. Two calls are enough for an answer of the sink that belongs to another
batch, and for a retry after a lost acknowledgement. Three v3 components give a majority, a
tie-breaker and a bridge on either side of the one that fails; `bridges` needs only a before
and an after. Three containers are enough for a cycle of three, for sharing at different
depths and for a path of the full depth. Three registries are one for each kind of rotation:
everything trusted, a component's key exchanged, the Orchestrator's revoked. `MaxAttempts`,
`MaxCalls`, `MaxClock`, `MaxIssued` and `MaxSplices` bound the model, each in the guard of one
action; all other limits are limits of the code.

What the properties say is stated at each in the properties modules. Those that carry most:
`AdmissionIsExact` compares seven blocks of ordered, early-returning checks with a
definition that has no order at all, in both directions; `ImplementsGate` says that the
whole verifier is one step of decision, one offer, one announcement, with the log holding
exactly the announced batch; `OutcomeIsExact` and `SnapshotIsExact` compare a machine with
early exits and error handlers with a definition that has neither; `EvidenceStaysTrusted`
says that although validating a receipt looks at one bundle only, a registry rotation that
revokes a component's key takes every older receipt with it; `ReceiptVouchesForItsHash` says
what the context hash of an answer is worth, although every bridge reads the payload anew and an
engine may have changed it: if the hash was computed, every engine was handed the very payload
that was hashed, unless the caller itself interfered. If the payload names its hash, as
`receipt_context_hash` recommends, the code does not look at the content, and engines may have
been consulted about two contents under one receipt: then the property says only that the receipt
validates against the name, and the run has such payloads.

Fairness. `FairSpec` of `VerificationAudit`, `V3Orchestrate` and `BoundedSnapshot` is weak
fairness of `Step`, the disjunction of the call's own steps: Python runs the function to its
end, given that backend, sink and engines answer. Nothing is assumed of the caller or the
owner of a graph, and a crash may end a call of the verifier as well. `CopyEnds` is more than
fairness: a list may grow for ever and faster than it is read, and only the budgets stop the copy.
`TurnsAreBounded` is what makes it so without any fairness: each turn of the copy leaves fewer
turns to take, and no write of the owner gives one back.

Deadlock is checked in every run; `Finished` (`Done`) stutters once a machine has stopped.

### Findings

`work_order` checks what `docs/v4/SHIELD_V4_CONTRACT_INVARIANTS.md` (V4-INV-018, lines
333-341) requires: field sets and entry shapes of all six bundles before any policy,
freshness, floor or key check of any bundle. The code checks registry floor and policy
first and then prepares bundle by bundle, so a malformed field set in a later bundle can be
rejected for the key or the window of an earlier one. No backend callback is made either
way: only the reason differs.

`deny_padded` checks "At least one component verdict denies; the final Shield outcome is
deny" (`docs/v3/REASON_IDS.md:26`). `validate_component_verdict` strips white space before it
compares a decision (`v3_2_receipt.py:228`) but returns the verdict as it came (252), and
`_classify` compares the text as it is (256): a valid verdict with decision `"DENY "` does not
deny. The lists of `receipts` therefore carry no padded decisions; everything else a consumer
checks is checked there.

### Other differences from the documents

Read off the code and modelled as the code behaves, without a run of their own:

- `orchestrate` "never raises uncaught exceptions (errors become DENY)" (`docs/v3/API.md:25`;
  `errors.py:8` says the same). Both handlers hash the request again (`v3/orchestrate.py:148`
  and `174`): `_request_for_hash` copies it whole with `asdict` (231) before it drops the payload,
  and what is left is serialized. A payload that cannot be copied, or a header field that is no
  JSON, raises a second time inside the handler, and `FailClosed` ends the call with `Raised`.
  `OutcomeIsExact` says exactly when: the call met an error, and not `CanBeHashedAgain`.
- `SKIPPED` next to `ESCALATE` gives `HUMAN_REVIEW_REQUIRED` (`v3_2_receipt.py:261-264`); the
  manifest promises "deterministic DENY" for missing verdicts (`v3_2_receipt.py:208`).
- `build_receipt` never compares the request id of a verdict with its own (276), while
  `docs/v3/PROOF_PACK.md:38` says verdicts and receipts are bound to `request_id`. In v4 the
  difference is documented (`docs/v4/SHIELD_V4_VERIFICATION_AUDIT_V1.md`).
- A private key reference is checked for test material when signing, the key id is not
  (`real_crypto_backend.py:268`); `docs/v4/SHIELD_V4_REAL_CRYPTO_BACKEND.md:192-199` lists
  both. Verification refuses such an entry.
- `find_key` compares the verification time with the window of the key, not of the artifact
  (`key_registry.py:157`); "stale receipts" (`docs/v4/SHIELD_V4_CONTRACT_INVARIANTS.md:141-146`)
  are rejected by the audited verifier alone (`VA` 601-610). `validate_receipt_envelope`
  accepts a receipt that is past its window while its keys are in theirs.
- `verify_component_verdicts` compares ids as they came (`component_verdicts.py:262-264`), so
  by itself it lets a padded duplicate stand for a missing component, against
  `docs/v4/SHIELD_V4_THREAT_MODEL.md:325-326`; the producer is saved by the second comparison
  of stripped ids (`v4_receipt.py:131-136`). A single padded id is built into a receipt the
  audited verifier refuses (`VA` 580-598): the exception `BuiltIsAdmissible` names.

## 4. Proofs

Every theorem holds for all values of the constants that meet the assumptions named below.

### The verdict operators: `CheckProofs`

Lemmas about the operators the verifier is built from: a block of checks passes exactly
when all its checks do (`FirstFailureResult`), every verdict of every operator is a reason
of the fixed set, and what a passed block has established.

`THEOREM CheapChecksAreExact`: the seven blocks of ordered, early-returning checks before
the first callback all pass exactly when `Admissible` holds. There is one exactness lemma per
operator (`RegistryExact`, `PrepareExact`, `SemanticsExact`, `DryRunExact` and so on), which
turns a `FirstFailure` into a conjunction; the two directions then go conjunct by conjunct.
What needs an argument: that a registry's `find_key` finds the one entry of an identity
(`FindKeyExact` rests on the uniqueness that loading it checks), that the derived
summaries are the stored ones, and that the plan of a receipt with one verdict per component
and one entry per algorithm names every artifact and stays within the call budgets.

### The audited verifier: `AuditProofs`

`TypeCorrect == Spec => []TypeOK`. `TypeOK` is not inductive: that `PrepareComponent` plans
only known artifacts needs the budget check three blocks earlier, and that `next` stays
inside the verdicts needs its bound. `CallInv` adds what the call knows of its inputs from
block to block. One lemma per action.

`RejectedOnlyWithEvidence == Spec => []RejectedOnlyWithDurableEvidence`. `EvidenceInv` adds: the
last event of a decided batch carries the verdict, and an acknowledgement that passes
`Acknowledges` implies the batch is in the store. The second uses how the sink is modelled: an
acknowledgement that claims durability counts records the sink really stored.

`ReleasedOnlyWithEvidence == Spec => []ReleasedOnlyWithDurableEvidence`. The batch of a returned
receipt must have one passed event per signature, and no block of the call compares the
two. `PlanInv` follows the plan: empty, then one bundle per iteration, then the receipt's
own; when the dry run lets a plan through, it covers every artifact and each component has
one verdict, so it equals `Tokens(receipt)` (`PlanIsTokens`). `LogInv` counts: through the
waves, events plus pending callbacks is planned callbacks plus one, and every event has
passed; nothing is pending at the end, so the terminal makes it the number of signatures
plus two. `EvidenceInv` supplies that the batch is durable. The invariant is
`TypeInv /\ EvidenceInv /\ PlanInv /\ LogInv`.

`BatchesAreWellFormed == Spec => []BatchGrammar`. A batch whose callbacks all passed must not
end in a failed terminal, so the final validation must not fail; `ForeseenInv` says so from
the dry run on (`DryRunForesees`: it makes all checks of the final validation but one,
which the payload block made before it). `GrammarInv` describes the log while callbacks run.

`AdmissionExact == Spec => []AdmissionIsExact`. `AdmissionInv` says at every control point which
blocks have passed, and of a preflight rejection that one has failed; with `PlanInv` the plan
the dry run sees is the one `CheapChecksAreExact` speaks of.

### Its callbacks, in the same module

These follow what the backend is asked, under the invariant `AccountInv`: the ones above, and
`BackendInv` (the tokens asked are the planned ones no longer pending, each asked once, all
answered True for this receipt's nonce), `WorkInv` (the counter equals the callbacks made; made
and pending together are the plan, which is within the limits) and `OrderInv` (whatever was asked
comes before whatever is pending).
- `ReturnedWasVerified` (`ReturnedReceiptWasVerified`): the waves end with nothing pending, so the
  tokens asked are the plan, and the plan equals `Tokens(receipt)`.
- `CounterNeverTrips` (`WorkIsAccounted`): the counter is below the plan while a token is pending,
  and the plan was held against the limits in the dry run.
- `CallbacksComeInWaves` (`WaveDiscipline`): ranks are injective (`RanksAreNames`), so the order of
  the sort key is strict inside a wave.
- `LogMatchesBackend` (`AuditMatchesBackend`): a call that runs its callbacks has one event more
  than callbacks made (`LogInv`), so the event a callback appends is the next one; an answer that
  ends the call appends its terminal behind it, which is no signature event.
- `EvidenceGateImplemented` (`Spec => ImplementsGate`): every step maps to one of `EvidenceGate`
  or to none. That `RunCallback` never jumps to `"idle"` past the gate is `WorkInv`; that `Release`
  and `Reject` announce a held batch that says the same is `EvidenceInv`.

Assumptions: `ComponentsAssumption` (distinct names, none of them the orchestrator's),
`LimitsAssumption` and `BoundsAssumption` (limits are naturals, `None` is no input),
`InputsAssumption` (arrays are sequences) and `TypingAssumption` (instants are naturals, a
fault is one of those the checks look for). The last two are what JSON and the parsing of
time stamps give; without the last, `Admissible`, which asks for no faults at all, would be
stronger than checks that look for the known ones.

### The producer and its consumers: `ChainProofs`

The four invariants of the run `chain`, for any registries, any submissions, any windows and any
clock. Validating a receipt looks at one bundle, so what the properties say of the component
bundles has to be remembered from the time the receipt was built. The inductive invariant is
`TypeOK /\ Held /\ Rooted`: `Held` says that the receipt is made of lists of submitted verdicts,
summaries and signatures (so that the operators applied to it long after mean what they should),
`Rooted` that its verdicts were genuine and their keys trusted under some registry of the version
the receipt names. Only `Build` has to establish it; time and rotations leave it alone, because it
names no registry in force.
- `ChainTypes` (`TypeOK`): a receipt that was built holds exactly one verdict of every component,
  whatever list was submitted, which takes the counting of `ReceiptListIsComplete`.
- `BuiltReceiptsAreAdmissible` (`BuiltIsAdmissible`): the producer sorts verdicts and summaries
  apart from each other, and a verifier derives the summaries again from the sorted verdicts. Both
  sorts are `SortedBy`; an element's place is the number of elements before it, these are different
  for different elements (`BeforeGrows`), so a sort is a permutation that keeps the order of the keys
  (`SortPlaces`, `OrderPermutes`), and verdicts that verify in one order verify in the other
  (`OrderVerifies`, `OrderIsCanonical`, `SummariesExpected`).
- `EvidenceIsStillTrusted` (`EvidenceStaysTrusted`): a receipt that validates names the version in
  force; no other registry has that version, so the one of `Rooted` is the one in force.
- `HandoffNeedsAll` (`HandoffNeedsEveryAllow`): a list of the right length without two verdicts of
  one component holds one of every component (`ReceiptListIsComplete`, by counting), and the outcome
  a validator derives is ALLOW only if none of them says anything else.

What a validator accepts is trusted because a bundle passes `verify_signature_bundle` only if each
entry names a key found, active and in its window, and each answer is True (`BundleTrusts`).
Assumptions: `ComponentsAssumption`; `ChainAssumption` (arrays are sequences, ids and faults are
those the checks know, there is a registry at the start); `RotationAssumption` for
`EvidenceIsStillTrusted` alone: a registry that replaces another has a version of its own. The code
does not enforce the last one, it compares versions and nothing else: it is the duty of whoever
publishes registries ("registry is versioned", `docs/v4/SHIELD_V4_THREAT_MODEL.md:189`), and the
run `chain` checks the same setting.

### The snapshot: `SnapshotProofs`

`SnapshotTypes`, `CycleCheckIsExact` (`StackIsAPath`) and `CopyNeverExceedsBudget`
(`CopyIsBounded`), for every graph, every budget and every interference of the owner. The
three are inductive together: that a popped frame leaves the set of active containers needs
that no container is open twice, which needs that the set is exactly the path.

`BytesAreExact` (`BytesAreCounted`), under the same interference. `BytesInv` adds what the
property does not say and the induction needs: nothing is counted before the copy starts, and
the counters of a copy that was given up are those of the part that was copied.

`TurnsNeverExceedBudget` (`TurnsAreBounded`) is the safety core of `CopyEnds`: a copy takes at
most `2 * MaxContainerNodes + 1` turns, whatever the owner writes meanwhile. A turn that copies
a node takes from what the budget leaves, one that closes a container from what is open. That
the turns are taken is the fairness, which stays with TLC.

`SnapshotsAreExact`: `Spec /\ [][UNCHANGED heap]_vars => []SnapshotIsExact`. A graph is copied
exactly when the tree it unfolds to fits, and the copy is that tree. `ExactInv` says that what
has been copied, followed by what remains of the open containers, innermost first, is the whole
tree; `DoesNotFit`, that every refusal has a node of that tree which does not fit. The cycle
check looks at the graph, not at the tree: `CyclesAreTooDeep` shows that containers that lead
to each other unfold to a tree that is too deep, so that a refusal for a cycle is one the
reference makes too. The hypothesis is the setting of the run `graphs`: the reference speaks of
one graph, and the owner's writes are the subject of the five other theorems.

These theorems are about folds and a tree unfolded level by level, and need induction. It is
done over sets, with no operator as a parameter: a set of numbers that holds 0 and the
successors of its members is all of `Nat` (`SetInduction`, from the library's minimum of a
well-founded order), and `RecursionExists` builds the function that a recursive equation
describes. With it the functions `Totals`, `Forest` and `Trees` meet the equations they are
defined by (`TotalsAreDefined`, `ForestIsDefined`, `TreesAreDefined`).

Assumption: `SnapshotAssumption` (the typing of graphs and limits; the marks a copied container
leaves, `"dict"` and `"list"`, are no scalars).

### The crypto backend: `RealCryptoProofs`

`CryptoTypes`, `VerifiedEntriesWereIssued` (`VerifiedWasIssued`), `IssuedEntriesVerify`
(`IssuedVerifies`) and `LibrariesAgree` (`LibraryCannotTurnAVerdict`), for all requests, keys,
libraries and any number of changes to an entry. The argument is `MessageBindsEverything`: two
equal messages have equal fields although a key id may hold any number of lines, because the
four lines before it and the one line after it are fixed, and the last line determines the key
version. `IssuedEntriesVerify` is the other direction: `Issuable` keeps that every signed entry
was built from a request that passed the checks of signing, and these imply the checks of
verification one by one, except the check for test material in a key id, which signing does
not make and the property therefore excludes.
Assumptions: `DecimalIsInjective` (what `str` of an integer guarantees) and `RequestsNameKeys`.

### v3.2 receipts: `V32Proofs`, `ReceiptProofs`

`V32Receipt.Sorted` puts the element of rank i at place i, which the provers can follow; the
ranks of a list are a permutation of its domain (`RanksAreTaken`, by counting).
- `ReceiptsArrive` (`RoundTrip`): the list of a built receipt is sorted, sorting it again changes
  nothing, and so the hash is its own.
- `OrderIsForgotten` (`OrderLeavesNoTrace`): the element of a rank depends on the set of elements
  alone, and a list backwards has the same ones.
- `AcceptedReceiptsAreDerived` (`AcceptedIsDerived`): the validator recomputes what a receipt
  claims. It does so over stripped names and classifies unstripped ones, so the theorem is stated
  under `PlainLists`: no white space around names. `deny_padded` shows that it does not hold
  otherwise.
Assumption: `ListsAssumption` (arrays are sequences).

### v3 orchestration: `OrchestrateProofs`

`OrchestrationTypes` and `DecisionGateImplemented` (`Spec => ImplementsDecisionGate`), for every
set of components, order of bridges, request, answer and interference. `TypeOK` does not see how
far the call is; `CallInv` adds `Progress` (as many verdicts as bridges passed, all of them when a
receipt is built), `Faithful` (a verdict's decision is what its bridge met, bridges to come have
met nothing) and `Outcomes` (an error exactly on the failing path, a receipt's outcome is the
classification of the verdicts). Then every bridge step is one `Vote`, `Respond` is a `Decide` that
`FavourNeedsConsent` allows, `FailClosed` is a `Decide` of DENY or none.

`ReceiptsVouchForTheirHash == Spec => []ReceiptVouchesForItsHash`. `RequestInv`: as
long as the caller keeps away, every payload an engine was handed has the context hash of some
verdict (an engine that changes the payload afterwards changes the next verdict with it), no
engine changes whether or how the payload names its hash, and the call's hash is that name if
there is one. A receipt is built only when all verdicts carry the hash of the call; nothing
else in the code ties the bridges' readings together. Hashes are injective, so one computed hash
is one payload; of a payload that names its hash the theorem says that the hash is that name.

`LeftAloneOutcomesAreExact`: with `Mutators = {}`, `Spec => []OutcomeIsExact`. `ExactInv` says that
what is computed is computed of one request, that each verdict is what its bridge's answer
says and that answer broke no bridge, and that the failing path is entered only with an error
(`Fails`), for which the reference denies (`FailingDenies`); the classification
of the collected verdicts is that of the set of decisions. The hypothesis is the setting of
the run `requests`: the reference is about one payload, and what interference can do is the
subject of the other theorems.

Assumptions: `OrderAssumption`, `RequestsAssumption`, `SupportedAssumption`.

### Model-checked only

- `EveryCallEnds`, `ReceiptIsReturned`, `CopyEnds`: liveness, and ENABLED behind it.

Every other property of a passing run is stated by a theorem.

## 5. Not modelled

- Canonical JSON as a conversion: the byte layout. A stored hash is its own or another; hashes
  are injective.
- Trace entries and reports of v3, except for the status of the sink: nothing reads them.
- What the component engines compute: they are answers.
- base64url in detail. Its decoder ignores trailing bits of a last symbol, so one signature
  has several texts.
- The legacy pipeline: `FullShieldPipeline.process_event` and `BaseLayer.process` raise
  unconditionally and keep nothing. There is no replay state anywhere
  (`docs/v3/ADAMANTINEOS_HANDOFF.md:47-49` leaves it to AdamantineOS).
- Scripts, CI, tests and documents.

Notes made while reading. The cycle check of the snapshot saves work and changes no verdict: a
cycle that is followed is too deep. A key id that cannot be encoded leaves
`build_real_crypto_signature_input` as a raw `UnicodeEncodeError`, the kind `"encoding"`. That
an entry must name the key it is verified with (`KeyMatches`) is redundant for
`VerifiedWasIssued`, because the message binds the same fields.

## 6. Plan

1. Done: policy, registry, bundles, receipt, audited verifier, evidence gate; v3 orchestration
   with its receipts and decision gate; snapshot; real crypto backend; producer chain; the
   proofs above.
2. `LowLevelVerify`: `verify_signature_bundle` as its own state machine, where key lookup
   and callback alternate and the caller's objects are handed out. `SignatureBundle` models it
   as one verdict.
