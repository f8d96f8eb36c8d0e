-------------------------- MODULE VerificationAudit --------------------------
(***************************************************************************)
(* verify_v4_receipt_with_audit: the release-facing verifier.              *)
(*                                                                         *)
(* One call takes a private snapshot of the receipt and the registry,      *)
(* runs every cheap check on all six bundles, recomputes the hashes, and   *)
(* only then consults the signature backend, one signature at a time and   *)
(* in global algorithm waves.  The audit events it buffered are appended   *)
(* to the sink in one batch, and nothing leaves the call before the sink's *)
(* acknowledgement is exact.                                               *)
(*                                                                         *)
(* Three parties are outside: the caller, who owns the receipt object and  *)
(* may overwrite it during a call; the backend, whose answers are free;    *)
(* and the sink, which may refuse, fail, store part of a batch, or answer  *)
(* with something else than the acknowledgement of this batch.             *)
(***************************************************************************)
EXTENDS AuditChecks

CONSTANTS
  Receipts,               \* receipts a caller may pass
  Registries,             \* registries a caller may pass
  Overwrites,             \* what the caller may later store in its receipt object
  MaxAuditRecords,        \* MAX_AUDIT_RECORDS
  MaxAttempts,            \* bound of the model: calls in a behaviour
  None                    \* a value that is no receipt and no registry

ASSUME BoundsAssumption ==
  /\ MaxAuditRecords \in Nat
  /\ MaxAttempts \in Nat
  /\ None \notin Receipts \cup Overwrites \cup Registries

ASSUME InputsAssumption ==
  /\ \A r \in Receipts \cup Overwrites : HoldsListings(r)
  /\ \A g \in Registries : IsListing(g.entries)

ASSUME TypingAssumption ==
  /\ \A r \in Receipts \cup Overwrites : IsWellTyped(r)
  /\ \A g \in Registries : \A i \in DOMAIN g.entries : IsInterval(g.entries[i])

VARIABLES
  pc,             \* the next block of the call, "idle" between calls
  attempts,       \* calls made so far
  callerReceipt,  \* the caller's receipt object
  callerRegistry, \* the caller's registry object
  receipt,        \* the call's own snapshot of the receipt
  registry,       \* the call's own reloaded registry
  next,           \* the component verdict to prepare
  prepared,       \* planned callbacks, as <<artifact, algorithm>>
  pending,        \* planned callbacks not made yet
  work,           \* VerificationWorkCounter: [calls, pqc]
  events,         \* buffered audit events
  verdict,        \* what the call will tell the caller, once committed
  ack,            \* the sink's acknowledgement
  result,         \* what the last call gave its caller
  backend,        \* external: signature checks of this call, with their answers
  store           \* external: batches the sink made durable

vars == <<pc, attempts, callerReceipt, callerRegistry, receipt, registry, next,
          prepared, pending, work, events, verdict, ack, result, backend, store>>

inputs   == <<attempts, callerReceipt, callerRegistry>>
private  == <<receipt, registry, next, prepared>>
external == <<backend, store>>

-----------------------------------------------------------------------------
(* Audit events, acknowledgements, results *)

Answers == {"true", "false", "raised", "not_bool"}

Event(type, artifact, request_id, algorithm, passed, reason) ==
  [ event_type |-> type, artifact_id |-> artifact, request_id |-> request_id,
    algorithm |-> algorithm, verification_passed |-> passed, reason_id |-> reason ]

\* _preflight_event: it names only trusted values.
PreflightEvent(reason) ==
  Event("preflight", Orchestrator, ExpectedRequestId, "none", reason = Ok, reason)

\* The request id an artifact's events carry: each artifact's own.
RequestIdOf(r, artifact) ==
  IF artifact = Orchestrator
  THEN r.request_id
  ELSE r.component_verdicts[
         SelectInSeq(r.component_verdicts, LAMBDA v : v.component_id = artifact)].request_id

SignatureEvent(r, token, passed, reason) ==
  Event("signature", token[1], RequestIdOf(r, token[1]), token[2], passed, reason)

ArtifactEvent(r, artifact, reason) ==
  Event("artifact", artifact, RequestIdOf(r, artifact), "none", reason = Ok, reason)

\* serialize_audit_event on each record, audit_batch_sha256 on the batch.
Serializable(batch) ==
  /\ Len(batch) <= MaxAuditRecords
  /\ \A i \in DOMAIN batch : batch[i].verification_passed <=> batch[i].reason_id = Ok

\* A well-formed acknowledgement; the batch hash is the batch itself.
Ack(batch, count, durable) ==
  [form |-> "exact", batch |-> batch, record_count |-> count, durably_committed |-> durable]

NoAck == [form |-> "none", batch |-> <<>>, record_count |-> 0, durably_committed |-> FALSE]

\* A raised exception, a missing, extra or ill-typed field.
Malformed == [NoAck EXCEPT !.form = "malformed"]

\* Mutants: the batch hash, or durably_committed, is not compared.
AcknowledgesAnyBatch(answer, batch) ==
  answer.form = "exact" /\ answer.record_count = Len(batch) /\ answer.durably_committed

AcknowledgesVolatile(answer, batch) ==
  answer.form = "exact" /\ answer.batch = batch /\ answer.record_count = Len(batch)

\* The last lines of _commit_records.
Acknowledges(answer, batch) ==
  /\ answer.form = "exact"
  /\ answer.batch = batch
  /\ answer.record_count = Len(batch)
  /\ answer.durably_committed

NoResult == [kind |-> "none", reason |-> Ok, receipt |-> None]

-----------------------------------------------------------------------------
(* Actions *)

Init ==
  /\ pc = "idle"
  /\ attempts = 0
  /\ callerReceipt = None /\ callerRegistry = None
  /\ receipt = None /\ registry = None
  /\ next = 1
  /\ prepared = {} /\ pending = {}
  /\ work = [calls |-> 0, pqc |-> 0]
  /\ events = <<>>
  /\ verdict = Ok
  /\ ack = NoAck
  /\ result = NoResult
  /\ backend = <<>>
  /\ store = <<>>

\* Mutant: the call keeps reading the object its caller passed.
CallerObject == callerReceipt

\* The receipt every check after the snapshot reads: the call rebinds its
\* argument to the snapshot.
BoundReceipt == receipt

\* What a call starts from.
Fresh ==
  /\ attempts < MaxAttempts
  /\ attempts' = attempts + 1
  /\ receipt' = None /\ registry' = None
  /\ next' = 1
  /\ prepared' = {} /\ pending' = {}
  /\ work' = [calls |-> 0, pqc |-> 0]
  /\ verdict' = Ok
  /\ ack' = NoAck
  /\ backend' = <<>>
  /\ UNCHANGED store

\* A call whose trusted arguments are well formed.
Call ==
  /\ pc = "idle"
  /\ Fresh
  /\ callerReceipt' \in Receipts
  /\ callerRegistry' \in Registries
  /\ events' = <<PreflightEvent(Ok)>>
  /\ result' = NoResult
  /\ pc' = "snapshot"

\* A malformed trusted argument raises before any audit batch exists.
CallWithBadArguments ==
  /\ pc = "idle"
  /\ Fresh
  /\ events' = <<>>
  /\ result' = [NoResult EXCEPT !.kind = "argument_error"]
  /\ UNCHANGED <<pc, callerReceipt, callerRegistry>>

\* Mutant: the failed preflight event is appended to the passed one.
RejectPreflightAppending(reason) ==
  /\ events' = Append(events, PreflightEvent(reason))
  /\ verdict' = reason
  /\ pc' = "append"

\* Rejection before any callback: the batch is one failed preflight event.
RejectPreflight(reason) ==
  /\ events' = <<PreflightEvent(reason)>>
  /\ verdict' = reason
  /\ pc' = "append"

\* A block of checks: on to the next block, or a rejection.
Block(here, outcome, there) ==
  /\ pc = here
  /\ IF outcome = Ok
     THEN pc' = there /\ UNCHANGED <<events, verdict>>
     ELSE RejectPreflight(outcome)
  /\ UNCHANGED <<inputs, work, ack, result, external>>

TakeSnapshot ==
  /\ Block("snapshot", SnapshotVerdict(callerReceipt, callerRegistry), "bindings")
  /\ receipt' = callerReceipt
  /\ registry' = callerRegistry
  /\ UNCHANGED <<next, prepared, pending>>

CheckBindings ==
  /\ Block("bindings", BindingVerdict(BoundReceipt), "header")
  /\ UNCHANGED <<private, pending>>

CheckHeader ==
  /\ Block("header", HeaderVerdict(BoundReceipt, registry), "components")
  /\ UNCHANGED <<private, pending>>

\* The callbacks a bundle plans, once it is prepared.
BundleTokens(artifact, bundle) == {<<artifact, algorithm>> : algorithm \in AlgorithmsOf(bundle)}

\* One iteration of the component loop, in receipt order.
PrepareComponent ==
  LET verdicts == BoundReceipt.component_verdicts
      c        == verdicts[next]
      outcome  == PrepareComponentVerdict(c, registry)
  IN  /\ pc = "components"
      /\ Block("components", outcome, IF next = Len(verdicts) THEN "receipt" ELSE "components")
      /\ IF outcome = Ok
         THEN /\ next' = next + 1
              /\ prepared' = prepared \cup BundleTokens(c.component_id, c.signature_bundle)
         ELSE UNCHANGED <<next, prepared>>
      /\ UNCHANGED <<receipt, registry, pending>>

PrepareReceipt ==
  LET plan    == prepared \cup BundleTokens(Orchestrator, BoundReceipt.signature_bundle)
      outcome == PrepareReceiptVerdict(BoundReceipt, registry, plan)
  IN  /\ Block("receipt", outcome, "payload")
      /\ prepared' = IF outcome = Ok THEN plan ELSE prepared
      /\ UNCHANGED <<receipt, registry, next, pending>>

CheckPayload ==
  /\ Block("payload", PayloadVerdict(BoundReceipt), "dry_run")
  /\ UNCHANGED <<private, pending>>

DryRun ==
  /\ Block("dry_run", DryRunVerdict(BoundReceipt, registry, prepared), "callbacks")
  /\ pending' = prepared
  /\ UNCHANGED private

\* Mutant: the sort key's components swapped, artifact first.
BeforeByArtifact(t, u) ==
  \/ ArtifactRank(t[1]) < ArtifactRank(u[1])
  \/ t[1] = u[1] /\ AlgorithmRank(t[2]) <= AlgorithmRank(u[2])

\* Sort key of a planned callback: algorithm wave first, artifact second.
Before(t, u) ==
  \/ AlgorithmRank(t[2]) < AlgorithmRank(u[2])
  \/ /\ AlgorithmRank(t[2]) = AlgorithmRank(u[2])
     /\ ArtifactRank(t[1]) <= ArtifactRank(u[1])

IsPqc(algorithm) == IF algorithm \in PqcAlgorithms THEN 1 ELSE 0

\* Mutant: FN-DSA is not counted as post-quantum work.
CountedMlDsaOnly(w, algorithm) ==
  [calls |-> w.calls + 1, pqc |-> w.pqc + IF algorithm = "ml-dsa" THEN 1 ELSE 0]

\* VerificationWorkCounter.record_callback_attempt
Counted(w, algorithm) ==
  [calls |-> w.calls + 1, pqc |-> w.pqc + IsPqc(algorithm)]

CounterAdmits(w) == w.calls <= MaxVerificationCalls /\ w.pqc <= MaxPqcCalls

\* Mutants: any answer that is not False passes; a reason outside the fixed set.
AnswerReasonTruthy(answer) ==
  CASE answer = "false"  -> "V4_SIGNATURE_INVALID"
    [] answer = "raised" -> "V4_BACKEND_FAILURE"
    [] OTHER             -> Ok

AnswerReasonUnlisted(answer) ==
  CASE answer = "true"  -> Ok
    [] answer = "false" -> "V4_SIGNATURE_INVALID"
    [] OTHER            -> "BACKEND_ERROR"

\* What a callback's answer is recorded as.
AnswerReason(answer) ==
  CASE answer = "true"  -> Ok
    [] answer = "false" -> "V4_SIGNATURE_INVALID"
    [] OTHER            -> "V4_BACKEND_FAILURE"

\* One callback.  The counter is charged first; were it to refuse, its error
\* would leave the call unaudited.  A failure ends all waves.
RunCallback ==
  /\ pc = "callbacks"
  /\ \E token \in pending, answer \in Answers :
       LET reason  == AnswerReason(answer)
           logged  == Append(events, SignatureEvent(BoundReceipt, token, reason = Ok, reason))
           charged == Counted(work, token[2])
       IN  /\ \A other \in pending : Before(token, other)
           /\ IF ~CounterAdmits(charged)
              THEN /\ result' = [NoResult EXCEPT !.kind = "escaped"]
                   /\ pc' = "idle"
                   /\ UNCHANGED <<pending, work, events, verdict, backend>>
              ELSE /\ work' = charged
                   /\ backend' = Append(backend,
                        [nonce |-> BoundReceipt.freshness_nonce, token |-> token,
                         answer |-> answer])
                   /\ pending' = pending \ {token}
                   /\ IF reason = Ok
                      THEN /\ events' = logged
                           /\ pc' = IF pending' = {} THEN "final" ELSE "callbacks"
                           /\ UNCHANGED verdict
                      ELSE /\ events' = Append(logged,
                                          ArtifactEvent(BoundReceipt, token[1], reason))
                           /\ verdict' = reason
                           /\ pc' = "append"
                   /\ UNCHANGED result
  /\ UNCHANGED <<inputs, private, ack, store>>

FinalValidation ==
  LET outcome == FinalVerdict(BoundReceipt, registry, prepared)
  IN  /\ pc = "final"
      /\ events' = Append(events, ArtifactEvent(BoundReceipt, Orchestrator, outcome))
      /\ verdict' = outcome
      /\ pc' = "append"
      /\ UNCHANGED <<inputs, private, pending, work, ack, result, external>>

\* The sink's side of append_batch: what becomes durable, and what it answers.
\* An answer that claims durability counts records the sink really stored, for
\* this batch or for an earlier one.
SinkAnswers(batch) ==
  LET count == Len(batch)
  IN  {<<<<batch>>, Ack(batch, count, TRUE)>>, <<<<batch>>, Malformed>>,
       <<<<>>, Malformed>>, <<<<>>, Ack(batch, count, FALSE)>>,
       <<<<SubSeq(batch, 1, count - 1)>>, Ack(batch, count - 1, TRUE)>>}
      \cup {<<<<>>, Ack(store[k], Len(store[k]), TRUE)>> : k \in DOMAIN store}

\* The call hands its batch to the sink, if it can be serialized at all.
AppendBatch ==
  /\ pc = "append"
  /\ IF Serializable(events)
     THEN \E answer \in SinkAnswers(events) :
            store' = store \o answer[1] /\ ack' = answer[2]
     ELSE ack' = Malformed /\ UNCHANGED store
  /\ pc' = "ack"
  /\ UNCHANGED <<inputs, private, pending, work, events, verdict, result, backend>>

\* Mutant: an append that is not acknowledged is tried again, without a bound.
ConcludeOrAppendAgain ==
  /\ pc = "ack"
  /\ IF ~Acknowledges(ack, events)
     THEN pc' = "append" /\ UNCHANGED result
     ELSE /\ pc' = "idle"
          /\ result' = [NoResult EXCEPT !.kind = "rejected", !.reason = verdict]
  /\ UNCHANGED <<inputs, private, pending, work, events, verdict, ack, external>>

\* The end of the call: a sink failure wins over a rejection, and over success.
Conclude ==
  /\ pc = "ack"
  /\ result' =
       IF ~Acknowledges(ack, events) THEN [NoResult EXCEPT !.kind = "withheld"]
       ELSE IF verdict # Ok
            THEN [NoResult EXCEPT !.kind = "rejected", !.reason = verdict]
            ELSE [NoResult EXCEPT !.kind = "returned", !.receipt = BoundReceipt]
  /\ pc' = "idle"
  /\ UNCHANGED <<inputs, private, pending, work, events, verdict, ack, external>>

\* External: the caller stores another receipt in the object it passed.
CallerOverwrites ==
  /\ pc # "idle"
  /\ callerReceipt' \in Overwrites \ {callerReceipt}
  /\ UNCHANGED <<pc, attempts, callerRegistry, private, pending, work, events,
                 verdict, ack, result, external>>

\* External: the process dies, or an exception that is no Exception ends the
\* call.  What was buffered is lost, what was durable stays.
Crash ==
  /\ pc # "idle"
  /\ result' = [NoResult EXCEPT !.kind = "crashed"]
  /\ pc' = "idle"
  /\ UNCHANGED <<inputs, private, pending, work, events, verdict, ack, external>>

\* The behaviour's bound is reached.
Finished == pc = "idle" /\ attempts = MaxAttempts /\ UNCHANGED vars

Step ==
  \/ TakeSnapshot    \/ CheckBindings  \/ CheckHeader
  \/ PrepareComponent \/ PrepareReceipt \/ CheckPayload \/ DryRun
  \/ RunCallback     \/ FinalValidation \/ AppendBatch  \/ Conclude

Next ==
  \/ Call \/ CallWithBadArguments
  \/ Step
  \/ CallerOverwrites \/ Crash
  \/ Finished

Spec == Init /\ [][Next]_vars

\* Python runs the call to its end, and the backend and the sink answer; nothing
\* makes a caller call.
FairSpec == Spec /\ WF_vars(Step)
=============================================================================
