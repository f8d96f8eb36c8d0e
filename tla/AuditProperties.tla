--------------------------- MODULE AuditProperties ---------------------------
(***************************************************************************)
(* What VerificationAudit must satisfy: the properties the runs check and  *)
(* the proofs are about.                                                   *)
(***************************************************************************)
EXTENDS VerificationAudit, Admission

-----------------------------------------------------------------------------
(* State invariants *)

RequestIds ==
  {ExpectedRequestId} \cup {RequestIdOf(r, a) : r \in Receipts \cup Overwrites, a \in Artifacts}

Events ==
  [ event_type : {"preflight", "signature", "artifact"}, artifact_id : Artifacts,
    request_id : RequestIds, algorithm : Algorithms \cup {"none"},
    verification_passed : BOOLEAN, reason_id : AuditReasonIds ]

BackendCalls ==
  [ nonce : {r.freshness_nonce : r \in Receipts \cup Overwrites},
    token : Artifacts \X Algorithms, answer : Answers ]

\* Every variable keeps its type through every block of the call: above all, no
\* callback is ever planned for an unknown artifact or algorithm, and no reason
\* outside the fixed set is ever logged or raised.
TypeOK ==
  /\ pc \in {"idle", "snapshot", "bindings", "header", "components", "receipt",
             "payload", "dry_run", "callbacks", "final", "append", "ack"}
  /\ attempts \in 0..MaxAttempts
  /\ callerReceipt \in Receipts \cup Overwrites \cup {None}
  /\ callerRegistry \in Registries \cup {None}
  /\ receipt \in Receipts \cup Overwrites \cup {None}
  /\ registry \in Registries \cup {None}
  /\ next \in Nat \ {0}
  /\ prepared \subseteq Artifacts \X Algorithms
  /\ pending \subseteq prepared
  /\ work \in [calls : Nat, pqc : Nat]
  /\ events \in Seq(Events)
  /\ verdict \in AuditReasonIds
  /\ ack \in [form : {"none", "malformed", "exact"}, batch : Seq(Events),
             record_count : Nat, durably_committed : BOOLEAN]
  /\ result \in [kind : {"none", "argument_error", "returned", "rejected", "withheld",
                         "crashed", "escaped"},
                reason : AuditReasonIds, receipt : Receipts \cup Overwrites \cup {None}]
  /\ backend \in Seq(BackendCalls)
  /\ store \in Seq(Seq(Events))

\* A receipt is handed back only when the sink holds, complete and durable, the
\* batch that records this call: a passed preflight, one record per signature of
\* the returned receipt, and the receipt's own terminal.
ReleasedOnlyWithDurableEvidence ==
  result.kind = "returned" =>
    /\ \E k \in DOMAIN store : store[k] = events
    /\ Len(events) = Cardinality(Tokens(result.receipt)) + 2
    /\ \A i \in DOMAIN events : events[i].verification_passed
    /\ Last(events).event_type = "artifact" /\ Last(events).artifact_id = Orchestrator

\* A verification error, too, is raised only after its batch is durable, and
\* that batch ends in the reason the caller is given.
RejectedOnlyWithDurableEvidence ==
  result.kind = "rejected" =>
    /\ \E k \in DOMAIN store : store[k] = events
    /\ ~Last(events).verification_passed
    /\ Last(events).reason_id = result.reason

\* Whatever the caller does to its object meanwhile, the receipt it gets back is
\* the one whose every signature the backend accepted, once, in this call.
ReturnedReceiptWasVerified ==
  result.kind = "returned" =>
    /\ {backend[i].token : i \in DOMAIN backend} = Tokens(result.receipt)
    /\ Len(backend) = Cardinality(Tokens(result.receipt))
    /\ \A i \in DOMAIN backend :
         backend[i].answer = "true" /\ backend[i].nonce = result.receipt.freshness_nonce

\* The cheap checks, spread over seven blocks, let through exactly the
\* admissible chains: no callback runs for another, and none of them is turned
\* away before its callbacks.
AdmissionIsExact ==
  /\ pc \in {"callbacks", "final"} => Admissible(receipt, registry)
  /\ (pc = "append" /\ Len(events) = 1) => ~Admissible(receipt, registry)

\* Callbacks come in waves over all artifacts: no ML-DSA callback before every
\* classical one answered True, no FN-DSA callback before every required one did,
\* and canonical artifact order inside a wave.
WaveDiscipline ==
  \A j \in DOMAIN backend :
    LET Wave(k) == AlgorithmRank(backend[k].token[2])
    IN  /\ \A i \in 1..(j - 1) : backend[i].answer = "true"
        /\ \A i \in 1..(j - 1) :
             Wave(i) = Wave(j)
               => ArtifactRank(backend[i].token[1]) < ArtifactRank(backend[j].token[1])
        /\ \A t \in prepared :
             AlgorithmRank(t[2]) < Wave(j) => \E i \in 1..(j - 1) : backend[i].token = t

\* The counter is charged once per callback really made, and never trips: an
\* error of the counter would leave the call with no audit record at all.
WorkIsAccounted ==
  /\ result.kind # "escaped"
  /\ work.calls = Len(backend)
  /\ work.pqc = Cardinality({i \in DOMAIN backend : backend[i].token[2] \in PqcAlgorithms})

\* The buffered log tells the backend's story: after the preflight it holds one
\* signature event per callback, in order and nowhere else, each with the answer
\* the backend gave.
AuditMatchesBackend ==
  /\ {i \in DOMAIN events : events[i].event_type = "signature"} = 2..(Len(backend) + 1)
  /\ \A i \in DOMAIN backend :
       LET signed == events[i + 1]
       IN  /\ signed.artifact_id = backend[i].token[1]
           /\ signed.algorithm = backend[i].token[2]
           /\ signed.verification_passed <=> backend[i].answer = "true"
           /\ signed.reason_id = "V4_SIGNATURE_INVALID" <=> backend[i].answer = "false"

\* A batch that reaches the sink is one failed preflight event, or a passed one
\* followed by signature events and one terminal; only the last signature event
\* may have failed, and the terminal then repeats its artifact and reason.
BatchGrammar ==
  pc = "append" =>
    LET n == Len(events)
    IN  /\ events[1].event_type = "preflight"
        /\ ~events[1].verification_passed <=> n = 1
        /\ n > 1 =>
             /\ events[n].event_type = "artifact"
             /\ \A i \in 2..(n - 1) : events[i].event_type = "signature"
             /\ \A i \in 2..(n - 2) : events[i].verification_passed
             /\ events[n].verification_passed = events[n - 1].verification_passed
             /\ events[n].reason_id = events[n - 1].reason_id
             /\ ~events[n].verification_passed
                  => events[n].artifact_id = events[n - 1].artifact_id

-----------------------------------------------------------------------------
(* Temporal properties *)

\* How far a call is, as its caller's log sees it.
Phase ==
  IF pc = "idle" THEN "idle"
  ELSE IF pc = "append" THEN "decided"
  ELSE IF pc = "ack" THEN "offered" ELSE "deciding"

\* The evidence of the decision, once there is one.
Evidence == IF pc \in {"append", "ack"} THEN events ELSE <<>>

Told == result.kind

TellsSuccess(evidence) == evidence[Len(evidence)].verification_passed

Gate == INSTANCE EvidenceGate WITH
  phase   <- Phase,
  batch   <- Evidence,
  durable <- store,
  outcome <- Told,
  Passes  <- TellsSuccess

\* The verifier implements the evidence gate: its blocks, waves and sink handling
\* amount to deciding once, offering once, and announcing only what is durable.
ImplementsGate == Gate!GateSpec

\* Every call comes to an end, whatever the backend and the sink answer.
EveryCallEnds == pc # "idle" ~> pc = "idle"

\* A wrong field set in the receipt or anywhere in its six bundles.
ShapeFault(r) ==
  \/ "fields" \in r.faults
  \/ \E c \in ToSet(r.component_verdicts) :
       \/ "fields" \in c.faults
       \/ "fields" \in c.signature_bundle.faults
       \/ \E e \in ToSet(c.signature_bundle.signatures) : "fields" \in e.faults
  \/ "fields" \in r.signature_bundle.faults

\* V4-INV-018: across all bundles, field sets are checked before any policy,
\* freshness or key check, so a malformed field set decides the reason.
ShapesBeforeKeys ==
  (pc = "append" /\ Len(events) = 1 /\ ShapeFault(receipt))
    => verdict \notin {"V4_REGISTRY_INVALID", "V4_FRESHNESS_INVALID", "V4_POLICY_INVALID"}
=============================================================================
