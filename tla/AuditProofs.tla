----------------------------- MODULE AuditProofs -----------------------------
(***************************************************************************)
(* Theorems about the audited verifier and its evidence, for every list of *)
(* components, every set of receipts and registries, and every value of    *)
(* the limits.                                                             *)
(*                                                                         *)
(* First its types.  Then its release gate: a verification error is        *)
(* raised, and a receipt returned, only over durable evidence.  A receipt  *)
(* needs a complete batch; the argument follows the plan from bundle to    *)
(* bundle until it equals the signatures of the receipt, and then counts:  *)
(* every callback moves one unit from `pending` to the log.  Then the      *)
(* grammar of the batches.  Then the blocks a call has passed are          *)
(* remembered along its steps: admission is exact.                         *)
(*                                                                         *)
(* Last, what a call asks of the backend.  Every callback takes one token  *)
(* from `pending` and puts it at the end of `backend`, first in the order  *)
(* of the waves: so the backend is asked once about every signature of the *)
(* receipt that is returned, wave by wave, and the counter, charged as     *)
(* often as the plan has tokens, never refuses.  With that, every step is  *)
(* one of the evidence gate, or none.                                      *)
(***************************************************************************)
EXTENDS AuditProperties, CheckProofs

Offered == Receipts \cup Overwrites

\* The blocks that follow the snapshot and precede the commit.
Checking == {"bindings", "header", "components", "receipt", "payload", "dry_run",
             "callbacks", "final"}

\* What a call knows of its inputs, block by block.
CallInv ==
  /\ pc # "idle" => callerReceipt \in Offered /\ callerRegistry \in Registries
  /\ pc \notin {"idle", "snapshot"} => receipt \in Offered /\ registry \in Registries
  /\ pc \in Checking => BundleBudgetsVerdict(receipt) = Ok
  /\ pc \in {"snapshot", "bindings", "header"} => next = 1
  /\ pc = "components" => next \in DOMAIN receipt.component_verdicts
  /\ pc # "idle" => events # <<>>

TypeInv == TypeOK /\ CallInv

\* What a caller passes holds listings.
LEMMA ListedInputs ==
  /\ \A r \in Offered : HoldsListings(r)
  /\ \A g \in Registries : IsListing(g.entries)
BY InputsAssumption DEF Offered

\* The events the call builds are audit events.
LEMMA EventTypes ==
  /\ \A reason \in AuditReasonIds : PreflightEvent(reason) \in Events
  /\ \A r \in Offered, t \in Artifacts \X Algorithms, reason \in AuditReasonIds :
       SignatureEvent(r, t, reason = Ok, reason) \in Events
  /\ \A r \in Offered, a \in Artifacts, reason \in AuditReasonIds :
       ArtifactEvent(r, a, reason) \in Events
<1>1. Orchestrator \in Artifacts
  BY DEF Artifacts
<1>2. \A r \in Offered, a \in Artifacts : RequestIdOf(r, a) \in RequestIds
  BY DEF RequestIds, Offered
<1>3. ExpectedRequestId \in RequestIds
  BY DEF RequestIds
<1>4. ASSUME NEW type \in {"preflight", "signature", "artifact"}, NEW a \in Artifacts,
             NEW id \in RequestIds, NEW algorithm \in Algorithms \cup {"none"},
             NEW passed \in BOOLEAN, NEW reason \in AuditReasonIds
      PROVE  Event(type, a, id, algorithm, passed, reason) \in Events
  BY DEF Event, Events
<1>5. \A reason \in AuditReasonIds : PreflightEvent(reason) \in Events
  BY <1>1, <1>3, <1>4 DEF PreflightEvent
<1>6. ASSUME NEW r \in Offered, NEW t \in Artifacts \X Algorithms,
             NEW reason \in AuditReasonIds
      PROVE  SignatureEvent(r, t, reason = Ok, reason) \in Events
  <2>1. t[1] \in Artifacts /\ t[2] \in Algorithms \cup {"none"}
    OBVIOUS
  <2>2. QED
    BY <1>2, <1>4, <2>1 DEF SignatureEvent
<1>7. \A r \in Offered, a \in Artifacts, reason \in AuditReasonIds :
        ArtifactEvent(r, a, reason) \in Events
  BY <1>2, <1>4 DEF ArtifactEvent
<1>8. QED
  BY <1>5, <1>6, <1>7

\* A block passes to the next one or rejects, and either keeps the log well typed.
LEMMA BlockStep ==
  ASSUME TypeOK, NEW here, NEW outcome \in AuditReasonIds, NEW there,
         Block(here, outcome, there)
  PROVE  /\ pc = here
         /\ \/ outcome = Ok /\ pc' = there
            \/ outcome # Ok /\ pc' = "append"
         /\ events' \in Seq(Events)
         /\ events # <<>> => events' # <<>>
         /\ verdict' \in AuditReasonIds
         /\ UNCHANGED <<inputs, work, ack, result, external>>
<1>1. \A reason \in AuditReasonIds :
        <<PreflightEvent(reason)>> \in Seq(Events) /\ <<PreflightEvent(reason)>> # <<>>
  BY EventTypes
<1>2. QED
  BY <1>1 DEF Block, RejectPreflight, TypeOK

\* Every action before the callbacks is a block of checks with a listed reason.
LEMMA PreflightBlocks ==
  ASSUME TypeInv,
         \/ TakeSnapshot \/ CheckBindings \/ CheckHeader \/ PrepareComponent
         \/ PrepareReceipt \/ CheckPayload \/ DryRun
  PROVE  \E here, outcome, there :
           /\ here \notin {"idle", "append", "ack"}
           /\ there \notin {"idle", "append", "ack"}
           /\ outcome \in AuditReasonIds
           /\ Block(here, outcome, there)
<1>1. CASE TakeSnapshot
  <2>1. /\ Block("snapshot", SnapshotVerdict(callerReceipt, callerRegistry), "bindings")
        /\ callerReceipt \in Offered /\ callerRegistry \in Registries
    BY <1>1 DEF TakeSnapshot, Block, TypeInv, CallInv
  <2>2. SnapshotVerdict(callerReceipt, callerRegistry) \in AuditReasonIds
    BY <2>1, ListedInputs, SnapshotReason
  <2>3. QED
    BY <2>1, <2>2
<1>2. CASE \/ CheckBindings \/ CheckHeader \/ PrepareComponent
           \/ PrepareReceipt \/ CheckPayload \/ DryRun
  <2>1. pc \in Checking
    BY <1>2 DEF CheckBindings, CheckHeader, PrepareComponent, PrepareReceipt, CheckPayload,
                DryRun, Block, Checking
  <2>2. HoldsListings(receipt)
    BY <2>1, ListedInputs DEF TypeInv, CallInv, Checking
  <2>3. CASE CheckBindings
    BY <2>2, <2>3, BindingReason DEF CheckBindings, BoundReceipt
  <2>4. CASE CheckHeader
    BY <2>2, <2>4, HeaderReason DEF CheckHeader, BoundReceipt
  <2>5. CASE PrepareComponent
    <3>1. /\ pc = "components"
          /\ Block("components", PrepareComponentVerdict(receipt.component_verdicts[next],
                                                         registry),
                   IF next = Len(receipt.component_verdicts) THEN "receipt" ELSE "components")
      BY <2>5 DEF PrepareComponent, BoundReceipt
    <3>2. IsListing(receipt.component_verdicts[next].signature_bundle.signatures)
      BY <2>2, <3>1 DEF TypeInv, CallInv, HoldsListings
    <3>3. PrepareComponentVerdict(receipt.component_verdicts[next], registry)
            \in AuditReasonIds
      BY <3>2, PrepareComponentReason
    <3>4. QED
      BY <3>1, <3>3
  <2>6. CASE PrepareReceipt
    BY <2>2, <2>6, PrepareReceiptReason DEF PrepareReceipt, BoundReceipt
  <2>7. CASE CheckPayload
    BY <2>2, <2>7, PayloadReason DEF CheckPayload, BoundReceipt
  <2>8. CASE DryRun
    BY <2>2, <2>8, DryRunReason DEF DryRun, BoundReceipt
  <2>9. QED
    BY <1>2, <2>3, <2>4, <2>5, <2>6, <2>7, <2>8
<1>3. QED
  BY <1>1, <1>2

\* The initial state has the types.
LEMMA InitType == Init => TypeInv
<1> SUFFICES ASSUME Init PROVE TypeInv
  OBVIOUS
<1>1. Ok \in AuditReasonIds
  BY DEF AuditReasonIds
<1>2. NoAck \in [form : {"none", "malformed", "exact"}, batch : Seq(Events),
                 record_count : Nat, durably_committed : BOOLEAN]
  BY DEF NoAck
<1>3. NoResult \in [kind : {"none", "argument_error", "returned", "rejected", "withheld",
                            "crashed", "escaped"},
                    reason : AuditReasonIds, receipt : Receipts \cup Overwrites \cup {None}]
  BY <1>1 DEF NoResult
<1>4. TypeOK
  BY <1>1, <1>2, <1>3, BoundsAssumption DEF Init, TypeOK
<1>5. CallInv
  BY DEF Init, CallInv, Checking
<1>6. QED
  BY <1>4, <1>5 DEF TypeInv

\* A new call, or one whose arguments are refused, keeps the types.
LEMMA CallType ==
  ASSUME TypeInv, Call \/ CallWithBadArguments
  PROVE  TypeInv'
<1> USE DEF TypeInv
<1>1. Ok \in AuditReasonIds
  BY DEF AuditReasonIds
<1>2. NoAck \in [form : {"none", "malformed", "exact"}, batch : Seq(Events),
                 record_count : Nat, durably_committed : BOOLEAN]
  BY DEF NoAck
<1>3. \A kind \in {"none", "argument_error"} :
        [NoResult EXCEPT !.kind = kind] \in
          [kind : {"none", "argument_error", "returned", "rejected", "withheld",
                   "crashed", "escaped"},
           reason : AuditReasonIds, receipt : Receipts \cup Overwrites \cup {None}]
  BY <1>1 DEF NoResult
<1>4. NoResult = [NoResult EXCEPT !.kind = "none"]
  BY DEF NoResult
<1>5. CASE Call
  <2>1. events' \in Seq(Events)
    BY <1>1, <1>5, EventTypes DEF Call
  <2>2. result' = [NoResult EXCEPT !.kind = "none"]
    BY <1>4, <1>5 DEF Call
  <2>3. TypeOK'
    <3>1. /\ pc' = "snapshot" /\ attempts' \in 0..MaxAttempts
          /\ callerReceipt' \in Offered /\ callerRegistry' \in Registries
      BY <1>5, BoundsAssumption DEF TypeOK, Call, Fresh, Offered
    <3>2. /\ receipt' = None /\ registry' = None /\ next' = 1
          /\ prepared' = {} /\ pending' = {}
          /\ work' \in [calls : Nat, pqc : Nat]
          /\ verdict' \in AuditReasonIds
          /\ ack' = NoAck /\ backend' \in Seq(BackendCalls) /\ store' = store
      BY <1>1, <1>5 DEF Call, Fresh
    <3>3. result' \in [kind : {"none", "argument_error", "returned", "rejected",
                              "withheld", "crashed", "escaped"},
                       reason : AuditReasonIds, receipt : Receipts \cup Overwrites \cup {None}]
      BY <1>3, <2>2
    <3>4. QED
      BY <1>2, <2>1, <3>1, <3>2, <3>3 DEF TypeOK, Offered
  <2>4. CallInv'
    BY <1>5 DEF CallInv, Checking, Offered, Call, Fresh
  <2>5. QED
    BY <2>3, <2>4
<1>6. CASE CallWithBadArguments
  <2>1. TypeOK'
    <3>1. /\ pc' = pc /\ callerReceipt' = callerReceipt /\ callerRegistry' = callerRegistry
          /\ attempts' \in 0..MaxAttempts
      BY <1>6, BoundsAssumption DEF TypeOK, CallWithBadArguments, Fresh
    <3>2. /\ receipt' = None /\ registry' = None /\ next' = 1
          /\ prepared' = {} /\ pending' = {}
          /\ work' \in [calls : Nat, pqc : Nat]
          /\ verdict' \in AuditReasonIds
          /\ ack' = NoAck /\ backend' \in Seq(BackendCalls) /\ store' = store
      BY <1>1, <1>6 DEF CallWithBadArguments, Fresh
    <3>3. events' \in Seq(Events)
      BY <1>6 DEF CallWithBadArguments
    <3>4. result' \in [kind : {"none", "argument_error", "returned", "rejected",
                              "withheld", "crashed", "escaped"},
                       reason : AuditReasonIds, receipt : Receipts \cup Overwrites \cup {None}]
      BY <1>3, <1>6 DEF CallWithBadArguments
    <3>5. QED
      BY <1>2, <3>1, <3>2, <3>3, <3>4 DEF TypeOK
  <2>2. CallInv'
    BY <1>6 DEF CallInv, Checking, CallWithBadArguments, Fresh
  <2>3. QED
    BY <2>1, <2>2
<1>7. QED
  BY <1>5, <1>6

\* Taking the snapshot keeps the types.
LEMMA TakeSnapshotType ==
  ASSUME TypeInv, TakeSnapshot
  PROVE  TypeInv'
<1> DEFINE outcome == SnapshotVerdict(callerReceipt, callerRegistry)
<1>1. pc = "snapshot" /\ Block("snapshot", outcome, "bindings")
  BY DEF TakeSnapshot, Block
<1>2. callerReceipt \in Offered /\ callerRegistry \in Registries
  BY <1>1 DEF TypeInv, CallInv
<1>3. outcome \in AuditReasonIds
  BY <1>2, ListedInputs, SnapshotReason
<1>4. /\ \/ outcome = Ok /\ pc' = "bindings"
         \/ outcome # Ok /\ pc' = "append"
      /\ events' \in Seq(Events)
      /\ events # <<>> => events' # <<>>
      /\ verdict' \in AuditReasonIds
      /\ UNCHANGED <<inputs, work, ack, result, external>>
  BY <1>1, <1>3, BlockStep DEF TypeInv
<1>5. outcome = Ok => BundleBudgetsVerdict(callerReceipt) = Ok
  BY SnapshotPasses
<1> HIDE DEF outcome
<1>6. TypeOK'
  BY <1>2, <1>4 DEF TypeInv, TypeOK, TakeSnapshot, Offered, inputs, external
<1>7. CallInv'
  BY <1>1, <1>2, <1>4, <1>5 DEF TypeInv, CallInv, Checking, TakeSnapshot, inputs
<1>8. QED
  BY <1>6, <1>7 DEF TypeInv

\* The blocks that only check.
LEMMA CheckType ==
  ASSUME TypeInv, CheckBindings \/ CheckHeader \/ CheckPayload \/ DryRun
  PROVE  TypeInv'
<1>1. PICK here, outcome, there :
        /\ here \in {"bindings", "header", "payload", "dry_run"}
        /\ Block(here, outcome, there)
        /\ outcome \in AuditReasonIds
        /\ there = CASE here = "bindings" -> "header"
                     [] here = "header"   -> "components"
                     [] here = "payload"  -> "dry_run"
                     [] OTHER             -> "callbacks"
        /\ UNCHANGED private
        /\ pending' = IF here = "dry_run" THEN prepared ELSE pending
  <2>1. pc \in {"bindings", "header", "payload", "dry_run"}
    BY DEF CheckBindings, CheckHeader, CheckPayload, DryRun, Block
  <2>2. receipt \in Offered /\ HoldsListings(receipt)
    BY <2>1, ListedInputs DEF TypeInv, CallInv
  <2>3. CASE CheckBindings
    BY <2>2, <2>3, BindingReason DEF CheckBindings, BoundReceipt
  <2>4. CASE CheckHeader
    BY <2>2, <2>4, HeaderReason DEF CheckHeader, BoundReceipt
  <2>5. CASE CheckPayload
    BY <2>2, <2>5, PayloadReason DEF CheckPayload, BoundReceipt
  <2>6. CASE DryRun
    BY <2>2, <2>6, DryRunReason DEF DryRun, BoundReceipt
  <2>7. QED
    BY <2>3, <2>4, <2>5, <2>6
<1>2. /\ pc = here
      /\ pc' = there \/ pc' = "append"
      /\ events' \in Seq(Events)
      /\ events # <<>> => events' # <<>>
      /\ verdict' \in AuditReasonIds
      /\ UNCHANGED <<inputs, work, ack, result, external>>
  BY <1>1, BlockStep DEF TypeInv
<1>3. pending' \subseteq prepared'
  BY <1>1 DEF TypeInv, TypeOK, private
<1>4. TypeOK'
  BY <1>1, <1>2, <1>3 DEF TypeInv, TypeOK, private, inputs, external
<1>5. pc' = "components" => next' \in DOMAIN receipt'.component_verdicts
  <2> SUFFICES ASSUME pc' = "components"
               PROVE  next' \in DOMAIN receipt'.component_verdicts
    OBVIOUS
  <2>1. pc = "header"
    BY <1>1, <1>2
  <2>2. /\ next' = 1 /\ receipt' = receipt
        /\ HoldsListings(receipt)
        /\ BundleBudgetsVerdict(receipt) = Ok
    BY <1>1, <2>1, ListedInputs DEF TypeInv, CallInv, Checking, private
  <2>3. Len(receipt.component_verdicts) = Len(Components)
    BY <2>2, BundleBudgetsPass
  <2>4. Len(Components) \in Nat \ {0}
    BY ComponentsAssumption
  <2>5. DOMAIN receipt.component_verdicts = 1..Len(Components)
    BY <2>2, <2>3 DEF HoldsListings, IsListing
  <2>6. QED
    BY <2>2, <2>4, <2>5
<1>6. CallInv'
  BY <1>1, <1>2, <1>5 DEF TypeInv, CallInv, Checking, private, inputs
<1>7. QED
  BY <1>4, <1>6 DEF TypeInv

\* Preparing a component plans callbacks of its own artifact only.
LEMMA PrepareComponentType ==
  ASSUME TypeInv, PrepareComponent
  PROVE  TypeInv'
<1> DEFINE verdicts == receipt.component_verdicts
           c == verdicts[next]
           outcome == PrepareComponentVerdict(c, registry)
           there == IF next = Len(verdicts) THEN "receipt" ELSE "components"
<1>1. /\ pc = "components"
      /\ Block("components", outcome, there)
      /\ IF outcome = Ok
         THEN /\ next' = next + 1
              /\ prepared' = prepared \cup BundleTokens(c.component_id, c.signature_bundle)
         ELSE UNCHANGED <<next, prepared>>
      /\ UNCHANGED <<receipt, registry, pending>>
  BY DEF PrepareComponent, BoundReceipt
<1>2. /\ receipt \in Offered /\ HoldsListings(receipt)
      /\ BundleBudgetsVerdict(receipt) = Ok
      /\ next \in DOMAIN verdicts
  BY <1>1, ListedInputs DEF TypeInv, CallInv, Checking
<1>3. DOMAIN verdicts = 1..Len(verdicts) /\ Len(verdicts) \in Nat
  BY <1>2 DEF HoldsListings, IsListing
<1>4. c.component_id \in Artifacts
  BY <1>2, BundleBudgetsPass DEF Artifacts
<1>5. IsListing(c.signature_bundle.signatures)
  BY <1>2 DEF HoldsListings
<1>6. outcome \in AuditReasonIds
  BY <1>5, PrepareComponentReason
<1>7. outcome = Ok => BundleTokens(c.component_id, c.signature_bundle)
                        \subseteq Artifacts \X Algorithms
  <2>1. outcome = Ok => AlgorithmsOf(c.signature_bundle) \subseteq Algorithms
    BY <1>5, PrepareComponentPasses
  <2>2. QED
    BY <1>4, <2>1 DEF BundleTokens
<1>8. /\ \/ outcome = Ok /\ pc' = there
         \/ outcome # Ok /\ pc' = "append"
      /\ events' \in Seq(Events)
      /\ events # <<>> => events' # <<>>
      /\ verdict' \in AuditReasonIds
      /\ UNCHANGED <<inputs, work, ack, result, external>>
  BY <1>1, <1>6, BlockStep DEF TypeInv
<1> HIDE DEF outcome
<1>9. prepared' \subseteq Artifacts \X Algorithms /\ prepared \subseteq prepared'
  BY <1>1, <1>7 DEF TypeInv, TypeOK
<1>10. next' \in Nat \ {0}
  BY <1>1 DEF TypeInv, TypeOK
<1>11. TypeOK'
  BY <1>1, <1>8, <1>9, <1>10 DEF TypeInv, TypeOK, inputs, external
<1>12. pc' = "components" => next' \in DOMAIN verdicts
  BY <1>1, <1>2, <1>3, <1>8
<1>13. CallInv'
  BY <1>1, <1>2, <1>8, <1>12 DEF TypeInv, CallInv, Checking, inputs
<1>14. QED
  BY <1>11, <1>13 DEF TypeInv

\* Preparing the receipt completes the plan.
LEMMA PrepareReceiptType ==
  ASSUME TypeInv, PrepareReceipt
  PROVE  TypeInv'
<1> DEFINE tokens  == BundleTokens(Orchestrator, receipt.signature_bundle)
           plan    == prepared \cup tokens
           outcome == PrepareReceiptVerdict(receipt, registry, plan)
<1>1. /\ pc = "receipt"
      /\ Block("receipt", outcome, "payload")
      /\ prepared' = IF outcome = Ok THEN plan ELSE prepared
      /\ UNCHANGED <<receipt, registry, next, pending>>
  BY DEF PrepareReceipt, BoundReceipt, Block
<1>2. receipt \in Offered /\ HoldsListings(receipt)
  BY <1>1, ListedInputs DEF TypeInv, CallInv
<1>3. outcome \in AuditReasonIds
  BY <1>2, PrepareReceiptReason
<1>4. outcome = Ok => tokens \subseteq Artifacts \X Algorithms
  <2>1. outcome = Ok => AlgorithmsOf(receipt.signature_bundle) \subseteq Algorithms
    BY <1>2, PrepareReceiptPasses
  <2>2. QED
    BY <2>1 DEF BundleTokens, Artifacts
<1>5. /\ pc' = "payload" \/ pc' = "append"
      /\ events' \in Seq(Events)
      /\ events # <<>> => events' # <<>>
      /\ verdict' \in AuditReasonIds
      /\ UNCHANGED <<inputs, work, ack, result, external>>
  BY <1>1, <1>3, BlockStep DEF TypeInv
<1>6. prepared' \subseteq Artifacts \X Algorithms /\ prepared \subseteq prepared'
  <2> HIDE DEF tokens, outcome
  <2> QED
    BY <1>1, <1>4 DEF TypeInv, TypeOK
<1> HIDE DEF outcome
<1>7. TypeOK'
  BY <1>1, <1>5, <1>6 DEF TypeInv, TypeOK, inputs, external
<1>8. CallInv'
  BY <1>1, <1>5 DEF TypeInv, CallInv, Checking, inputs
<1>9. QED
  BY <1>7, <1>8 DEF TypeInv

\* What a call ends with is a result.
LEMMA ResultTypes ==
  LET Results == [kind : {"none", "argument_error", "returned", "rejected", "withheld",
                          "crashed", "escaped"},
                  reason : AuditReasonIds, receipt : Receipts \cup Overwrites \cup {None}]
  IN  /\ \A kind \in {"withheld", "crashed", "escaped"} :
           [NoResult EXCEPT !.kind = kind] \in Results
      /\ \A reason \in AuditReasonIds :
           [NoResult EXCEPT !.kind = "rejected", !.reason = reason] \in Results
      /\ \A r \in Offered : [NoResult EXCEPT !.kind = "returned", !.receipt = r] \in Results
<1>1. Ok \in AuditReasonIds
  BY DEF AuditReasonIds
<1>2. QED
  BY <1>1 DEF NoResult, Offered

\* What a callback records, whatever the backend answers.
LEMMA RunCallbackType ==
  ASSUME TypeInv, RunCallback
  PROVE  TypeInv'
<1>1. pc = "callbacks" /\ UNCHANGED <<inputs, private, ack, store>>
  BY DEF RunCallback
<1>2. receipt \in Offered
  BY <1>1 DEF TypeInv, CallInv
<1>3. PICK token \in pending, answer \in Answers :
        LET reason  == AnswerReason(answer)
            logged  == Append(events, SignatureEvent(receipt, token, reason = Ok, reason))
            charged == Counted(work, token[2])
        IN  IF ~CounterAdmits(charged)
            THEN /\ result' = [NoResult EXCEPT !.kind = "escaped"]
                 /\ pc' = "idle"
                 /\ UNCHANGED <<pending, work, events, verdict, backend>>
            ELSE /\ work' = charged
                 /\ backend' = Append(backend,
                      [nonce |-> receipt.freshness_nonce, token |-> token, answer |-> answer])
                 /\ pending' = pending \ {token}
                 /\ IF reason = Ok
                    THEN /\ events' = logged
                         /\ pc' = IF pending' = {} THEN "final" ELSE "callbacks"
                         /\ UNCHANGED verdict
                    ELSE /\ events' = Append(logged, ArtifactEvent(receipt, token[1], reason))
                         /\ verdict' = reason
                         /\ pc' = "append"
                 /\ UNCHANGED result
  BY DEF RunCallback, BoundReceipt
<1> DEFINE reason  == AnswerReason(answer)
           signed  == SignatureEvent(receipt, token, reason = Ok, reason)
           logged  == Append(events, signed)
           charged == Counted(work, token[2])
<1>4. token \in Artifacts \X Algorithms
  BY DEF TypeInv, TypeOK
<1>5. reason \in AuditReasonIds
  BY DEF AnswerReason, Answers, AuditReasonIds
<1>6. signed \in Events /\ ArtifactEvent(receipt, token[1], reason) \in Events
  BY <1>2, <1>4, <1>5, EventTypes
<1>7. charged \in [calls : Nat, pqc : Nat]
  BY DEF Counted, IsPqc, TypeInv, TypeOK
<1>8. [nonce |-> receipt.freshness_nonce, token |-> token, answer |-> answer] \in BackendCalls
  BY <1>2, <1>4 DEF BackendCalls, Offered
<1>9. CASE ~CounterAdmits(charged)
  <2>1. /\ result' = [NoResult EXCEPT !.kind = "escaped"]
        /\ pc' = "idle"
        /\ UNCHANGED <<pending, work, events, verdict, backend>>
    BY <1>3, <1>9
  <2>2. TypeOK'
    BY <1>1, <2>1, ResultTypes DEF TypeInv, TypeOK, inputs, private
  <2>3. CallInv'
    BY <2>1 DEF CallInv, Checking
  <2>4. QED
    BY <2>2, <2>3 DEF TypeInv
<1>10. CASE CounterAdmits(charged)
  <2>1. /\ work' = charged
        /\ backend' = Append(backend,
             [nonce |-> receipt.freshness_nonce, token |-> token, answer |-> answer])
        /\ pending' = pending \ {token}
        /\ UNCHANGED result
        /\ \/ /\ events' = logged /\ UNCHANGED verdict
              /\ pc' \in {"final", "callbacks"}
           \/ /\ events' = Append(logged, ArtifactEvent(receipt, token[1], reason))
              /\ verdict' = reason /\ pc' = "append"
    <3> HIDE DEF charged, signed, reason
    <3> QED
      BY <1>3, <1>10 DEF charged, signed, reason
  <2> HIDE DEF reason, signed, charged
  <2>2. events' \in Seq(Events)
    <3>1. logged \in Seq(Events)
      BY <1>6 DEF TypeInv, TypeOK
    <3>2. Append(logged, ArtifactEvent(receipt, token[1], reason)) \in Seq(Events)
      BY <1>6, <3>1, AppendProperties
    <3>3. QED
      BY <2>1, <3>1, <3>2
  <2>3. backend' \in Seq(BackendCalls)
    BY <1>8, <2>1 DEF TypeInv, TypeOK
  <2>4. verdict' \in AuditReasonIds
    BY <1>5, <2>1 DEF TypeInv, TypeOK
  <2>5. pending' \subseteq prepared'
    BY <1>1, <2>1 DEF TypeInv, TypeOK, private
  <2>6. TypeOK'
    BY <1>1, <1>7, <2>1, <2>2, <2>3, <2>4, <2>5 DEF TypeInv, TypeOK, inputs, private
  <2>7. CallInv'
    BY <1>1, <2>1 DEF TypeInv, CallInv, Checking, inputs, private
  <2>8. QED
    BY <2>6, <2>7 DEF TypeInv
<1>11. QED
  BY <1>9, <1>10

\* The last validation logs one event more.
LEMMA FinalValidationType ==
  ASSUME TypeInv, FinalValidation
  PROVE  TypeInv'
<1> DEFINE outcome == FinalVerdict(receipt, registry, prepared)
<1>1. /\ pc = "final" /\ pc' = "append"
      /\ events' = Append(events, ArtifactEvent(receipt, Orchestrator, outcome))
      /\ verdict' = outcome
      /\ UNCHANGED <<inputs, private, pending, work, ack, result, external>>
  BY DEF FinalValidation, BoundReceipt
<1>2. receipt \in Offered /\ HoldsListings(receipt)
  BY <1>1, ListedInputs DEF TypeInv, CallInv
<1>3. outcome \in AuditReasonIds
  BY <1>2, FinalReason
<1>4. ArtifactEvent(receipt, Orchestrator, outcome) \in Events
  BY <1>2, <1>3, EventTypes DEF Artifacts
<1> HIDE DEF outcome
<1>5. TypeOK'
  BY <1>1, <1>3, <1>4 DEF TypeInv, TypeOK, inputs, private, external
<1>6. CallInv'
  BY <1>1 DEF TypeInv, CallInv, Checking, inputs, private
<1>7. QED
  BY <1>5, <1>6 DEF TypeInv

\* What the sink stores are records of a batch, and what it says is about one.
LEMMA SinkTypes ==
  ASSUME TypeInv, NEW batch \in Seq(Events), batch # <<>>, NEW answer \in SinkAnswers(batch)
  PROVE  /\ answer[1] \in Seq(Seq(Events))
         /\ answer[2] \in [form : {"none", "malformed", "exact"}, batch : Seq(Events),
                           record_count : Nat, durably_committed : BOOLEAN]
<1> DEFINE Acks == [form : {"none", "malformed", "exact"}, batch : Seq(Events),
                    record_count : Nat, durably_committed : BOOLEAN]
           count == Len(batch)
<1>1. \A b \in Seq(Events), n \in Nat, durable \in BOOLEAN : Ack(b, n, durable) \in Acks
  BY DEF Ack
<1>2. Malformed \in Acks
  <2>1. <<>> \in Seq(Events)
    OBVIOUS
  <2>2. QED
    BY <2>1 DEF Malformed, NoAck
<1>3. count \in Nat \ {0}
  OBVIOUS
<1>4. SubSeq(batch, 1, count - 1) \in Seq(Events)
  BY <1>3, SubSeqProperties
<1>5. \A k \in DOMAIN store : store[k] \in Seq(Events) /\ Len(store[k]) \in Nat
  BY DEF TypeInv, TypeOK
<1>6. <<>> \in Seq(Seq(Events)) /\ <<batch>> \in Seq(Seq(Events))
      /\ <<SubSeq(batch, 1, count - 1)>> \in Seq(Seq(Events))
  BY <1>4
<1>7. count - 1 \in Nat
  BY <1>3
<1>8. /\ Ack(batch, count, TRUE) \in Acks /\ Ack(batch, count, FALSE) \in Acks
      /\ Ack(batch, count - 1, TRUE) \in Acks
      /\ \A k \in DOMAIN store : Ack(store[k], Len(store[k]), TRUE) \in Acks
  BY <1>1, <1>3, <1>5, <1>7
<1> DEFINE Whole == Ack(batch, count, TRUE)
           Volatile == Ack(batch, count, FALSE)
           Part == Ack(batch, count - 1, TRUE)
           Earlier(k) == Ack(store[k], Len(store[k]), TRUE)
           Kept == SubSeq(batch, 1, count - 1)
<1>9. \/ answer \in {<<<<batch>>, Whole>>, <<<<batch>>, Malformed>>, <<<<>>, Malformed>>,
                     <<<<>>, Volatile>>, <<<<Kept>>, Part>>}
      \/ answer \in {<<<<>>, Earlier(k)>> : k \in DOMAIN store}
  BY Zenon DEF SinkAnswers
<1> HIDE DEF count, Acks, Whole, Volatile, Part, Earlier, Kept
<1>10. answer[1] \in {<<batch>>, <<>>, <<Kept>>}
  BY <1>9
<1>11. answer[2] \in {Malformed, Whole, Volatile, Part} \cup {Earlier(k) : k \in DOMAIN store}
  BY <1>9
<1>12. answer[1] \in Seq(Seq(Events))
  BY <1>6, <1>10 DEF Kept
<1>13. answer[2] \in Acks
  BY <1>2, <1>8, <1>11 DEF Whole, Volatile, Part, Earlier
<1>14. QED
  BY <1>12, <1>13 DEF Acks

\* Handing the batch to the sink keeps the types, whatever the sink answers.
LEMMA AppendBatchType ==
  ASSUME TypeInv, AppendBatch
  PROVE  TypeInv'
<1>1. /\ pc = "append" /\ pc' = "ack"
      /\ UNCHANGED <<inputs, private, pending, work, events, verdict, result, backend>>
  BY DEF AppendBatch
<1>2. events \in Seq(Events) /\ events # <<>>
  BY <1>1 DEF TypeInv, TypeOK, CallInv
<1>3. /\ store' \in Seq(Seq(Events))
      /\ ack' \in [form : {"none", "malformed", "exact"}, batch : Seq(Events),
                   record_count : Nat, durably_committed : BOOLEAN]
  <2>1. CASE Serializable(events)
    <3>1. PICK answer \in SinkAnswers(events) : store' = store \o answer[1] /\ ack' = answer[2]
      BY <2>1 DEF AppendBatch
    <3>2. QED
      BY <1>2, <3>1, SinkTypes, ConcatProperties DEF TypeInv, TypeOK
  <2>2. CASE ~Serializable(events)
    <3>1. ack' = Malformed /\ store' = store
      BY <2>2 DEF AppendBatch
    <3>2. <<>> \in Seq(Events)
      OBVIOUS
    <3>3. QED
      BY <3>1, <3>2 DEF TypeInv, TypeOK, Malformed, NoAck
  <2>3. QED
    BY <2>1, <2>2
<1>4. TypeOK'
  BY <1>1, <1>3 DEF TypeInv, TypeOK, inputs, private
<1>5. CallInv'
  BY <1>1 DEF TypeInv, CallInv, Checking, inputs, private
<1>6. QED
  BY <1>4, <1>5 DEF TypeInv

\* The ways a call ends.
LEMMA EndType ==
  ASSUME TypeInv, Conclude \/ Crash
  PROVE  TypeInv'
<1>1. /\ pc # "idle" /\ pc' = "idle"
      /\ UNCHANGED <<inputs, private, pending, work, events, verdict, ack, external>>
  BY DEF Conclude, Crash
<1>2. result' \in [kind : {"none", "argument_error", "returned", "rejected", "withheld",
                           "crashed", "escaped"},
                   reason : AuditReasonIds, receipt : Receipts \cup Overwrites \cup {None}]
  <2>1. CASE Conclude
    <3>1. receipt \in Offered /\ verdict \in AuditReasonIds
      BY <2>1 DEF Conclude, TypeInv, TypeOK, CallInv
    <3>2. QED
      BY <2>1, <3>1, ResultTypes DEF Conclude, BoundReceipt
  <2>2. CASE Crash
    BY <2>2, ResultTypes DEF Crash
  <2>3. QED
    BY <2>1, <2>2
<1>3. TypeOK'
  <2>1. /\ pc' = "idle" /\ UNCHANGED inputs /\ UNCHANGED private /\ UNCHANGED external
        /\ UNCHANGED <<pending, work, events, verdict, ack>>
    BY <1>1
  <2>2. /\ attempts' = attempts /\ callerReceipt' = callerReceipt
        /\ callerRegistry' = callerRegistry
        /\ receipt' = receipt /\ registry' = registry /\ next' = next /\ prepared' = prepared
        /\ pending' = pending /\ work' = work /\ events' = events /\ verdict' = verdict
        /\ ack' = ack /\ backend' = backend /\ store' = store
    BY <2>1 DEF inputs, private, external
  <2>3. pc' \in {"idle", "snapshot", "bindings", "header", "components", "receipt",
                 "payload", "dry_run", "callbacks", "final", "append", "ack"}
    BY <2>1
  <2>4. TypeOK
    BY DEF TypeInv
  <2>5. QED
    BY <1>2, <2>2, <2>3, <2>4, Zenon DEF TypeOK
<1>4. CallInv'
  BY <1>1 DEF CallInv, Checking
<1>5. QED
  BY <1>3, <1>4 DEF TypeInv

\* A caller that overwrites its object touches nothing of the call.
LEMMA OverwriteType ==
  ASSUME TypeInv, CallerOverwrites
  PROVE  TypeInv'
<1>1. TypeOK'
  BY DEF TypeInv, TypeOK, CallerOverwrites, private, external
<1>2. CallInv'
  BY DEF TypeInv, CallInv, Checking, CallerOverwrites, Offered, private
<1>3. QED
  BY <1>1, <1>2 DEF TypeInv

\* So does a stuttering step.
LEMMA IdleType ==
  ASSUME TypeInv, UNCHANGED vars
  PROVE  TypeInv'
BY DEF TypeInv, TypeOK, CallInv, Checking, vars

\* Every step keeps the types and what the call knows of its inputs.
LEMMA TypeStep == TypeInv /\ [Next]_vars => TypeInv'
BY CallType, TakeSnapshotType, CheckType, PrepareComponentType, PrepareReceiptType,
   RunCallbackType, FinalValidationType, AppendBatchType, EndType, OverwriteType, IdleType
DEF Next, Step, Finished

\* Every variable keeps its type through every block of the call, for every
\* receipt, registry and answer: no callback is planned for an unknown artifact
\* or algorithm, no reason outside the fixed set is logged or raised.
THEOREM TypeCorrect == Spec => []TypeOK
<1>1. Init => TypeInv
  BY InitType
<1>2. TypeInv /\ [Next]_vars => TypeInv'
  BY TypeStep
<1>3. TypeInv => TypeOK
  BY DEF TypeInv
<1>4. QED
  BY <1>1, <1>2, <1>3, PTL DEF Spec

-----------------------------------------------------------------------------
(* Evidence of a rejection *)

\* What a call knows of its decision and of the sink, until it tells its caller.
EvidenceInv ==
  /\ pc # "idle" => result.kind = "none"
  /\ pc \in {"append", "ack"} =>
       /\ Last(events).verification_passed = (verdict = Ok)
       /\ Last(events).reason_id = verdict
  /\ pc = "ack" /\ Acknowledges(ack, events) => \E k \in DOMAIN store : store[k] = events
  /\ RejectedOnlyWithDurableEvidence

\* The last event of a batch tells the call's decision.
LEMMA LastTells ==
  ASSUME NEW s \in Seq(Events), NEW e, e \in Events
  PROVE  Last(Append(s, e)) = e /\ Last(<<e>>) = e
BY DEF Last

\* A block of checks logs its own rejection, and nothing else.
LEMMA BlockEvidence ==
  ASSUME TypeInv, EvidenceInv, NEW here, here \notin {"idle", "append", "ack"},
         NEW outcome, outcome \in AuditReasonIds,
         NEW there, there \notin {"idle", "append", "ack"},
         Block(here, outcome, there)
  PROVE  EvidenceInv'
<1>1. pc = here /\ result.kind = "none"
  BY DEF Block, EvidenceInv
<1>2. CASE outcome = Ok
  BY <1>1, <1>2 DEF Block, EvidenceInv, RejectedOnlyWithDurableEvidence
<1>3. CASE outcome # Ok
  <2>1. /\ pc' = "append" /\ result' = result /\ verdict' = outcome
        /\ events' = <<PreflightEvent(outcome)>>
    BY <1>3 DEF Block, RejectPreflight
  <2>2. Last(events') = PreflightEvent(outcome)
    BY <2>1 DEF Last
  <2>3. /\ PreflightEvent(outcome).verification_passed = (outcome = Ok)
        /\ PreflightEvent(outcome).reason_id = outcome
    BY DEF PreflightEvent, Event
  <2>4. QED
    BY <1>1, <2>1, <2>2, <2>3 DEF EvidenceInv, RejectedOnlyWithDurableEvidence
<1>4. QED
  BY <1>2, <1>3

\* Hence every block before the callbacks keeps the evidence.
LEMMA PreflightEvidence ==
  ASSUME TypeInv, EvidenceInv,
         \/ TakeSnapshot \/ CheckBindings \/ CheckHeader \/ PrepareComponent
         \/ PrepareReceipt \/ CheckPayload \/ DryRun
  PROVE  EvidenceInv'
<1>1. PICK here, outcome, there : /\ here \notin {"idle", "append", "ack"}
                                  /\ there \notin {"idle", "append", "ack"}
                                  /\ outcome \in AuditReasonIds
                                  /\ Block(here, outcome, there)
  BY PreflightBlocks
<1>2. QED
  BY <1>1, BlockEvidence

\* A failed callback's reason ends the batch and becomes the verdict.
LEMMA RunCallbackEvidence ==
  ASSUME TypeInv, EvidenceInv, RunCallback
  PROVE  EvidenceInv'
<1>1. pc = "callbacks" /\ result.kind = "none" /\ receipt \in Offered
  BY DEF RunCallback, EvidenceInv, TypeInv, CallInv
<1>2. \/ result'.kind = "escaped" /\ pc' = "idle"
      \/ pc' \in {"callbacks", "final"} /\ result' = result
      \/ \E token \in pending, answer \in Answers :
           LET reason == AnswerReason(answer)
               logged == Append(events, SignatureEvent(receipt, token, reason = Ok, reason))
           IN  /\ events' = Append(logged, ArtifactEvent(receipt, token[1], reason))
               /\ verdict' = reason
               /\ pc' = "append" /\ result' = result
  BY DEF RunCallback, BoundReceipt, NoResult
<1>3. CASE \E token \in pending, answer \in Answers :
           LET reason == AnswerReason(answer)
               logged == Append(events, SignatureEvent(receipt, token, reason = Ok, reason))
           IN  /\ events' = Append(logged, ArtifactEvent(receipt, token[1], reason))
               /\ verdict' = reason
               /\ pc' = "append" /\ result' = result
  <2>1. PICK token \in pending, answer \in Answers :
           LET reason == AnswerReason(answer)
               logged == Append(events, SignatureEvent(receipt, token, reason = Ok, reason))
           IN  /\ events' = Append(logged, ArtifactEvent(receipt, token[1], reason))
               /\ verdict' = reason
               /\ pc' = "append" /\ result' = result
    BY <1>3
  <2> DEFINE reason == AnswerReason(answer)
             signed == SignatureEvent(receipt, token, reason = Ok, reason)
             ended  == ArtifactEvent(receipt, token[1], reason)
  <2>2. reason \in AuditReasonIds /\ token \in Artifacts \X Algorithms
    BY DEF AnswerReason, Answers, AuditReasonIds, TypeInv, TypeOK
  <2>3. signed \in Events /\ ended \in Events
    BY <1>1, <2>2, EventTypes
  <2>4. Append(events, signed) \in Seq(Events)
    BY <2>3, AppendProperties DEF TypeInv, TypeOK
  <2>5. ended.verification_passed = (reason = Ok) /\ ended.reason_id = reason
    BY DEF ArtifactEvent, Event
  <2>6. /\ events' = Append(Append(events, signed), ended)
        /\ verdict' = reason /\ pc' = "append" /\ result' = result
    BY <2>1
  <2> HIDE DEF reason, signed, ended
  <2>7. Last(events') = ended
    BY <2>3, <2>4, <2>6, LastTells
  <2>8. QED
    BY <1>1, <2>5, <2>6, <2>7 DEF EvidenceInv, RejectedOnlyWithDurableEvidence
<1>4. CASE \/ result'.kind = "escaped" /\ pc' = "idle"
           \/ pc' \in {"callbacks", "final"} /\ result' = result
  BY <1>1, <1>4 DEF EvidenceInv, RejectedOnlyWithDurableEvidence
<1>5. QED
  BY <1>2, <1>3, <1>4

\* The receipt's terminal tells the verdict.
LEMMA FinalValidationEvidence ==
  ASSUME TypeInv, EvidenceInv, FinalValidation
  PROVE  EvidenceInv'
<1> DEFINE outcome == FinalVerdict(receipt, registry, prepared)
           ended   == ArtifactEvent(receipt, Orchestrator, outcome)
<1>1. /\ pc = "final" /\ pc' = "append" /\ result' = result
      /\ events' = Append(events, ended) /\ verdict' = outcome
  BY DEF FinalValidation, BoundReceipt
<1>2. receipt \in Offered /\ HoldsListings(receipt)
  BY <1>1, ListedInputs DEF TypeInv, CallInv
<1>3. ended \in Events
  BY <1>2, FinalReason, EventTypes DEF Artifacts
<1>4. ended.verification_passed = (outcome = Ok) /\ ended.reason_id = outcome
  BY DEF ArtifactEvent, Event
<1> HIDE DEF outcome, ended
<1>5. Last(events') = ended
  BY <1>1, <1>3, LastTells DEF TypeInv, TypeOK
<1>6. QED
  BY <1>1, <1>4, <1>5 DEF EvidenceInv, RejectedOnlyWithDurableEvidence

\* An exact acknowledgement of a batch is only ever given for a batch that is held.
LEMMA AppendBatchEvidence ==
  ASSUME TypeInv, EvidenceInv, AppendBatch
  PROVE  EvidenceInv'
<1>1. /\ pc = "append" /\ pc' = "ack"
      /\ events' = events /\ verdict' = verdict /\ result' = result
  BY DEF AppendBatch
<1>2. events \in Seq(Events) /\ events # <<>> /\ store \in Seq(Seq(Events))
  BY <1>1 DEF TypeInv, TypeOK, CallInv
<1>3. Acknowledges(ack', events) => \E k \in DOMAIN store' : store'[k] = events
  <2> SUFFICES ASSUME Acknowledges(ack', events)
               PROVE  \E k \in DOMAIN store' : store'[k] = events
    OBVIOUS
  <2>1. ack' # Malformed
    BY DEF Acknowledges, Malformed, NoAck
  <2>2. PICK answer \in SinkAnswers(events) : store' = store \o answer[1] /\ ack' = answer[2]
    BY <2>1 DEF AppendBatch
  <2>3. \/ answer = <<<<events>>, Ack(events, Len(events), TRUE)>>
        \/ answer = <<<<>>, Ack(events, Len(events), FALSE)>>
        \/ answer = <<<<SubSeq(events, 1, Len(events) - 1)>>,
                      Ack(events, Len(events) - 1, TRUE)>>
        \/ \E k \in DOMAIN store : answer = <<<<>>, Ack(store[k], Len(store[k]), TRUE)>>
    <3>1. \/ answer = <<<<events>>, Ack(events, Len(events), TRUE)>>
          \/ answer = <<<<events>>, Malformed>> \/ answer = <<<<>>, Malformed>>
          \/ answer = <<<<>>, Ack(events, Len(events), FALSE)>>
          \/ answer = <<<<SubSeq(events, 1, Len(events) - 1)>>,
                        Ack(events, Len(events) - 1, TRUE)>>
          \/ \E k \in DOMAIN store : answer = <<<<>>, Ack(store[k], Len(store[k]), TRUE)>>
      BY <2>2, Zenon DEF SinkAnswers
    <3>2. answer # <<<<events>>, Malformed>> /\ answer # <<<<>>, Malformed>>
      BY <2>1, <2>2
    <3>3. QED
      BY <3>1, <3>2, Zenon
  <2>4. CASE answer = <<<<events>>, Ack(events, Len(events), TRUE)>>
    <3>1. store' = store \o <<events>>
      BY <2>2, <2>4
    <3>2. store'[Len(store) + 1] = events /\ Len(store) + 1 \in DOMAIN store'
      BY <1>2, <3>1
    <3>3. QED
      BY <3>2
  <2>5. ASSUME answer = <<<<>>, Ack(events, Len(events), FALSE)>> PROVE FALSE
    <3>1. ack' = Ack(events, Len(events), FALSE)
      BY <2>2, <2>5
    <3>2. ack'.durably_committed = FALSE
      BY <3>1 DEF Ack
    <3>3. QED
      BY <3>2, Zenon DEF Acknowledges
  <2>6. ASSUME answer = <<<<SubSeq(events, 1, Len(events) - 1)>>,
                          Ack(events, Len(events) - 1, TRUE)>>
        PROVE FALSE
    <3>1. ack' = Ack(events, Len(events) - 1, TRUE)
      BY <2>2, <2>6
    <3>2. ack'.record_count = Len(events) - 1
      BY <3>1 DEF Ack
    <3>3. Len(events) - 1 = Len(events)
      BY <3>2 DEF Acknowledges
    <3>4. QED
      BY <1>2, <3>3
  <2>7. CASE \E k \in DOMAIN store : answer = <<<<>>, Ack(store[k], Len(store[k]), TRUE)>>
    <3>1. PICK k \in DOMAIN store : answer = <<<<>>, Ack(store[k], Len(store[k]), TRUE)>>
      BY <2>7
    <3>2. store[k] = events
      <4>1. ack' = Ack(store[k], Len(store[k]), TRUE)
        BY <2>2, <3>1
      <4>2. ack'.batch = store[k]
        BY <4>1 DEF Ack
      <4>3. QED
        BY <4>2 DEF Acknowledges
    <3>3. store' = store
      <4>1. store' = store \o <<>>
        BY <2>2, <3>1
      <4>2. QED
        BY <1>2, <4>1, ConcatEmptySeq
    <3>4. QED
      BY <3>2, <3>3
  <2>8. QED
    BY <2>3, <2>4, <2>5, <2>6, <2>7
<1>4. QED
  BY <1>1, <1>3 DEF EvidenceInv, RejectedOnlyWithDurableEvidence

\* The call concludes with what its evidence says.
LEMMA ConcludeEvidence ==
  ASSUME TypeInv, EvidenceInv, Conclude
  PROVE  EvidenceInv'
<1>1. /\ pc = "ack" /\ pc' = "idle"
      /\ events' = events /\ store' = store /\ ack' = ack
  BY DEF Conclude, external
<1>2. result'.kind = "rejected" =>
        Acknowledges(ack, events) /\ verdict # Ok /\ result'.reason = verdict
  BY DEF Conclude, NoResult
<1>3. QED
  BY <1>1, <1>2 DEF EvidenceInv, RejectedOnlyWithDurableEvidence

\* A call begins without evidence; the caller, a crash and the end touch none.
LEMMA OtherEvidence ==
  ASSUME TypeInv, EvidenceInv,
         Call \/ CallWithBadArguments \/ CallerOverwrites \/ Crash \/ UNCHANGED vars
  PROVE  EvidenceInv'
<1>1. CASE Call
  BY <1>1 DEF Call, NoResult, EvidenceInv, RejectedOnlyWithDurableEvidence
<1>2. CASE CallWithBadArguments
  BY <1>2 DEF CallWithBadArguments, NoResult, EvidenceInv, RejectedOnlyWithDurableEvidence
<1>3. CASE CallerOverwrites
  <2>1. UNCHANGED <<pc, events, verdict, ack, result, store>>
    BY <1>3 DEF CallerOverwrites, external
  <2>2. QED
    BY <2>1 DEF EvidenceInv, RejectedOnlyWithDurableEvidence, Acknowledges
<1>4. CASE Crash
  BY <1>4 DEF Crash, NoResult, EvidenceInv, RejectedOnlyWithDurableEvidence
<1>5. CASE UNCHANGED vars
  BY <1>5 DEF vars, EvidenceInv, RejectedOnlyWithDurableEvidence
<1>6. QED
  BY <1>1, <1>2, <1>3, <1>4, <1>5

\* Every step keeps the evidence.
LEMMA EvidenceStep == TypeInv /\ EvidenceInv /\ [Next]_vars => EvidenceInv'
BY PreflightEvidence, RunCallbackEvidence, FinalValidationEvidence, AppendBatchEvidence,
   ConcludeEvidence, OtherEvidence
DEF Next, Step, Finished

\* A verification error is raised only after the batch that ends in its reason is
\* durable, whatever the sink answered on the way.
THEOREM RejectedOnlyWithEvidence == Spec => []RejectedOnlyWithDurableEvidence
<1>1. Init => TypeInv /\ EvidenceInv
  BY InitType DEF Init, EvidenceInv, NoResult, RejectedOnlyWithDurableEvidence
<1>2. TypeInv /\ EvidenceInv /\ [Next]_vars => (TypeInv /\ EvidenceInv)'
  BY TypeStep, EvidenceStep
<1>3. EvidenceInv => RejectedOnlyWithDurableEvidence
  BY DEF EvidenceInv
<1>4. QED
  BY <1>1, <1>2, <1>3, PTL DEF Spec

-----------------------------------------------------------------------------
(* Evidence of a release *)

\* The callbacks planned for the first n component verdicts of a receipt.
Planned(r, n) ==
  UNION {BundleTokens(r.component_verdicts[i].component_id,
                      r.component_verdicts[i].signature_bundle) : i \in 1..n}

AllPlanned(r) == Planned(r, Len(r.component_verdicts))

\* The plan, block by block.
PlanInv ==
  /\ pc \in {"snapshot", "bindings", "header"} => prepared = {}
  /\ pc = "components" => prepared = Planned(receipt, next - 1)
  /\ pc = "receipt" => prepared = AllPlanned(receipt)
  /\ pc \in {"payload", "dry_run"} =>
       prepared = AllPlanned(receipt) \cup BundleTokens(Orchestrator, receipt.signature_bundle)
  /\ pc \in {"callbacks", "final"} => prepared = Tokens(receipt)

AllPassed == \A i \in DOMAIN events : events[i].verification_passed

\* The events of a successful verification of r.
CompleteFor(r) ==
  /\ Len(events) = Cardinality(Tokens(r)) + 2
  /\ AllPassed
  /\ Last(events).event_type = "artifact" /\ Last(events).artifact_id = Orchestrator

\* The log, block by block.
LogInv ==
  /\ pc \in {"snapshot", "bindings", "header", "components", "receipt", "payload", "dry_run"}
       => events = <<PreflightEvent(Ok)>>
  /\ pc \in {"callbacks", "final"} =>
       /\ Len(events) + Cardinality(pending) = Cardinality(prepared) + 1
       /\ AllPassed
  /\ pc = "final" => pending = {}
  /\ (pc \in {"append", "ack"} /\ verdict = Ok) => CompleteFor(receipt)
  /\ ReleasedOnlyWithDurableEvidence

-----------------------------------------------------------------------------
(* The plan equals the signatures of the receipt *)

\* There are finitely many callbacks to plan.
LEMMA FinitelyManyTokens ==
  /\ IsFiniteSet(Artifacts \X Algorithms)
  /\ \A plan : plan \subseteq Artifacts \X Algorithms => IsFiniteSet(plan)
<1> DEFINE named == [i \in DOMAIN Components |-> Components[i]]
<1>1. IsFiniteSet(DOMAIN Components)
  BY ComponentsAssumption, FS_Interval
<1>2. named \in Surjection(DOMAIN Components, ComponentIds)
  BY DEF Surjection, ComponentIds
<1>3. IsFiniteSet(ComponentIds)
  BY <1>1, <1>2, FS_Surjection
<1>4. IsFiniteSet(Artifacts)
  BY <1>3, FS_AddElement DEF Artifacts
<1>5. IsFiniteSet(Algorithms)
  <2>1. IsFiniteSet({"classical-ed25519"})
    BY FS_Singleton
  <2>2. IsFiniteSet({"classical-ed25519"} \cup {"ml-dsa"})
    BY <2>1, FS_AddElement
  <2>3. IsFiniteSet(({"classical-ed25519"} \cup {"ml-dsa"}) \cup {"fn-dsa"})
    BY <2>2, FS_AddElement
  <2>4. Algorithms = ({"classical-ed25519"} \cup {"ml-dsa"}) \cup {"fn-dsa"}
    BY DEF Algorithms
  <2>5. QED
    BY <2>3, <2>4
<1>6. IsFiniteSet(Artifacts \X Algorithms)
  BY <1>4, <1>5, FS_Product
<1>7. QED
  BY <1>6, FS_Subset

\* A plan made of all six bundles and covering every artifact has one callback
\* for each signature of the receipt.
LEMMA PlanIsTokens ==
  ASSUME NEW r, HoldsListings(r), BundleBudgetsVerdict(r) = Ok,
         NEW plan, plan \subseteq Artifacts \X Algorithms,
         plan = AllPlanned(r) \cup BundleTokens(Orchestrator, r.signature_bundle),
         {t[1] : t \in plan} = Artifacts
  PROVE  plan = Tokens(r)
<1> DEFINE verdicts == r.component_verdicts
<1>1. DOMAIN verdicts = 1..Len(verdicts)
  BY DEF HoldsListings, IsListing
<1>2. \A i \in DOMAIN verdicts :
        /\ verdicts[i].component_id \in ComponentIds
        /\ BundleOf(r, verdicts[i].component_id) = verdicts[i].signature_bundle
  BY BundleOfComponent
<1>3. BundleOf(r, Orchestrator) = r.signature_bundle
  BY DEF BundleOf
<1>4. \A a, b, t : t \in BundleTokens(a, b) <=> \E x \in AlgorithmsOf(b) : t = <<a, x>>
  BY DEF BundleTokens
<1>5. ASSUME NEW t \in plan PROVE t \in Tokens(r)
  <2>1. t \in Artifacts \X Algorithms
    OBVIOUS
  <2>2. \/ t \in BundleTokens(Orchestrator, r.signature_bundle)
        \/ \E i \in DOMAIN verdicts :
             t \in BundleTokens(verdicts[i].component_id, verdicts[i].signature_bundle)
    BY <1>1 DEF AllPlanned, Planned
  <2>3. t[2] \in AlgorithmsOf(BundleOf(r, t[1]))
    BY <1>2, <1>3, <1>4, <2>2
  <2>4. QED
    BY <2>1, <2>3 DEF Tokens
<1>6. ASSUME NEW t \in Tokens(r) PROVE t \in plan
  <2>1. t \in Artifacts \X Algorithms /\ t[2] \in AlgorithmsOf(BundleOf(r, t[1]))
    BY DEF Tokens
  <2>2. t = <<t[1], t[2]>> /\ t[1] \in Artifacts
    BY <2>1
  <2>3. t \in BundleTokens(t[1], BundleOf(r, t[1]))
    BY <1>4, <2>1, <2>2
  <2>4. CASE t[1] = Orchestrator
    BY <1>3, <2>3, <2>4
  <2>5. CASE t[1] # Orchestrator
    <3>1. PICK u \in plan : u[1] = t[1]
      BY <2>2
    <3>2. PICK i \in DOMAIN verdicts :
            u \in BundleTokens(verdicts[i].component_id, verdicts[i].signature_bundle)
      <4>1. u \notin BundleTokens(Orchestrator, r.signature_bundle)
        BY <1>4, <2>5, <3>1
      <4>2. QED
        BY <1>1, <4>1 DEF AllPlanned, Planned
    <3>3. t[1] = verdicts[i].component_id
      BY <1>4, <3>1, <3>2
    <3>4. t \in BundleTokens(verdicts[i].component_id, verdicts[i].signature_bundle)
      BY <1>2, <2>3, <3>3
    <3>5. QED
      BY <1>1, <3>4 DEF AllPlanned, Planned
  <2>6. QED
    BY <2>4, <2>5
<1>7. QED
  BY <1>5, <1>6

-----------------------------------------------------------------------------
(* The plan, step by step *)

\* The component loop starts from an empty plan
LEMMA CheckPlan ==
  ASSUME TypeInv, PlanInv, TakeSnapshot \/ CheckBindings \/ CheckHeader \/ CheckPayload
  PROVE  PlanInv'
<1>1. CASE TakeSnapshot
  <2>1. pc = "snapshot" /\ pc' \in {"bindings", "append"} /\ prepared' = prepared
    BY <1>1 DEF TakeSnapshot, Block, RejectPreflight
  <2>2. QED
    BY <2>1 DEF PlanInv
<1>2. CASE CheckBindings
  <2>1. pc = "bindings" /\ pc' \in {"header", "append"} /\ prepared' = prepared
    BY <1>2 DEF CheckBindings, Block, RejectPreflight, private
  <2>2. QED
    BY <2>1 DEF PlanInv
<1>3. CASE CheckHeader
  <2>1. /\ pc = "header" /\ pc' \in {"components", "append"}
        /\ prepared' = prepared /\ next' = next /\ receipt' = receipt
    BY <1>3 DEF CheckHeader, Block, RejectPreflight, private
  <2>2. prepared = {} /\ next = 1
    BY <2>1 DEF PlanInv, TypeInv, CallInv
  <2>3. Planned(receipt, next - 1) = {}
    BY <2>2 DEF Planned
  <2>4. QED
    BY <2>1, <2>2, <2>3 DEF PlanInv
<1>4. CASE CheckPayload
  <2>1. /\ pc = "payload" /\ pc' \in {"dry_run", "append"}
        /\ prepared' = prepared /\ receipt' = receipt
    BY <1>4 DEF CheckPayload, Block, RejectPreflight, private
  <2>2. QED
    BY <2>1 DEF PlanInv
<1>5. QED
  BY <1>1, <1>2, <1>3, <1>4

\* and adds one bundle per iteration, in the order of the receipt.
LEMMA PrepareComponentPlan ==
  ASSUME TypeInv, PlanInv, PrepareComponent
  PROVE  PlanInv'
<1> DEFINE verdicts == receipt.component_verdicts
           tokens == BundleTokens(verdicts[next].component_id, verdicts[next].signature_bundle)
<1>1. /\ pc = "components" /\ receipt' = receipt
      /\ \/ pc' = "append"
         \/ /\ pc' = IF next = Len(verdicts) THEN "receipt" ELSE "components"
            /\ next' = next + 1
            /\ prepared' = prepared \cup tokens
  BY DEF PrepareComponent, BoundReceipt, Block, RejectPreflight
<1>2. next \in Nat \ {0} /\ prepared = Planned(receipt, next - 1)
  BY <1>1 DEF TypeInv, TypeOK, PlanInv
<1>3. prepared \cup tokens = Planned(receipt, next)
  <2>1. 1..next = (1..(next - 1)) \cup {next}
    BY <1>2
  <2>2. QED
    BY <1>2, <2>1 DEF Planned
<1> HIDE DEF tokens
<1>4. CASE pc' = "append"
  BY <1>4 DEF PlanInv
<1>5. CASE /\ pc' = IF next = Len(verdicts) THEN "receipt" ELSE "components"
           /\ next' = next + 1
           /\ prepared' = prepared \cup tokens
  <2>1. next' - 1 = next /\ prepared' = Planned(receipt', next)
    BY <1>1, <1>2, <1>3, <1>5
  <2>2. CASE next = Len(verdicts)
    BY <1>1, <1>5, <2>1, <2>2 DEF PlanInv, AllPlanned
  <2>3. CASE next # Len(verdicts)
    BY <1>5, <2>1, <2>3 DEF PlanInv
  <2>4. QED
    BY <2>2, <2>3
<1>6. QED
  BY <1>1, <1>4, <1>5

\* The receipt's own bundle completes the plan.
LEMMA PrepareReceiptPlan ==
  ASSUME TypeInv, PlanInv, PrepareReceipt
  PROVE  PlanInv'
<1>1. /\ pc = "receipt" /\ receipt' = receipt
      /\ \/ pc' = "append"
         \/ /\ pc' = "payload"
            /\ prepared' = prepared \cup BundleTokens(Orchestrator, receipt.signature_bundle)
  BY DEF PrepareReceipt, BoundReceipt, Block, RejectPreflight
<1>2. QED
  BY <1>1 DEF PlanInv

\* The dry run lets a plan through only when it covers every artifact, and then
\* it is the set of the receipt's signatures.
LEMMA DryRunPlan ==
  ASSUME TypeInv, PlanInv, DryRun
  PROVE  PlanInv'
<1>1. /\ pc = "dry_run" /\ receipt' = receipt /\ prepared' = prepared
      /\ \/ pc' = "append"
         \/ pc' = "callbacks" /\ DryRunVerdict(receipt, registry, prepared) = Ok
  BY DEF DryRun, BoundReceipt, Block, RejectPreflight, private
<1>2. CASE pc' = "append"
  BY <1>2 DEF PlanInv
<1>3. CASE pc' = "callbacks" /\ DryRunVerdict(receipt, registry, prepared) = Ok
  <2>1. HoldsListings(receipt) /\ BundleBudgetsVerdict(receipt) = Ok
    BY <1>1, ListedInputs DEF TypeInv, CallInv, Checking
  <2>2. {t[1] : t \in prepared} = Artifacts
    BY <1>3, DryRunPasses, PlanPasses
  <2>3. /\ prepared \subseteq Artifacts \X Algorithms
        /\ prepared = AllPlanned(receipt)
                        \cup BundleTokens(Orchestrator, receipt.signature_bundle)
    BY <1>1 DEF TypeInv, TypeOK, PlanInv
  <2>4. prepared = Tokens(receipt)
    BY <2>1, <2>2, <2>3, PlanIsTokens
  <2>5. QED
    BY <1>1, <1>3, <2>4 DEF PlanInv
<1>4. QED
  BY <1>1, <1>2, <1>3

\* Nothing changes the plan while it is carried out.
LEMMA OtherPlan ==
  ASSUME TypeInv, PlanInv,
         \/ Call \/ CallWithBadArguments \/ RunCallback \/ FinalValidation \/ AppendBatch
         \/ Conclude \/ CallerOverwrites \/ Crash \/ UNCHANGED vars
  PROVE  PlanInv'
<1>1. CASE Call \/ CallWithBadArguments
  <2>1. pc' \in {"idle", "snapshot"} /\ prepared' = {}
    BY <1>1 DEF Call, CallWithBadArguments, Fresh
  <2>2. QED
    BY <2>1 DEF PlanInv
<1>2. CASE RunCallback
  <2>1. /\ pc = "callbacks" /\ pc' \in {"idle", "callbacks", "final", "append"}
        /\ receipt' = receipt /\ prepared' = prepared
    BY <1>2 DEF RunCallback, private
  <2>2. QED
    BY <2>1 DEF PlanInv
<1>3. CASE FinalValidation \/ AppendBatch \/ Conclude \/ Crash
  <2>1. pc' \in {"idle", "append", "ack"}
    BY <1>3 DEF FinalValidation, AppendBatch, Conclude, Crash
  <2>2. QED
    BY <2>1 DEF PlanInv
<1>4. CASE CallerOverwrites \/ UNCHANGED vars
  <2>1. UNCHANGED <<pc, receipt, next, prepared>>
    BY <1>4 DEF CallerOverwrites, private, vars
  <2>2. QED
    BY <2>1 DEF PlanInv
<1>5. QED
  BY <1>1, <1>2, <1>3, <1>4

\* Every step keeps the plan.
LEMMA PlanStep == TypeInv /\ PlanInv /\ [Next]_vars => PlanInv'
BY CheckPlan, PrepareComponentPlan, PrepareReceiptPlan, DryRunPlan, OtherPlan
DEF Next, Step, Finished

-----------------------------------------------------------------------------
(* The log, counted *)

\* One more event: what the log then holds.
LEMMA LogOneMore ==
  ASSUME NEW log \in Seq(Events), NEW e \in Events
  PROVE  /\ Len(Append(log, e)) = Len(log) + 1
         /\ Last(Append(log, e)) = e
         /\ (\A i \in DOMAIN log : log[i].verification_passed) /\ e.verification_passed
              => \A i \in DOMAIN Append(log, e) : Append(log, e)[i].verification_passed
<1>1. /\ Len(Append(log, e)) = Len(log) + 1 /\ Append(log, e)[Len(log) + 1] = e
      /\ \A i \in DOMAIN log : Append(log, e)[i] = log[i]
      /\ \A i \in DOMAIN Append(log, e) : i \in DOMAIN log \/ i = Len(log) + 1
  OBVIOUS
<1>2. QED
  BY <1>1 DEF Last

\* Before the dry run a block either leaves the passed preflight alone in the
\* log, or rejects.
LEMMA PreflightLog ==
  ASSUME TypeInv, EvidenceInv, LogInv,
         \/ TakeSnapshot \/ CheckBindings \/ CheckHeader \/ PrepareComponent
         \/ PrepareReceipt \/ CheckPayload
  PROVE  LogInv'
<1>1. /\ pc \in {"snapshot", "bindings", "header", "components", "receipt", "payload"}
      /\ result' = result
      /\ \/ pc' = "append" /\ verdict' # Ok
         \/ /\ pc' \in {"bindings", "header", "components", "receipt", "payload", "dry_run"}
            /\ events' = events
  BY DEF TakeSnapshot, CheckBindings, CheckHeader, PrepareComponent, PrepareReceipt,
         CheckPayload, Block, RejectPreflight
<1>2. result'.kind = "none"
  BY <1>1 DEF EvidenceInv
<1>3. QED
  BY <1>1, <1>2 DEF LogInv, ReleasedOnlyWithDurableEvidence

\* The dry run leaves the whole plan pending.
LEMMA DryRunLog ==
  ASSUME TypeInv, EvidenceInv, LogInv, DryRun
  PROVE  LogInv'
<1>1. /\ pc = "dry_run" /\ result' = result
      /\ pending' = prepared /\ prepared' = prepared
      /\ \/ pc' = "append" /\ verdict' # Ok
         \/ pc' = "callbacks" /\ events' = events
  BY DEF DryRun, Block, RejectPreflight, private
<1>2. result'.kind = "none" /\ events = <<PreflightEvent(Ok)>>
  BY <1>1 DEF EvidenceInv, LogInv
<1>3. CASE pc' = "append" /\ verdict' # Ok
  BY <1>2, <1>3 DEF LogInv, ReleasedOnlyWithDurableEvidence
<1>4. CASE pc' = "callbacks" /\ events' = events
  <2>1. Cardinality(prepared) \in Nat
    BY FinitelyManyTokens, FS_CardinalityType DEF TypeInv, TypeOK
  <2>2. Len(events') = 1 /\ DOMAIN events' = {1} /\ events'[1].verification_passed
    <3> DEFINE passed == PreflightEvent(Ok)
    <3>1. passed.verification_passed
      BY DEF PreflightEvent, Event
    <3>2. events' = <<passed>>
      BY <1>2, <1>4
    <3> HIDE DEF passed
    <3>3. Len(events') = 1 /\ DOMAIN events' = {1} /\ events'[1] = passed
      BY <3>2
    <3>4. QED
      BY <3>1, <3>3
  <2>3. Len(events') + Cardinality(pending') = Cardinality(prepared') + 1
    BY <1>1, <2>1, <2>2
  <2>4. AllPassed'
    BY <2>2 DEF AllPassed
  <2>5. QED
    BY <1>2, <1>4, <2>3, <2>4 DEF LogInv, ReleasedOnlyWithDurableEvidence
<1>5. QED
  BY <1>1, <1>3, <1>4

\* A callback that succeeds moves one unit from `pending` to the log; one that
\* fails makes the verdict a rejection.
LEMMA RunCallbackLog ==
  ASSUME TypeInv, EvidenceInv, LogInv, RunCallback
  PROVE  LogInv'
<1>1. /\ pc = "callbacks" /\ result.kind = "none" /\ receipt \in Offered
      /\ prepared' = prepared
  BY DEF RunCallback, EvidenceInv, TypeInv, CallInv, private
<1>2. \/ pc' = "idle" /\ result'.kind = "escaped"
      \/ pc' = "append" /\ result' = result /\ verdict' # Ok
      \/ /\ pc' \in {"callbacks", "final"} /\ result' = result
         /\ pc' = "final" => pending' = {}
         /\ \E token \in pending :
              /\ pending' = pending \ {token}
              /\ events' = Append(events, SignatureEvent(receipt, token, Ok = Ok, Ok))
  BY DEF RunCallback, BoundReceipt, NoResult
<1>3. CASE \/ pc' = "idle" /\ result'.kind = "escaped"
           \/ pc' = "append" /\ result' = result /\ verdict' # Ok
  BY <1>1, <1>3 DEF LogInv, ReleasedOnlyWithDurableEvidence
<1>4. CASE /\ pc' \in {"callbacks", "final"} /\ result' = result
           /\ pc' = "final" => pending' = {}
           /\ \E token \in pending :
                /\ pending' = pending \ {token}
                /\ events' = Append(events, SignatureEvent(receipt, token, Ok = Ok, Ok))
  <2>1. PICK token \in pending :
          /\ pending' = pending \ {token}
          /\ events' = Append(events, SignatureEvent(receipt, token, Ok = Ok, Ok))
    BY <1>4
  <2> DEFINE signed == SignatureEvent(receipt, token, Ok = Ok, Ok)
  <2>2. token \in Artifacts \X Algorithms /\ events \in Seq(Events)
    BY DEF TypeInv, TypeOK
  <2>3. signed \in Events
    BY <1>1, <2>2, EventTypes, SingleCheckReason
  <2>4. signed.verification_passed
    BY DEF SignatureEvent, Event
  <2>5. events' = Append(events, signed)
    BY <2>1
  <2> HIDE DEF signed
  <2>6. /\ Len(events) + Cardinality(pending) = Cardinality(prepared) + 1
        /\ AllPassed
    BY <1>1 DEF LogInv
  <2>7. /\ IsFiniteSet(pending)
        /\ Cardinality(pending) \in Nat /\ Cardinality(prepared) \in Nat
    BY FinitelyManyTokens, FS_CardinalityType DEF TypeInv, TypeOK
  <2>8. Cardinality(pending') = Cardinality(pending) - 1
    BY <2>1, <2>7, FS_RemoveElement
  <2>9. Len(events') = Len(events) + 1 /\ Len(events) \in Nat
    BY <2>2, <2>3, <2>5, LogOneMore
  <2>10. Len(events') + Cardinality(pending') = Cardinality(prepared') + 1
    BY <1>1, <2>6, <2>7, <2>8, <2>9
  <2>11. AllPassed'
    BY <2>2, <2>3, <2>4, <2>5, <2>6, LogOneMore DEF AllPassed
  <2>12. QED
    BY <1>1, <1>4, <2>10, <2>11 DEF LogInv, ReleasedOnlyWithDurableEvidence
<1>5. QED
  BY <1>2, <1>3, <1>4

\* The receipt's terminal completes the batch: nothing is pending any more.
LEMMA FinalValidationLog ==
  ASSUME TypeInv, EvidenceInv, PlanInv, LogInv, FinalValidation
  PROVE  LogInv'
<1> DEFINE outcome == FinalVerdict(receipt, registry, prepared)
           ended   == ArtifactEvent(receipt, Orchestrator, outcome)
<1>1. /\ pc = "final" /\ pc' = "append" /\ result' = result /\ receipt' = receipt
      /\ events' = Append(events, ended) /\ verdict' = outcome
  BY DEF FinalValidation, BoundReceipt, private
<1>2. receipt \in Offered /\ HoldsListings(receipt) /\ result.kind = "none"
  BY <1>1, ListedInputs DEF TypeInv, CallInv, EvidenceInv
<1>3. ended \in Events
  BY <1>2, FinalReason, EventTypes DEF Artifacts
<1>4. /\ ended.verification_passed = (outcome = Ok)
      /\ ended.event_type = "artifact" /\ ended.artifact_id = Orchestrator
  BY DEF ArtifactEvent, Event
<1> HIDE DEF outcome, ended
<1>5. /\ Len(events) + Cardinality(pending) = Cardinality(prepared) + 1
      /\ AllPassed /\ pending = {} /\ prepared = Tokens(receipt)
  BY <1>1 DEF LogInv, PlanInv
<1>6. /\ Cardinality(pending) = 0
      /\ Cardinality(prepared) \in Nat
      /\ events \in Seq(Events) /\ Len(events) \in Nat
  BY <1>5, FS_EmptySet, FinitelyManyTokens, FS_CardinalityType DEF TypeInv, TypeOK
<1>7. Len(events') = Cardinality(Tokens(receipt)) + 2 /\ Last(events') = ended
  BY <1>1, <1>3, <1>5, <1>6, LogOneMore
<1>8. verdict' = Ok => AllPassed'
  BY <1>1, <1>3, <1>4, <1>5, <1>6, LogOneMore DEF AllPassed
<1>9. verdict' = Ok => CompleteFor(receipt)'
  BY <1>1, <1>4, <1>7, <1>8 DEF CompleteFor
<1>10. QED
  BY <1>1, <1>2, <1>9 DEF LogInv, ReleasedOnlyWithDurableEvidence

\* The call returns only a receipt its batch is complete for.
LEMMA ConcludeLog ==
  ASSUME TypeInv, EvidenceInv, LogInv, Conclude
  PROVE  LogInv'
<1>1. /\ pc = "ack" /\ pc' = "idle" /\ events' = events /\ store' = store
  BY DEF Conclude, external
<1>2. result'.kind = "returned" =>
        Acknowledges(ack, events) /\ verdict = Ok /\ result'.receipt = receipt
  BY DEF Conclude, NoResult, BoundReceipt
<1>3. result'.kind = "returned" =>
        CompleteFor(receipt) /\ \E k \in DOMAIN store : store[k] = events
  BY <1>1, <1>2 DEF LogInv, EvidenceInv
<1>4. ReleasedOnlyWithDurableEvidence'
  BY <1>1, <1>2, <1>3 DEF ReleasedOnlyWithDurableEvidence, CompleteFor, AllPassed
<1>5. QED
  BY <1>1, <1>4 DEF LogInv

\* Nothing else touches the log.
LEMMA OtherLog ==
  ASSUME TypeInv, EvidenceInv, LogInv,
         \/ Call \/ CallWithBadArguments \/ AppendBatch
         \/ CallerOverwrites \/ Crash \/ UNCHANGED vars
  PROVE  LogInv'
<1>1. CASE Call
  BY <1>1 DEF Call, NoResult, LogInv, ReleasedOnlyWithDurableEvidence
<1>2. CASE CallWithBadArguments
  BY <1>2 DEF CallWithBadArguments, NoResult, LogInv, ReleasedOnlyWithDurableEvidence
<1>3. CASE AppendBatch
  <2>1. /\ pc = "append" /\ pc' = "ack" /\ result'.kind = "none"
        /\ events' = events /\ verdict' = verdict /\ receipt' = receipt
    BY <1>3 DEF AppendBatch, EvidenceInv, private
  <2>2. verdict' = Ok => CompleteFor(receipt)'
    BY <2>1 DEF LogInv, CompleteFor, AllPassed
  <2>3. QED
    BY <2>1, <2>2 DEF LogInv, ReleasedOnlyWithDurableEvidence
<1>4. CASE Crash
  BY <1>4 DEF Crash, NoResult, LogInv, ReleasedOnlyWithDurableEvidence
<1>5. CASE CallerOverwrites \/ UNCHANGED vars
  <2>1. /\ pc' = pc /\ events' = events /\ verdict' = verdict /\ receipt' = receipt
        /\ pending' = pending /\ prepared' = prepared /\ result' = result /\ store' = store
    BY <1>5 DEF CallerOverwrites, private, external, vars
  <2>2. ReleasedOnlyWithDurableEvidence'
    BY <2>1 DEF LogInv, ReleasedOnlyWithDurableEvidence
  <2>3. (pc' \in {"append", "ack"} /\ verdict' = Ok) => CompleteFor(receipt)'
    BY <2>1 DEF LogInv, CompleteFor, AllPassed
  <2>4. QED
    BY <2>1, <2>2, <2>3 DEF LogInv, AllPassed
<1>6. QED
  BY <1>1, <1>2, <1>3, <1>4, <1>5

\* Every step keeps the log.
LEMMA LogStep == TypeInv /\ EvidenceInv /\ PlanInv /\ LogInv /\ [Next]_vars => LogInv'
BY PreflightLog, DryRunLog, RunCallbackLog, FinalValidationLog, ConcludeLog, OtherLog
DEF Next, Step, Finished

\* A receipt is returned only when the sink holds, complete and durable, the batch
\* that records this call: one passed event per signature of the receipt, between
\* a passed preflight and the receipt's own terminal.
THEOREM ReleasedOnlyWithEvidence == Spec => []ReleasedOnlyWithDurableEvidence
<1> DEFINE IInv == TypeInv /\ EvidenceInv /\ PlanInv /\ LogInv
<1>1. Init => IInv
  <2>1. Init => EvidenceInv
    BY DEF Init, EvidenceInv, NoResult, RejectedOnlyWithDurableEvidence
  <2>2. Init => PlanInv /\ LogInv
    BY DEF Init, PlanInv, LogInv, NoResult, ReleasedOnlyWithDurableEvidence
  <2>3. QED
    BY <2>1, <2>2, InitType
<1>2. IInv /\ [Next]_vars => IInv'
  BY TypeStep, EvidenceStep, PlanStep, LogStep
<1>3. IInv => ReleasedOnlyWithDurableEvidence
  BY DEF LogInv
<1>4. QED
  BY <1>1, <1>2, <1>3, PTL DEF Spec

-----------------------------------------------------------------------------
(* The grammar of the batches *)

\* The checks of the final validation have passed before the first callback, and
\* they read nothing that changes after it.
ForeseenInv ==
  /\ pc = "dry_run" =>
       receipt.component_signature_results = ExpectedSignatureResults(receipt.component_verdicts)
  /\ pc \in {"callbacks", "final"} => FinalVerdict(receipt, registry, prepared) = Ok

\* The log while callbacks run, and the batch it becomes.
GrammarInv ==
  /\ pc \in {"callbacks", "final"} =>
       /\ events[1].event_type = "preflight"
       /\ \A i \in 2..Len(events) : events[i].event_type = "signature"
       /\ \A i \in 1..Len(events) : events[i].reason_id = Ok
  /\ BatchGrammar

\* What the payload block lets through has the signature results of its verdicts.
LEMMA PayloadPasses ==
  ASSUME NEW r, PayloadVerdict(r) = Ok
  PROVE  r.component_signature_results = ExpectedSignatureResults(r.component_verdicts)
<1> DEFINE matches == r.component_signature_results
                        = ExpectedSignatureResults(r.component_verdicts)
           Matched == Demand(matches, {})
           Meant   == ReceiptSemanticsVerdict(r)
           Sized   == ByteBudgetVerdict(r)
           Hashed  == Demand(r.receipt_hash = "own", {"hash"})
           Signed  == SignedHashVerdict(r)
           Each    == FirstFailure([i \in DOMAIN r.component_verdicts |->
                                      SignedHashVerdict(r.component_verdicts[i])])
<1>1. FirstFailure(<<Meant, Matched, Sized, Hashed, Signed, Each>>) = Ok
  BY DEF PayloadVerdict
<1>2. Matched = Ok
  <2> HIDE DEF Matched, Meant, Sized, Hashed, Signed, Each
  <2>1. QED
    BY <1>1, FirstFailure6
<1>3. QED
  BY <1>2, CheckPasses

\* The dry run is the final validation, short of the signature results.
LEMMA DryRunForesees ==
  ASSUME NEW r, NEW g, NEW plan, DryRunVerdict(r, g, plan) = Ok,
         r.component_signature_results = ExpectedSignatureResults(r.component_verdicts)
  PROVE  FinalVerdict(r, g, plan) = Ok
<1> DEFINE Planned4  == PlanVerdict(plan, {})
           Listed    == ComponentListVerdict(r.component_verdicts, g, VerificationTime, plan)
           Enveloped == ReceiptEnvelopeVerdict(r, g, VerificationTime, plan)
           Used      == Demand(plan \subseteq Tokens(r), {})
           Matched   == Demand(r.component_signature_results
                                 = ExpectedSignatureResults(r.component_verdicts),
                               {"signature", "contract"})
<1>1. FirstFailure(<<Planned4, Listed, Enveloped, Used>>) = Ok
  BY DEF DryRunVerdict
<1>2. Matched = Ok
  BY DEF Demand, Require
<1>3. FinalVerdict(r, g, plan) = FirstFailure(<<Listed, Matched, Enveloped, Used>>)
  BY DEF FinalVerdict
<1> HIDE DEF Planned4, Listed, Enveloped, Used, Matched
<1>4. Listed = Ok /\ Enveloped = Ok /\ Used = Ok
  BY <1>1, FirstFailure4
<1> DEFINE checks == <<Listed, Matched, Enveloped, Used>>
<1>5. DOMAIN checks = 1..4 /\ \A i \in 1..4 : checks[i] = Ok
  BY <1>2, <1>4
<1> HIDE DEF checks
<1>6. FirstFailure(checks) = Ok
  BY <1>5, FirstFailureResult
<1>7. QED
  BY <1>3, <1>6 DEF checks

\* So the outcome of the final validation is known when callbacks begin.
LEMMA ForeseenStep == TypeInv /\ ForeseenInv /\ [Next]_vars => ForeseenInv'
<1> SUFFICES ASSUME TypeInv, ForeseenInv, [Next]_vars
             PROVE  ForeseenInv'
  OBVIOUS
<1>1. CASE \/ TakeSnapshot \/ CheckBindings \/ CheckHeader \/ PrepareComponent
           \/ PrepareReceipt
  <2>1. pc' \in {"bindings", "header", "components", "receipt", "payload", "append"}
    BY <1>1 DEF TakeSnapshot, CheckBindings, CheckHeader, PrepareComponent, PrepareReceipt,
                Block, RejectPreflight
  <2>2. QED
    BY <2>1 DEF ForeseenInv
<1>2. CASE CheckPayload
  <2>1. /\ receipt' = receipt
        /\ \/ pc' = "append"
           \/ pc' = "dry_run" /\ PayloadVerdict(receipt) = Ok
    BY <1>2 DEF CheckPayload, Block, RejectPreflight, BoundReceipt, private
  <2>2. QED
    BY <2>1, PayloadPasses DEF ForeseenInv
<1>3. CASE DryRun
  <2>1. /\ receipt' = receipt /\ registry' = registry /\ prepared' = prepared
        /\ pc = "dry_run"
        /\ \/ pc' = "append"
           \/ pc' = "callbacks" /\ DryRunVerdict(receipt, registry, prepared) = Ok
    BY <1>3 DEF DryRun, Block, RejectPreflight, BoundReceipt, private
  <2>2. pc' = "callbacks" => FinalVerdict(receipt, registry, prepared) = Ok
    BY <2>1, DryRunForesees DEF ForeseenInv
  <2>3. QED
    BY <2>1, <2>2 DEF ForeseenInv
<1>4. CASE RunCallback
  <2>1. /\ receipt' = receipt /\ registry' = registry /\ prepared' = prepared
        /\ pc = "callbacks" /\ pc' # "dry_run"
    BY <1>4 DEF RunCallback, private
  <2>2. QED
    BY <2>1 DEF ForeseenInv
<1>5. CASE \/ Call \/ CallWithBadArguments \/ FinalValidation \/ AppendBatch \/ Conclude \/ Crash
  <2>1. pc' \in {"snapshot", "idle", "append", "ack"}
    BY <1>5 DEF Call, CallWithBadArguments, FinalValidation, AppendBatch, Conclude, Crash
  <2>2. QED
    BY <2>1 DEF ForeseenInv
<1>6. CASE CallerOverwrites \/ UNCHANGED vars
  <2>1. UNCHANGED <<pc, receipt, registry, prepared>>
    BY <1>6 DEF CallerOverwrites, private, vars
  <2>2. QED
    BY <2>1 DEF ForeseenInv
<1>7. QED
  BY <1>1, <1>2, <1>3, <1>4, <1>5, <1>6 DEF Next, Step, Finished

\* A block of checks that rejects makes a batch of one failed preflight event.
LEMMA BlockGrammar ==
  ASSUME TypeInv, LogInv, GrammarInv,
         \/ TakeSnapshot \/ CheckBindings \/ CheckHeader \/ PrepareComponent
         \/ PrepareReceipt \/ CheckPayload \/ DryRun
  PROVE  GrammarInv'
<1>1. \/ /\ pc' = "append" /\ \E reason : reason # Ok /\ events' = <<PreflightEvent(reason)>>
      \/ pc' \in {"bindings", "header", "components", "receipt", "payload", "dry_run"}
      \/ pc = "dry_run" /\ pc' = "callbacks" /\ events' = events
  BY DEF TakeSnapshot, CheckBindings, CheckHeader, PrepareComponent, PrepareReceipt,
         CheckPayload, DryRun, Block, RejectPreflight
<1>2. CASE pc' \in {"bindings", "header", "components", "receipt", "payload", "dry_run"}
  BY <1>2 DEF GrammarInv, BatchGrammar
<1>3. ASSUME NEW reason
      PROVE  LET e == PreflightEvent(reason)
             IN  /\ e.event_type = "preflight" /\ e.reason_id = reason
                 /\ e.verification_passed <=> reason = Ok
  BY DEF PreflightEvent, Event
<1>4. CASE pc' = "append" /\ \E reason : reason # Ok /\ events' = <<PreflightEvent(reason)>>
  <2>1. PICK reason : reason # Ok /\ events' = <<PreflightEvent(reason)>>
    BY <1>4
  <2> DEFINE e == PreflightEvent(reason)
  <2>2. e.event_type = "preflight" /\ ~e.verification_passed
    BY <1>3, <2>1
  <2>3. events' = <<e>>
    BY <2>1
  <2> HIDE DEF e
  <2>4. Len(events') = 1 /\ events'[1] = e
    BY <2>3
  <2>5. BatchGrammar'
    BY <2>2, <2>4 DEF BatchGrammar
  <2>6. QED
    BY <1>4, <2>5 DEF GrammarInv
<1>5. CASE pc = "dry_run" /\ pc' = "callbacks" /\ events' = events
  <2> DEFINE e == PreflightEvent(Ok)
  <2>1. e.event_type = "preflight" /\ e.reason_id = Ok
    BY <1>3
  <2>2. events' = <<e>>
    BY <1>5 DEF LogInv
  <2> HIDE DEF e
  <2>3. Len(events') = 1 /\ events'[1] = e
    BY <2>2
  <2>4. QED
    BY <1>5, <2>1, <2>3 DEF GrammarInv, BatchGrammar
<1>6. QED
  BY <1>1, <1>2, <1>4, <1>5

\* A batch with a passed preflight, passed signature events and a terminal that
\* agrees with the last event before it.
LEMMA BatchOf ==
  ASSUME NEW log \in Seq(Events), log # <<>>, NEW e \in Events,
         log[1].event_type = "preflight", log[1].verification_passed,
         \A i \in 2..Len(log) : log[i].event_type = "signature",
         \A i \in 1..(Len(log) - 1) : log[i].verification_passed,
         e.event_type = "artifact",
         e.verification_passed = log[Len(log)].verification_passed,
         e.reason_id = log[Len(log)].reason_id,
         ~e.verification_passed => e.artifact_id = log[Len(log)].artifact_id,
         events' = Append(log, e)
  PROVE  BatchGrammar'
<1>1. /\ Len(log) \in Nat /\ Len(log) >= 1
      /\ Len(events') = Len(log) + 1 /\ events'[Len(log) + 1] = e
      /\ \A i \in 1..Len(log) : events'[i] = log[i]
  OBVIOUS
<1>2. events'[1] = log[1] /\ events'[Len(log)] = log[Len(log)]
      /\ Len(events') # 1 /\ Len(events') - 1 = Len(log)
      /\ Len(events') - 2 = Len(log) - 1
  BY <1>1
<1>3. \A i \in 2..(Len(events') - 1) : events'[i].event_type = "signature"
  BY <1>1, <1>2
<1>4. \A i \in 2..(Len(events') - 2) : events'[i].verification_passed
  BY <1>1, <1>2
<1>5. events'[Len(events')] = e /\ events'[Len(events') - 1] = log[Len(log)]
  BY <1>1, <1>2
<1>6. QED
  BY <1>2, <1>3, <1>4, <1>5, Zenon DEF BatchGrammar

\* What one callback adds to the log.
LEMMA CallbackLogged ==
  ASSUME TypeInv, RunCallback
  PROVE  /\ pc = "callbacks" /\ receipt \in Offered /\ events \in Seq(Events) /\ events # <<>>
         /\ \/ pc' = "idle"
            \/ \E token \in pending, reason \in AuditReasonIds :
                 LET logged == Append(events, SignatureEvent(receipt, token, reason = Ok, reason))
                 IN  \/ /\ reason = Ok /\ pc' \in {"callbacks", "final"}
                        /\ events' = logged
                     \/ /\ reason # Ok /\ pc' = "append"
                        /\ events' = Append(logged, ArtifactEvent(receipt, token[1], reason))
<1>1. pc = "callbacks" /\ receipt \in Offered /\ events \in Seq(Events) /\ events # <<>>
  BY DEF RunCallback, TypeInv, TypeOK, CallInv
<1>2. \A answer \in Answers : AnswerReason(answer) \in AuditReasonIds
  BY DEF AnswerReason, Answers, AuditReasonIds
<1>3. \/ pc' = "idle"
      \/ \E token \in pending, answer \in Answers :
           LET reason == AnswerReason(answer)
               logged == Append(events, SignatureEvent(receipt, token, reason = Ok, reason))
           IN  \/ /\ reason = Ok /\ pc' \in {"callbacks", "final"}
                  /\ events' = logged
               \/ /\ reason # Ok /\ pc' = "append"
                  /\ events' = Append(logged, ArtifactEvent(receipt, token[1], reason))
  BY DEF RunCallback, BoundReceipt
<1>4. QED
  BY <1>1, <1>2, <1>3

\* A signature event and an artifact's terminal that carry the same reason.
LEMMA EventPair ==
  ASSUME NEW r \in Offered, NEW token \in Artifacts \X Algorithms, NEW reason \in AuditReasonIds
  PROVE  LET signed == SignatureEvent(r, token, reason = Ok, reason)
             ended  == ArtifactEvent(r, token[1], reason)
         IN  /\ signed \in Events /\ signed.event_type = "signature"
             /\ signed.artifact_id = token[1] /\ signed.reason_id = reason
             /\ signed.verification_passed <=> reason = Ok
             /\ signed.verification_passed \in BOOLEAN
             /\ ended \in Events /\ ended.event_type = "artifact"
             /\ ended.artifact_id = token[1] /\ ended.reason_id = reason
             /\ ended.verification_passed <=> reason = Ok
             /\ ended.verification_passed \in BOOLEAN
<1>1. token[1] \in Artifacts
  OBVIOUS
<1>2. /\ SignatureEvent(r, token, reason = Ok, reason) \in Events
      /\ ArtifactEvent(r, token[1], reason) \in Events
  BY <1>1, EventTypes
<1>3. QED
  BY <1>2 DEF SignatureEvent, ArtifactEvent, Event

\* A callback keeps the log well formed, and a failed one ends it.
LEMMA RunCallbackGrammar ==
  ASSUME TypeInv, LogInv, GrammarInv, RunCallback
  PROVE  GrammarInv'
<1>1. pc = "callbacks" /\ receipt \in Offered /\ events \in Seq(Events) /\ events # <<>>
  BY CallbackLogged
<1>2. /\ events[1].event_type = "preflight"
      /\ \A i \in 2..Len(events) : events[i].event_type = "signature"
      /\ \A i \in 1..Len(events) : events[i].reason_id = Ok
      /\ \A i \in 1..Len(events) : events[i].verification_passed
  <2>1. DOMAIN events = 1..Len(events)
    BY <1>1
  <2>2. QED
    BY <1>1, <2>1 DEF GrammarInv, LogInv, AllPassed
<1>3. CASE pc' = "idle"
  BY <1>3 DEF GrammarInv, BatchGrammar
<1>4. ASSUME NEW token \in pending, NEW reason \in AuditReasonIds,
             LET logged == Append(events, SignatureEvent(receipt, token, reason = Ok, reason))
             IN  \/ /\ reason = Ok /\ pc' \in {"callbacks", "final"}
                    /\ events' = logged
                 \/ /\ reason # Ok /\ pc' = "append"
                    /\ events' = Append(logged, ArtifactEvent(receipt, token[1], reason))
      PROVE  GrammarInv'
  <2> DEFINE signed == SignatureEvent(receipt, token, reason = Ok, reason)
             ended  == ArtifactEvent(receipt, token[1], reason)
             logged == Append(events, signed)
  <2>1. token \in Artifacts \X Algorithms
    BY DEF TypeInv, TypeOK
  <2>2. /\ signed \in Events /\ signed.event_type = "signature"
        /\ signed.artifact_id = token[1] /\ signed.reason_id = reason
        /\ signed.verification_passed <=> reason = Ok
        /\ signed.verification_passed \in BOOLEAN
        /\ ended \in Events /\ ended.event_type = "artifact"
        /\ ended.artifact_id = token[1] /\ ended.reason_id = reason
        /\ ended.verification_passed <=> reason = Ok
        /\ ended.verification_passed \in BOOLEAN
    BY <1>1, <2>1, EventPair
  <2>3. \/ reason = Ok /\ pc' \in {"callbacks", "final"} /\ events' = logged
        \/ reason # Ok /\ pc' = "append" /\ events' = Append(logged, ended)
    BY <1>4
  <2> HIDE DEF signed, ended
  <2>4. /\ logged \in Seq(Events) /\ logged # <<>>
        /\ Len(logged) = Len(events) + 1 /\ logged[Len(events) + 1] = signed
        /\ \A i \in 1..Len(events) : logged[i] = events[i]
        /\ Len(events) \in Nat /\ Len(events) >= 1
    BY <1>1, <2>2
  <2> HIDE DEF logged
  <2>5. logged[1].event_type = "preflight" /\ logged[1].verification_passed
    BY <1>2, <2>4
  <2>6. \A i \in 2..Len(logged) : logged[i].event_type = "signature"
    BY <1>2, <2>2, <2>4
  <2>7. CASE reason = Ok /\ pc' \in {"callbacks", "final"} /\ events' = logged
    <3>1. \A i \in 1..Len(logged) : logged[i].reason_id = Ok
      BY <1>2, <2>2, <2>4, <2>7
    <3>2. QED
      BY <2>5, <2>6, <2>7, <3>1 DEF GrammarInv, BatchGrammar
  <2>8. CASE reason # Ok /\ pc' = "append" /\ events' = Append(logged, ended)
    <3>1. \A i \in 1..(Len(logged) - 1) : logged[i].verification_passed
      BY <1>2, <2>4
    <3>2. logged[Len(logged)] = signed
      BY <2>4
    <3>3. ended.verification_passed = signed.verification_passed
      BY <2>2
    <3>4. BatchGrammar'
      BY <2>2, <2>4, <2>5, <2>6, <2>8, <3>1, <3>2, <3>3, BatchOf
    <3>5. QED
      BY <2>8, <3>4 DEF GrammarInv
  <2>9. QED
    BY <2>3, <2>7, <2>8
<1>5. QED
  BY <1>3, <1>4, CallbackLogged

\* The final validation passes, as foreseen, so its terminal agrees with the
\* last callback.
LEMMA FinalValidationGrammar ==
  ASSUME TypeInv, LogInv, ForeseenInv, GrammarInv, FinalValidation
  PROVE  GrammarInv'
<1>1. /\ pc = "final" /\ receipt \in Offered /\ events \in Seq(Events) /\ events # <<>>
      /\ FinalVerdict(receipt, registry, prepared) = Ok
  BY DEF FinalValidation, TypeInv, TypeOK, CallInv, ForeseenInv
<1> DEFINE ended == ArtifactEvent(receipt, Orchestrator, Ok)
<1>2. pc' = "append" /\ events' = Append(events, ended)
  BY <1>1 DEF FinalValidation, BoundReceipt
<1>3. ended \in Events
  BY <1>1, EventTypes, SingleCheckReason DEF Artifacts
<1>4. /\ ended.event_type = "artifact" /\ ended.reason_id = Ok
      /\ ended.verification_passed = TRUE
  BY DEF ArtifactEvent, Event
<1> HIDE DEF ended
<1>5. DOMAIN events = 1..Len(events) /\ Len(events) \in Nat /\ Len(events) >= 1
  BY <1>1
<1>6. /\ events[1].event_type = "preflight"
      /\ \A i \in 2..Len(events) : events[i].event_type = "signature"
      /\ \A i \in 1..Len(events) : events[i].reason_id = Ok
      /\ \A i \in 1..Len(events) : events[i].verification_passed
  BY <1>1, <1>5 DEF GrammarInv, LogInv, AllPassed
<1>7. events[1].verification_passed /\ events[Len(events)].reason_id = Ok
      /\ events[Len(events)].verification_passed
      /\ \A i \in 1..(Len(events) - 1) : events[i].verification_passed
  BY <1>5, <1>6
<1>8. events[Len(events)].verification_passed \in BOOLEAN
  <2>1. events[Len(events)] \in Events
    BY <1>1, <1>5
  <2>2. QED
    BY <2>1 DEF Events
<1>9. BatchGrammar'
  BY <1>1, <1>2, <1>3, <1>4, <1>6, <1>7, <1>8, BatchOf
<1>10. QED
  BY <1>2, <1>9 DEF GrammarInv

\* Nothing else writes to the log inside a call.
LEMMA OtherGrammar ==
  ASSUME GrammarInv,
         \/ Call \/ CallWithBadArguments \/ AppendBatch \/ Conclude
         \/ CallerOverwrites \/ Crash \/ UNCHANGED vars
  PROVE  GrammarInv'
<1>1. CASE Call \/ CallWithBadArguments \/ AppendBatch \/ Conclude \/ Crash
  <2>1. pc' \in {"snapshot", "idle", "ack"}
    BY <1>1 DEF Call, CallWithBadArguments, AppendBatch, Conclude, Crash
  <2>2. QED
    BY <2>1 DEF GrammarInv, BatchGrammar
<1>2. CASE CallerOverwrites \/ UNCHANGED vars
  <2>1. pc' = pc /\ events' = events
    BY <1>2 DEF CallerOverwrites, vars
  <2>2. QED
    BY <2>1 DEF GrammarInv, BatchGrammar
<1>3. QED
  BY <1>1, <1>2

\* Every step keeps the grammar.
LEMMA GrammarStep ==
  TypeInv /\ LogInv /\ ForeseenInv /\ GrammarInv /\ [Next]_vars => GrammarInv'
BY BlockGrammar, RunCallbackGrammar, FinalValidationGrammar, OtherGrammar
DEF Next, Step, Finished

\* Every batch offered to the sink is one failed preflight event, or a passed one
\* followed by signature events of which only the last may have failed, and by a
\* terminal with its artifact and reason: in particular the final validation never
\* turns down what the dry run let through.
THEOREM BatchesAreWellFormed == Spec => []BatchGrammar
<1> DEFINE IInv == TypeInv /\ EvidenceInv /\ PlanInv /\ LogInv /\ ForeseenInv /\ GrammarInv
<1>1. Init => IInv
  <2>1. Init => EvidenceInv
    BY DEF Init, EvidenceInv, NoResult, RejectedOnlyWithDurableEvidence
  <2>2. Init => PlanInv /\ LogInv
    BY DEF Init, PlanInv, LogInv, NoResult, ReleasedOnlyWithDurableEvidence
  <2>3. Init => ForeseenInv /\ GrammarInv
    <3>1. Init => pc = "idle"
      BY DEF Init
    <3>2. QED
      BY <3>1 DEF ForeseenInv, GrammarInv, BatchGrammar
  <2>4. QED
    BY <2>1, <2>2, <2>3, InitType
<1>2. IInv /\ [Next]_vars => IInv'
  BY TypeStep, EvidenceStep, PlanStep, LogStep, ForeseenStep, GrammarStep
<1>3. IInv => BatchGrammar
  BY DEF GrammarInv
<1>4. QED
  BY <1>1, <1>2, <1>3, PTL DEF Spec

-----------------------------------------------------------------------------
(* The blocks along a call *)

\* What a call that has come to this block knows to hold.
Cleared(here, r, g, plan, n) ==
  LET Prepares(i) == PrepareComponentVerdict(r.component_verdicts[i], g) = Ok
  IN  /\ here \in Checking => SnapshotVerdict(r, g) = Ok
      /\ here \in Checking \ {"bindings"} => BindingVerdict(r) = Ok
      /\ here \in Checking \ {"bindings", "header"} => HeaderVerdict(r, g) = Ok
      /\ here = "components" => \A i \in 1..(n - 1) : Prepares(i)
      /\ here \in {"receipt", "payload", "dry_run", "callbacks", "final"}
           => \A i \in DOMAIN r.component_verdicts : Prepares(i)
      /\ here \in {"payload", "dry_run", "callbacks", "final"}
           => PrepareReceiptVerdict(r, g, plan) = Ok
      /\ here \in {"dry_run", "callbacks", "final"} => PayloadVerdict(r) = Ok
      /\ here \in {"callbacks", "final"} => DryRunVerdict(r, g, plan) = Ok

AdmissionInv ==
  /\ Cleared(pc, receipt, registry, prepared, next)
  /\ (pc = "append" /\ Len(events) = 1) => ~Admissible(receipt, registry)

\* A call reads what a caller may pass.
LEMMA InputsTaken ==
  ASSUME TypeInv
  PROVE  /\ pc = "snapshot" => IsInput(callerReceipt, callerRegistry)
         /\ pc \notin {"idle", "snapshot"} => IsInput(receipt, registry)
<1>1. \A r \in Offered, g \in Registries : IsInput(r, g)
  BY ListedInputs, TypingAssumption DEF IsInput, Offered
<1>2. QED
  BY <1>1 DEF TypeInv, CallInv

\* The plan of an admissible receipt's bundles is the set of its signatures.
LEMMA PlanOfAdmissible ==
  ASSUME NEW r, NEW g, IsInput(r, g), Admissible(r, g)
  PROVE  AllPlanned(r) \cup BundleTokens(Orchestrator, r.signature_bundle) = Tokens(r)
<1> DEFINE verdicts == r.component_verdicts
           own == BundleTokens(Orchestrator, r.signature_bundle)
           plan == AllPlanned(r) \cup own
           planned(i) == BundleTokens(verdicts[i].component_id, verdicts[i].signature_bundle)
<1>1. HoldsListings(r) /\ BundleBudgetsVerdict(r) = Ok /\ DOMAIN verdicts = 1..Len(verdicts)
  BY AdmissibleBundles DEF IsInput, HoldsListings, IsListing
<1>2. \A a \in Artifacts : AlgorithmsOf(BundleOf(r, a)) \in {RequiredAlgorithms, Algorithms}
  BY AdmissibleBundles
<1>3. \A a \in Artifacts : /\ AlgorithmsOf(BundleOf(r, a)) \subseteq Algorithms
                            /\ "ml-dsa" \in AlgorithmsOf(BundleOf(r, a))
  BY <1>2 DEF RequiredAlgorithms, Algorithms
<1>4. \A i \in DOMAIN verdicts :
        /\ verdicts[i].component_id \in Artifacts
        /\ planned(i) = BundleTokens(verdicts[i].component_id,
                                     BundleOf(r, verdicts[i].component_id))
  BY AdmissibleBundles DEF Artifacts
<1>5. Orchestrator \in Artifacts /\ own = BundleTokens(Orchestrator, BundleOf(r, Orchestrator))
  BY DEF Artifacts, BundleOf
<1>6. plan = own \cup UNION {planned(i) : i \in DOMAIN verdicts}
  BY <1>1 DEF AllPlanned, Planned
<1>7. \A a \in ComponentIds : \E i \in DOMAIN verdicts : verdicts[i].component_id = a
  BY AdmissibleBundles
<1>8. \A a, b, t : t \in BundleTokens(a, b) <=> \E x \in AlgorithmsOf(b) : t = <<a, x>>
  BY DEF BundleTokens
<1> HIDE DEF plan, own, planned, verdicts
<1>9. \A t \in plan : \E a \in Artifacts : t \in BundleTokens(a, BundleOf(r, a))
  BY <1>4, <1>5, <1>6
<1>10. \A a \in Artifacts : BundleTokens(a, BundleOf(r, a)) \subseteq plan
  <2> SUFFICES ASSUME NEW a \in Artifacts PROVE BundleTokens(a, BundleOf(r, a)) \subseteq plan
    OBVIOUS
  <2>1. CASE a = Orchestrator
    BY <1>5, <1>6, <2>1
  <2>2. CASE a \in ComponentIds
    <3>1. PICK i \in DOMAIN verdicts : verdicts[i].component_id = a
      BY <1>7, <2>2
    <3>2. QED
      BY <1>4, <1>6, <3>1
  <2>3. QED
    BY <2>1, <2>2 DEF Artifacts
<1>11. plan \subseteq Artifacts \X Algorithms
  <2> SUFFICES ASSUME NEW t \in plan PROVE t \in Artifacts \X Algorithms
    OBVIOUS
  <2>1. PICK a \in Artifacts : t \in BundleTokens(a, BundleOf(r, a))
    BY <1>9
  <2>2. PICK x \in AlgorithmsOf(BundleOf(r, a)) : t = <<a, x>>
    BY <1>8, <2>1
  <2>3. QED
    BY <1>3, <2>2
<1>12. {t[1] : t \in plan} = Artifacts
  <2>1. \A t \in plan : t[1] \in Artifacts
    BY <1>11
  <2>2. ASSUME NEW a \in Artifacts PROVE \E t \in plan : t[1] = a
    <3>1. <<a, "ml-dsa">> \in BundleTokens(a, BundleOf(r, a))
      BY <1>3, <1>8
    <3>2. <<a, "ml-dsa">> \in plan /\ <<a, "ml-dsa">>[1] = a
      BY <1>10, <3>1
    <3>3. QED
      BY <3>2
  <2>3. QED
    BY <2>1, <2>2
<1>13. QED
  BY <1>1, <1>11, <1>12, PlanIsTokens DEF plan, own

\* A block that rejects has met a chain that is not admissible.
LEMMA RejectedIsInadmissible ==
  ASSUME NEW r, NEW g, IsInput(r, g), NEW plan,
         \/ SnapshotVerdict(r, g) # Ok \/ BindingVerdict(r) # Ok \/ HeaderVerdict(r, g) # Ok
         \/ \E i \in DOMAIN r.component_verdicts :
              PrepareComponentVerdict(r.component_verdicts[i], g) # Ok
         \/ PayloadVerdict(r) # Ok
         \/ /\ plan = AllPlanned(r) \cup BundleTokens(Orchestrator, r.signature_bundle)
            /\ PrepareReceiptVerdict(r, g, plan) # Ok \/ DryRunVerdict(r, g, plan) # Ok
  PROVE  ~Admissible(r, g)
<1> SUFFICES ASSUME Admissible(r, g) PROVE FALSE
  OBVIOUS
<1>1. Passed(r, g, Tokens(r))
  BY AdmissibleIsPassed
<1>2. AllPlanned(r) \cup BundleTokens(Orchestrator, r.signature_bundle) = Tokens(r)
  BY PlanOfAdmissible
<1>3. QED
  BY <1>1, <1>2 DEF Passed

\* A block of checks rejects an inadmissible chain, or passes on.
LEMMA TakeSnapshotAdmission ==
  ASSUME TypeInv, TakeSnapshot
  PROVE  AdmissionInv'
<1> DEFINE outcome == SnapshotVerdict(callerReceipt, callerRegistry)
<1>1. /\ pc = "snapshot" /\ receipt' = callerReceipt /\ registry' = callerRegistry
      /\ \/ outcome = Ok /\ pc' = "bindings"
         \/ outcome # Ok /\ pc' = "append"
  BY DEF TakeSnapshot, Block, RejectPreflight
<1>2. IsInput(receipt', registry')
  BY <1>1, InputsTaken
<1>3. CASE outcome = Ok /\ pc' = "bindings"
  BY <1>1, <1>3 DEF AdmissionInv, Cleared, Checking
<1>4. CASE outcome # Ok /\ pc' = "append"
  <2>1. ~Admissible(receipt', registry')
    BY <1>1, <1>2, <1>4, RejectedIsInadmissible
  <2>2. QED
    BY <1>4, <2>1 DEF AdmissionInv, Cleared, Checking
<1>5. QED
  BY <1>1, <1>3, <1>4

\* So do the bindings, the header and the payload.
LEMMA CheckAdmission ==
  ASSUME TypeInv, AdmissionInv, CheckBindings \/ CheckHeader \/ CheckPayload
  PROVE  AdmissionInv'
<1>1. PICK here, outcome, there :
        /\ \/ here = "bindings" /\ there = "header" /\ outcome = BindingVerdict(receipt)
           \/ here = "header" /\ there = "components" /\ outcome = HeaderVerdict(receipt, registry)
           \/ here = "payload" /\ there = "dry_run" /\ outcome = PayloadVerdict(receipt)
        /\ Block(here, outcome, there) /\ UNCHANGED private
  BY DEF CheckBindings, CheckHeader, CheckPayload, BoundReceipt
<1>2. /\ pc = here /\ UNCHANGED <<receipt, registry, prepared, next>>
      /\ \/ outcome = Ok /\ pc' = there
         \/ outcome # Ok /\ pc' = "append"
  BY <1>1 DEF Block, RejectPreflight, private
<1>3. IsInput(receipt, registry)
  BY <1>1, <1>2, InputsTaken
<1>4. CASE outcome = Ok /\ pc' = there
  <2>1. Cleared(pc, receipt, registry, prepared, next)
    BY DEF AdmissionInv
  <2>2. here = "header" => next = 1
    BY <1>2 DEF TypeInv, CallInv
  <2>3. here = "header" => \A i : i \notin 1..(next - 1)
    BY <2>2
  <2>4. Cleared(pc', receipt, registry, prepared, next)
    BY <1>1, <1>2, <1>4, <2>1, <2>3 DEF Cleared, Checking
  <2>5. pc' # "append"
    BY <1>1, <1>4
  <2>6. QED
    BY <1>2, <2>4, <2>5 DEF AdmissionInv
<1>5. CASE outcome # Ok /\ pc' = "append"
  <2>1. ~Admissible(receipt, registry)
    BY <1>1, <1>3, <1>5, RejectedIsInadmissible
  <2>2. QED
    BY <1>2, <1>5, <2>1 DEF AdmissionInv, Cleared, Checking
<1>6. QED
  BY <1>2, <1>4, <1>5

\* The component loop has prepared every verdict it left behind.
LEMMA PrepareComponentAdmission ==
  ASSUME TypeInv, AdmissionInv, PrepareComponent
  PROVE  AdmissionInv'
<1> DEFINE verdicts == receipt.component_verdicts
           Prepares(i) == PrepareComponentVerdict(verdicts[i], registry) = Ok
<1>1. /\ pc = "components" /\ receipt' = receipt /\ registry' = registry
      /\ \/ /\ Prepares(next) /\ next' = next + 1
            /\ pc' = IF next = Len(verdicts) THEN "receipt" ELSE "components"
         \/ ~Prepares(next) /\ pc' = "append"
  BY DEF PrepareComponent, BoundReceipt, Block, RejectPreflight
<1>2. /\ next \in DOMAIN verdicts /\ IsInput(receipt, registry)
      /\ DOMAIN verdicts = 1..Len(verdicts) /\ Len(verdicts) \in Nat
  <2>1. next \in DOMAIN verdicts /\ IsInput(receipt, registry)
    BY <1>1, InputsTaken DEF TypeInv, CallInv
  <2>2. QED
    BY <2>1, InputParts DEF IsListing
<1>3. /\ SnapshotVerdict(receipt, registry) = Ok /\ BindingVerdict(receipt) = Ok
      /\ HeaderVerdict(receipt, registry) = Ok
      /\ \A i \in 1..(next - 1) : Prepares(i)
  BY <1>1 DEF AdmissionInv, Cleared, Checking
<1>4. CASE ~Prepares(next) /\ pc' = "append"
  <2>1. ~Admissible(receipt, registry)
    BY <1>2, <1>4, RejectedIsInadmissible
  <2>2. QED
    BY <1>1, <1>4, <2>1 DEF AdmissionInv, Cleared, Checking
<1>5. CASE /\ Prepares(next) /\ next' = next + 1
           /\ pc' = IF next = Len(verdicts) THEN "receipt" ELSE "components"
  <2>1. \A i \in 1..next : i \in 1..(next - 1) \/ i = next
    BY <1>2
  <2> HIDE DEF Prepares
  <2>2. \A i \in 1..next : Prepares(i)
    BY <1>3, <1>5, <2>1
  <2>3. next' - 1 = next
    BY <1>2, <1>5
  <2>4. CASE next = Len(verdicts)
    <3>1. pc' = "receipt" /\ \A i \in DOMAIN verdicts : Prepares(i)
      BY <1>2, <1>5, <2>2, <2>4
    <3>2. QED
      BY <1>1, <1>3, <3>1 DEF AdmissionInv, Cleared, Checking, Prepares
  <2>5. CASE next # Len(verdicts)
    <3>1. pc' = "components" /\ \A i \in 1..(next' - 1) : Prepares(i)
      BY <1>5, <2>2, <2>3, <2>5
    <3>2. QED
      BY <1>1, <1>3, <3>1 DEF AdmissionInv, Cleared, Checking, Prepares
  <2>6. QED
    BY <2>4, <2>5
<1>6. QED
  BY <1>1, <1>4, <1>5

\* The last two blocks judge the whole plan.
LEMMA PlanAdmission ==
  ASSUME TypeInv, PlanInv, AdmissionInv, PrepareReceipt \/ DryRun
  PROVE  AdmissionInv'
<1> DEFINE whole == AllPlanned(receipt) \cup BundleTokens(Orchestrator, receipt.signature_bundle)
<1>1. PICK here, outcome, there :
        /\ \/ /\ here = "receipt" /\ there = "payload"
              /\ outcome = PrepareReceiptVerdict(receipt, registry, whole)
           \/ /\ here = "dry_run" /\ there = "callbacks"
              /\ outcome = DryRunVerdict(receipt, registry, whole)
              /\ prepared = whole
        /\ pc = here
        /\ UNCHANGED <<receipt, registry, next>>
        /\ \/ outcome = Ok /\ pc' = there /\ prepared' = whole
           \/ outcome # Ok /\ pc' = "append"
  <2>1. CASE PrepareReceipt
    <3>1. pc = "receipt"
      BY <2>1 DEF PrepareReceipt, Block
    <3>2. prepared = AllPlanned(receipt)
      BY <3>1 DEF PlanInv
    <3>3. QED
      BY <2>1, <3>1, <3>2 DEF PrepareReceipt, BoundReceipt, Block, RejectPreflight
  <2>2. CASE DryRun
    <3>1. pc = "dry_run"
      BY <2>2 DEF DryRun, Block
    <3>2. prepared = whole
      BY <3>1 DEF PlanInv
    <3>3. QED
      BY <2>2, <3>1, <3>2 DEF DryRun, BoundReceipt, Block, RejectPreflight, private
  <2>3. QED
    BY <2>1, <2>2
<1>2. IsInput(receipt, registry)
  BY <1>1, InputsTaken
<1>3. CASE outcome = Ok /\ pc' = there /\ prepared' = whole
  <2>1. Cleared(pc, receipt, registry, prepared, next)
    BY DEF AdmissionInv
  <2>2. Cleared(pc', receipt, registry, prepared', next)
    BY <1>1, <1>3, <2>1 DEF Cleared, Checking
  <2>3. pc' # "append"
    BY <1>1, <1>3
  <2>4. QED
    BY <1>1, <2>2, <2>3 DEF AdmissionInv
<1>4. CASE outcome # Ok /\ pc' = "append"
  <2>1. ~Admissible(receipt, registry)
    BY <1>1, <1>2, <1>4, RejectedIsInadmissible
  <2>2. QED
    BY <1>1, <1>4, <2>1 DEF AdmissionInv, Cleared, Checking
<1>5. QED
  BY <1>1, <1>3, <1>4

\* What comes after the cheap checks leaves their outcome alone: a batch that records
\* a callback or a terminal has more than one event.
LEMMA OtherAdmission ==
  ASSUME TypeInv, AdmissionInv,
         \/ Call \/ CallWithBadArguments \/ RunCallback \/ FinalValidation \/ AppendBatch
         \/ Conclude \/ CallerOverwrites \/ Crash \/ UNCHANGED vars
  PROVE  AdmissionInv'
<1>1. CASE Call \/ CallWithBadArguments \/ AppendBatch \/ Conclude \/ Crash
  <2>1. pc' \in {"idle", "snapshot", "ack"}
    BY <1>1 DEF Call, CallWithBadArguments, AppendBatch, Conclude, Crash
  <2>2. QED
    BY <2>1 DEF AdmissionInv, Cleared, Checking
<1>2. CASE CallerOverwrites \/ UNCHANGED vars
  <2>1. UNCHANGED <<pc, receipt, registry, prepared, next, events>>
    BY <1>2 DEF CallerOverwrites, private, vars
  <2>2. QED
    BY <2>1 DEF AdmissionInv
<1>3. CASE RunCallback
  <2>1. pc = "callbacks" /\ UNCHANGED <<receipt, registry, prepared, next>>
    BY <1>3 DEF RunCallback, private
  <2>2. CASE pc' \in {"idle", "callbacks", "final"}
    BY <2>1, <2>2 DEF AdmissionInv, Cleared, Checking
  <2>3. ASSUME NEW token \in pending, NEW reason \in AuditReasonIds,
               pc' = "append",
               events' = Append(Append(events, SignatureEvent(receipt, token, reason = Ok, reason)),
                                ArtifactEvent(receipt, token[1], reason))
        PROVE  AdmissionInv'
    <3> DEFINE signed == SignatureEvent(receipt, token, reason = Ok, reason)
               ended  == ArtifactEvent(receipt, token[1], reason)
    <3>1. receipt \in Offered /\ events \in Seq(Events) /\ events # <<>>
      BY <1>3, CallbackLogged
    <3>2. token \in Artifacts \X Algorithms
      BY DEF TypeInv, TypeOK
    <3>3. signed \in Events /\ ended \in Events
      BY <3>1, <3>2, EventPair
    <3>4. events' = Append(Append(events, signed), ended)
      BY <2>3
    <3> HIDE DEF signed, ended
    <3>5. Len(events') # 1
      BY <3>1, <3>3, <3>4
    <3>6. QED
      BY <2>3, <3>5 DEF AdmissionInv, Cleared, Checking
  <2>4. QED
    BY <1>3, <2>2, <2>3, CallbackLogged
<1>4. CASE FinalValidation
  <2>1. /\ pc = "final" /\ pc' = "append"
        /\ events' = Append(events, ArtifactEvent(receipt, Orchestrator,
                                                  FinalVerdict(receipt, registry, prepared)))
    BY <1>4 DEF FinalValidation, BoundReceipt
  <2>2. events \in Seq(Events) /\ events # <<>>
    BY <2>1 DEF TypeInv, TypeOK, CallInv
  <2>3. Len(events') # 1
    BY <2>1, <2>2
  <2>4. QED
    BY <2>1, <2>3 DEF AdmissionInv, Cleared, Checking
<1>5. QED
  BY <1>1, <1>2, <1>3, <1>4

\* Every step keeps what the blocks have established.
LEMMA AdmissionStep == TypeInv /\ PlanInv /\ AdmissionInv /\ [Next]_vars => AdmissionInv'
BY TakeSnapshotAdmission, CheckAdmission, PrepareComponentAdmission, PlanAdmission,
   OtherAdmission
DEF Next, Step, Finished

\* The cheap checks, spread over seven blocks, let through exactly the admissible
\* chains: no callback ever runs for another, and none of them is turned away before
\* its callbacks, whatever the receipts, the registries and the budgets.
THEOREM AdmissionExact == Spec => []AdmissionIsExact
<1>1. Init => TypeInv /\ PlanInv /\ AdmissionInv
  <2>1. Init => TypeInv
    BY InitType
  <2>2. Init => PlanInv /\ AdmissionInv
    BY DEF Init, PlanInv, AdmissionInv, Cleared, Checking
  <2>3. QED
    BY <2>1, <2>2
<1>2. TypeInv /\ PlanInv /\ AdmissionInv /\ [Next]_vars => (TypeInv /\ PlanInv /\ AdmissionInv)'
  BY TypeStep, PlanStep, AdmissionStep
<1>3. TypeInv /\ PlanInv /\ AdmissionInv => AdmissionIsExact
  <2> SUFFICES ASSUME TypeInv, PlanInv, AdmissionInv PROVE AdmissionIsExact
    OBVIOUS
  <2>1. ASSUME pc \in {"callbacks", "final"} PROVE Admissible(receipt, registry)
    <3>1. IsInput(receipt, registry) /\ prepared = Tokens(receipt)
      BY <2>1, InputsTaken DEF PlanInv
    <3>2. Passed(receipt, registry, prepared)
      BY <2>1 DEF AdmissionInv, Cleared, Checking, Passed
    <3>3. QED
      BY <3>1, <3>2, CheapChecksAreExact
  <2>2. QED
    BY <2>1 DEF AdmissionIsExact, AdmissionInv
<1>4. QED
  BY <1>1, <1>2, <1>3, PTL DEF Spec

-----------------------------------------------------------------------------
(* Callbacks: what the backend is asked, and what the log says of it.     *)

\* The blocks before the callbacks.
Cheap == {"snapshot", "bindings", "header", "components", "receipt", "payload", "dry_run"}

TokensOf(b) == {b[i].token : i \in DOMAIN b}

\* The callbacks about post-quantum signatures, made and planned.
PqcCalls(b) == {i \in DOMAIN b : b[i].token[2] \in PqcAlgorithms}

Pqc(plan) == {t \in plan : t[2] \in PqcAlgorithms}

\* The backend accepted every signature of r, each in one callback.
VerifiedBy(b, r) ==
  /\ TokensOf(b) = Tokens(r)
  /\ Len(b) = Cardinality(Tokens(r))
  /\ \A i \in DOMAIN b : b[i].answer = "true" /\ b[i].nonce = r.freshness_nonce

\* The backend, block by block.
BackendInv ==
  /\ pc \in Cheap => backend = <<>>
  /\ pc \in {"callbacks", "final"} =>
       /\ TokensOf(backend) = prepared \ pending
       /\ Len(backend) + Cardinality(pending) = Cardinality(prepared)
       /\ \A i \in DOMAIN backend :
            backend[i].answer = "true" /\ backend[i].nonce = receipt.freshness_nonce
  /\ (pc \in {"append", "ack"} /\ verdict = Ok) => VerifiedBy(backend, receipt)
  /\ ReturnedReceiptWasVerified

\* The counter, against the callbacks made and the plan.
WorkInv ==
  /\ WorkIsAccounted
  /\ pc = "callbacks" =>
       /\ Cardinality(prepared) <= MaxVerificationCalls
       /\ Cardinality(Pqc(prepared)) <= MaxPqcCalls
       /\ work.pqc + Cardinality(Pqc(pending)) = Cardinality(Pqc(prepared))

\* The order of the callbacks, and of what is still pending behind them.
OrderInv ==
  /\ backend # <<>> => TokensOf(backend) = prepared \ pending
  /\ \A j \in DOMAIN backend : \A i \in 1..(j - 1) :
       /\ backend[i].answer = "true"
       /\ Before(backend[i].token, backend[j].token)
       /\ backend[i].token # backend[j].token
  /\ \A j \in DOMAIN backend : \A t \in pending : Before(backend[j].token, t)

-----------------------------------------------------------------------------
(* One more callback *)

\* What the end of a sequence changes about it.
LEMMA OneMoreCall ==
  ASSUME NEW b \in Seq(BackendCalls), NEW c \in BackendCalls
  PROVE  /\ Len(b) \in Nat /\ DOMAIN b = 1..Len(b)
         /\ Len(Append(b, c)) = Len(b) + 1
         /\ DOMAIN Append(b, c) = 1..(Len(b) + 1)
         /\ \A i \in 1..Len(b) : Append(b, c)[i] = b[i]
         /\ Append(b, c)[Len(b) + 1] = c
OBVIOUS

\* It adds one token.
LEMMA TokensGrow ==
  ASSUME NEW b \in Seq(BackendCalls), NEW c \in BackendCalls
  PROVE  TokensOf(Append(b, c)) = TokensOf(b) \cup {c.token}
<1>1. \A i \in 1..(Len(b) + 1) : i \in 1..Len(b) \/ i = Len(b) + 1
  BY OneMoreCall
<1>2. \A i \in 1..Len(b) : i \in 1..(Len(b) + 1)
  BY OneMoreCall
<1>3. Len(b) + 1 \in 1..(Len(b) + 1)
  BY OneMoreCall
<1>4. QED
  BY <1>1, <1>2, <1>3, OneMoreCall DEF TokensOf

\* And one post-quantum callback if that is what it was.
LEMMA PqcCallsGrow ==
  ASSUME NEW b \in Seq(BackendCalls), NEW c \in BackendCalls
  PROVE  /\ IsFiniteSet(PqcCalls(b)) /\ Cardinality(PqcCalls(b)) \in Nat
         /\ Cardinality(PqcCalls(Append(b, c))) = Cardinality(PqcCalls(b)) + IsPqc(c.token[2])
<1>1. IsFiniteSet(1..Len(b))
  BY OneMoreCall, FS_Interval
<1>2. PqcCalls(b) \subseteq 1..Len(b)
  BY OneMoreCall DEF PqcCalls
<1>3. IsFiniteSet(PqcCalls(b)) /\ Cardinality(PqcCalls(b)) \in Nat
  BY <1>1, <1>2, FS_Subset, FS_CardinalityType
<1>4. \A i \in 1..(Len(b) + 1) : i \in 1..Len(b) \/ i = Len(b) + 1
  BY OneMoreCall
<1>5. Len(b) + 1 \in 1..(Len(b) + 1) /\ Len(b) + 1 \notin 1..Len(b)
      /\ \A i \in 1..Len(b) : i \in 1..(Len(b) + 1)
  BY OneMoreCall
<1>6. CASE c.token[2] \in PqcAlgorithms
  <2>1. PqcCalls(Append(b, c)) = PqcCalls(b) \cup {Len(b) + 1}
    BY <1>4, <1>5, <1>6, OneMoreCall DEF PqcCalls
  <2>2. Len(b) + 1 \notin PqcCalls(b)
    BY <1>2, <1>5
  <2>3. Cardinality(PqcCalls(Append(b, c))) = Cardinality(PqcCalls(b)) + 1
    BY <1>3, <2>1, <2>2, FS_AddElement
  <2>4. QED
    BY <1>3, <1>6, <2>3 DEF IsPqc
<1>7. CASE c.token[2] \notin PqcAlgorithms
  <2>1. PqcCalls(Append(b, c)) = PqcCalls(b)
    BY <1>4, <1>5, <1>7, OneMoreCall DEF PqcCalls
  <2>2. QED
    BY <1>3, <1>7, <2>1 DEF IsPqc
<1>8. QED
  BY <1>3, <1>6, <1>7

\* A token that is taken from a plan.
LEMMA PlanShrinks ==
  ASSUME NEW plan, plan \subseteq Artifacts \X Algorithms, NEW token \in plan
  PROVE  /\ Cardinality(plan) \in Nat /\ Cardinality(plan \ {token}) \in Nat
         /\ Cardinality(plan) = Cardinality(plan \ {token}) + 1
         /\ Cardinality(Pqc(plan)) \in Nat /\ Cardinality(Pqc(plan \ {token})) \in Nat
         /\ Cardinality(Pqc(plan)) = Cardinality(Pqc(plan \ {token})) + IsPqc(token[2])
<1>1. IsFiniteSet(plan) /\ IsFiniteSet(Pqc(plan))
  BY FinitelyManyTokens, FS_Subset DEF Pqc
<1>2. IsFiniteSet(plan \ {token}) /\ IsFiniteSet(Pqc(plan \ {token}))
  BY FinitelyManyTokens, FS_Subset DEF Pqc
<1>3. /\ Cardinality(plan) \in Nat /\ Cardinality(Pqc(plan)) \in Nat
      /\ Cardinality(plan \ {token}) \in Nat /\ Cardinality(Pqc(plan \ {token})) \in Nat
  BY <1>1, <1>2, FS_CardinalityType
<1>4. Cardinality(plan \ {token}) = Cardinality(plan) - 1
  BY <1>1, FS_RemoveElement
<1>5. CASE token[2] \in PqcAlgorithms
  <2>1. Pqc(plan \ {token}) = Pqc(plan) \ {token} /\ token \in Pqc(plan)
    BY <1>5 DEF Pqc
  <2>2. Cardinality(Pqc(plan \ {token})) = Cardinality(Pqc(plan)) - 1
    BY <1>1, <2>1, FS_RemoveElement
  <2>3. IsPqc(token[2]) = 1
    BY <1>5 DEF IsPqc
  <2>4. QED
    BY <1>3, <1>4, <2>2, <2>3
<1>6. CASE token[2] \notin PqcAlgorithms
  <2>1. Pqc(plan \ {token}) = Pqc(plan)
    BY <1>6 DEF Pqc
  <2>2. IsPqc(token[2]) = 0
    BY <1>6 DEF IsPqc
  <2>3. QED
    BY <1>3, <1>4, <2>1, <2>2
<1>7. QED
  BY <1>5, <1>6

-----------------------------------------------------------------------------
(* Steps, as far as the backend is concerned *)

\* What RunCallback does, with the token and the answer named.
Made(token, answer) ==
  /\ \A other \in pending : Before(token, other)
  /\ work' = Counted(work, token[2])
  /\ backend' = Append(backend, [nonce |-> receipt.freshness_nonce, token |-> token,
                                 answer |-> answer])
  /\ pending' = pending \ {token}
  /\ result' = result
  /\ \/ /\ answer = "true" /\ pc' \in {"callbacks", "final"}
     \/ pc' = "append" /\ verdict' # Ok

Escaped(token) ==
  /\ ~CounterAdmits(Counted(work, token[2]))
  /\ pc' = "idle"

\* A callback is made, or the counter refuses it.
LEMMA CallbackMade ==
  ASSUME TypeInv, RunCallback
  PROVE  /\ pc = "callbacks" /\ prepared' = prepared /\ receipt' = receipt
         /\ \E token \in pending, answer \in Answers : Escaped(token) \/ Made(token, answer)
<1>1. pc = "callbacks" /\ prepared' = prepared /\ receipt' = receipt
  BY DEF RunCallback, private
<1>2. PICK token \in pending, answer \in Answers :
        LET reason  == AnswerReason(answer)
            charged == Counted(work, token[2])
        IN  /\ \A other \in pending : Before(token, other)
            /\ IF ~CounterAdmits(charged)
               THEN pc' = "idle"
               ELSE /\ work' = charged
                    /\ backend' = Append(backend,
                         [nonce |-> BoundReceipt.freshness_nonce, token |-> token,
                          answer |-> answer])
                    /\ pending' = pending \ {token}
                    /\ IF reason = Ok
                       THEN pc' = IF pending' = {} THEN "final" ELSE "callbacks"
                       ELSE verdict' = reason /\ pc' = "append"
                    /\ result' = result
  BY Zenon DEF RunCallback
<1>3. AnswerReason(answer) = Ok => answer = "true"
  BY DEF AnswerReason, Answers, Ok
<1>4. Escaped(token) \/ Made(token, answer)
  BY <1>2, <1>3 DEF Escaped, Made, BoundReceipt
<1>5. QED
  BY <1>1, <1>4

\* The call a callback makes is one the backend can be asked.
LEMMA CallTypes ==
  ASSUME TypeInv, pc = "callbacks", NEW token \in pending, NEW answer \in Answers
  PROVE  /\ [nonce |-> receipt.freshness_nonce, token |-> token, answer |-> answer]
              \in BackendCalls
         /\ backend \in Seq(BackendCalls)
         /\ token \in prepared /\ prepared \subseteq Artifacts \X Algorithms
         /\ pending \subseteq prepared
         /\ work \in [calls : Nat, pqc : Nat]
<1>1. receipt \in Receipts \cup Overwrites
  BY DEF TypeInv, CallInv, Offered
<1>2. token \in Artifacts \X Algorithms /\ pending \subseteq prepared
      /\ prepared \subseteq Artifacts \X Algorithms /\ backend \in Seq(BackendCalls)
      /\ work \in [calls : Nat, pqc : Nat]
  BY DEF TypeInv, TypeOK
<1>3. QED
  BY <1>1, <1>2 DEF BackendCalls

\* The other steps of a call, the dry run aside, ask the backend nothing.
LEMMA QuietBlocks ==
  ASSUME \/ TakeSnapshot \/ CheckBindings \/ CheckHeader \/ PrepareComponent
         \/ PrepareReceipt \/ CheckPayload \/ DryRun
  PROVE  /\ pc \in Cheap
         /\ backend' = backend /\ work' = work /\ result' = result
         /\ \/ pc' \in Cheap
            \/ pc' = "append" /\ verdict' # Ok
            \/ /\ DryRun /\ pc' = "callbacks" /\ DryRunVerdict(receipt, registry, prepared) = Ok
               /\ prepared' = prepared /\ pending' = prepared /\ receipt' = receipt
BY DEF TakeSnapshot, CheckBindings, CheckHeader, PrepareComponent, PrepareReceipt,
       CheckPayload, DryRun, Block, RejectPreflight, external, private, BoundReceipt, Cheap

\* The other steps of a call after its callbacks, and those outside of one.
LEMMA QuietEnds ==
  ASSUME \/ FinalValidation \/ AppendBatch \/ Conclude
         \/ CallerOverwrites \/ Crash \/ UNCHANGED vars
  PROVE  UNCHANGED <<receipt, prepared, pending, backend, work>>
<1>1. CASE FinalValidation \/ AppendBatch \/ Conclude \/ Crash \/ CallerOverwrites
  <2>1. UNCHANGED private /\ UNCHANGED <<pending, work, backend>>
    BY <1>1 DEF FinalValidation, AppendBatch, Conclude, Crash, CallerOverwrites, external
  <2>2. QED
    BY <2>1 DEF private
<1>2. CASE UNCHANGED vars
  BY <1>2 DEF vars
<1>3. QED
  BY <1>1, <1>2

\* A call begins with nothing asked and nothing counted.
LEMMA CallBegins ==
  ASSUME Call \/ CallWithBadArguments
  PROVE  /\ backend' = <<>> /\ work' = [calls |-> 0, pqc |-> 0]
         /\ pc' \in {"snapshot", "idle"}
         /\ result'.kind \in {"none", "argument_error"}
<1>1. backend' = <<>> /\ work' = [calls |-> 0, pqc |-> 0] /\ pc' \in {"snapshot", "idle"}
  BY DEF Call, CallWithBadArguments, Fresh
<1>2. result'.kind \in {"none", "argument_error"}
  BY DEF Call, CallWithBadArguments, NoResult
<1>3. QED
  BY <1>1, <1>2

\* No callback, no post-quantum callback.
LEMMA NoCalls == TokensOf(<<>>) = {} /\ PqcCalls(<<>>) = {} /\ Cardinality(PqcCalls(<<>>)) = 0
<1>1. TokensOf(<<>>) = {} /\ PqcCalls(<<>>) = {}
  BY DEF TokensOf, PqcCalls
<1>2. QED
  BY <1>1, FS_EmptySet

-----------------------------------------------------------------------------
(* The counter *)

\* A callback the plan holds is one the counter admits.
LEMMA CounterHolds ==
  ASSUME TypeInv, BackendInv, WorkInv, pc = "callbacks", NEW token \in pending
  PROVE  CounterAdmits(Counted(work, token[2]))
<1>1. /\ pending \subseteq prepared /\ prepared \subseteq Artifacts \X Algorithms
      /\ backend \in Seq(BackendCalls)
      /\ work \in [calls : Nat, pqc : Nat]
  BY DEF TypeInv, TypeOK
<1>2. pending \subseteq Artifacts \X Algorithms
  BY <1>1
<1>3. /\ Cardinality(pending) \in Nat /\ Cardinality(pending \ {token}) \in Nat
      /\ Cardinality(pending) = Cardinality(pending \ {token}) + 1
      /\ Cardinality(Pqc(pending)) \in Nat /\ Cardinality(Pqc(pending \ {token})) \in Nat
      /\ Cardinality(Pqc(pending)) = Cardinality(Pqc(pending \ {token})) + IsPqc(token[2])
  BY <1>2, PlanShrinks
<1>4. /\ work.calls = Len(backend) /\ Len(backend) \in Nat
      /\ work.pqc \in Nat
      /\ Len(backend) + Cardinality(pending) = Cardinality(prepared)
      /\ Cardinality(prepared) <= MaxVerificationCalls
      /\ Cardinality(Pqc(prepared)) <= MaxPqcCalls
      /\ work.pqc + Cardinality(Pqc(pending)) = Cardinality(Pqc(prepared))
  BY <1>1 DEF BackendInv, WorkInv, WorkIsAccounted
<1>5. /\ Cardinality(prepared) \in Nat /\ Cardinality(Pqc(prepared)) \in Nat
      /\ IsPqc(token[2]) \in {0, 1}
  BY <1>1, PlanShrinks DEF IsPqc
<1>6. work.calls + 1 <= MaxVerificationCalls
  BY <1>3, <1>4, <1>5, LimitsAssumption
<1>7. work.pqc + IsPqc(token[2]) <= MaxPqcCalls
  BY <1>3, <1>4, <1>5, LimitsAssumption
<1>8. /\ Counted(work, token[2]).calls = work.calls + 1
      /\ Counted(work, token[2]).pqc = work.pqc + IsPqc(token[2])
  BY DEF Counted
<1>9. QED
  BY <1>6, <1>7, <1>8 DEF CounterAdmits

\* So every callback is made, and charged.
LEMMA RunCallbackWork ==
  ASSUME TypeInv, BackendInv, WorkInv, RunCallback
  PROVE  WorkInv'
<1>1. /\ pc = "callbacks" /\ prepared' = prepared /\ receipt' = receipt
      /\ \E token \in pending, answer \in Answers : Escaped(token) \/ Made(token, answer)
  BY CallbackMade
<1>2. PICK token \in pending, answer \in Answers : Escaped(token) \/ Made(token, answer)
  BY <1>1
<1>3. Made(token, answer)
  BY <1>1, <1>2, CounterHolds DEF Escaped
<1> DEFINE call == [nonce |-> receipt.freshness_nonce, token |-> token, answer |-> answer]
<1>4. call \in BackendCalls /\ backend \in Seq(BackendCalls)
      /\ pending \subseteq Artifacts \X Algorithms
      /\ work \in [calls : Nat, pqc : Nat]
  BY <1>1, CallTypes
<1>5. /\ work' = Counted(work, token[2]) /\ pending' = pending \ {token}
      /\ result' = result /\ backend' = Append(backend, call) /\ call.token = token
  BY <1>3 DEF Made
<1>6. work'.calls = work.calls + 1 /\ work'.pqc = work.pqc + IsPqc(token[2])
  BY <1>5 DEF Counted
<1> HIDE DEF call
<1>7. Len(backend') = Len(backend) + 1
  BY <1>4, <1>5, OneMoreCall
<1>8. /\ Cardinality(PqcCalls(backend)) \in Nat
      /\ Cardinality(PqcCalls(backend')) = Cardinality(PqcCalls(backend)) + IsPqc(token[2])
  BY <1>4, <1>5, PqcCallsGrow
<1>9. /\ work.calls = Len(backend) /\ work.pqc = Cardinality(PqcCalls(backend))
      /\ result.kind # "escaped"
  BY DEF WorkInv, WorkIsAccounted, PqcCalls
<1>10. WorkIsAccounted'
  BY <1>5, <1>6, <1>7, <1>8, <1>9, Zenon DEF WorkIsAccounted, PqcCalls
<1>11. /\ Cardinality(Pqc(pending)) \in Nat /\ Cardinality(Pqc(pending')) \in Nat
       /\ Cardinality(Pqc(pending)) = Cardinality(Pqc(pending')) + IsPqc(token[2])
  BY <1>4, <1>5, PlanShrinks
<1>12. /\ work.pqc \in Nat /\ IsPqc(token[2]) \in Nat
       /\ work.pqc + Cardinality(Pqc(pending)) = Cardinality(Pqc(prepared))
       /\ Cardinality(prepared) <= MaxVerificationCalls
       /\ Cardinality(Pqc(prepared)) <= MaxPqcCalls
  BY <1>1, <1>4 DEF WorkInv, IsPqc
<1>13. work'.pqc + Cardinality(Pqc(pending')) = Cardinality(Pqc(prepared))
  BY <1>6, <1>11, <1>12
<1>14. QED
  BY <1>1, <1>10, <1>12, <1>13 DEF WorkInv

\* The dry run lets no plan through that the counter would refuse.
LEMMA BlocksWork ==
  ASSUME TypeInv, BackendInv, WorkInv,
         \/ TakeSnapshot \/ CheckBindings \/ CheckHeader \/ PrepareComponent
         \/ PrepareReceipt \/ CheckPayload \/ DryRun
  PROVE  WorkInv'
<1>1. /\ pc \in Cheap
      /\ backend' = backend /\ work' = work /\ result' = result
      /\ \/ pc' \in Cheap
         \/ pc' = "append" /\ verdict' # Ok
         \/ /\ DryRun /\ pc' = "callbacks" /\ DryRunVerdict(receipt, registry, prepared) = Ok
            /\ prepared' = prepared /\ pending' = prepared /\ receipt' = receipt
  BY QuietBlocks
<1>2. WorkIsAccounted'
  BY <1>1 DEF WorkInv, WorkIsAccounted
<1>3. CASE pc' # "callbacks"
  BY <1>2, <1>3 DEF WorkInv
<1>4. CASE pc' = "callbacks"
  <2>1. /\ DryRunVerdict(receipt, registry, prepared) = Ok
        /\ prepared' = prepared /\ pending' = prepared
    BY <1>1, <1>4 DEF Cheap
  <2>2. /\ Cardinality(prepared) <= MaxVerificationCalls
        /\ Cardinality(Pqc(prepared)) <= MaxPqcCalls
    BY <2>1, DryRunPasses, PlanPasses DEF Pqc
  <2>3. backend = <<>>
    BY <1>1 DEF BackendInv
  <2>4. work.pqc = 0
    BY <2>3, NoCalls DEF WorkInv, WorkIsAccounted, PqcCalls
  <2>5. Cardinality(Pqc(prepared)) \in Nat
    <3>1. IsFiniteSet(Pqc(prepared))
      BY FinitelyManyTokens, FS_Subset DEF Pqc, TypeInv, TypeOK
    <3>2. QED
      BY <3>1, FS_CardinalityType
  <2>6. work'.pqc + Cardinality(Pqc(pending')) = Cardinality(Pqc(prepared'))
    BY <1>1, <2>1, <2>4, <2>5
  <2>7. QED
    BY <1>2, <2>1, <2>2, <2>6 DEF WorkInv
<1>5. QED
  BY <1>3, <1>4

\* Nothing else touches counter or backend.
LEMMA OtherWork ==
  ASSUME TypeInv, WorkInv,
         \/ Call \/ CallWithBadArguments \/ FinalValidation \/ AppendBatch \/ Conclude
         \/ CallerOverwrites \/ Crash \/ UNCHANGED vars
  PROVE  WorkInv'
<1>1. CASE Call \/ CallWithBadArguments
  <2>1. /\ backend' = <<>> /\ work' = [calls |-> 0, pqc |-> 0]
        /\ pc' \in {"snapshot", "idle"}
        /\ result'.kind \in {"none", "argument_error"}
    BY <1>1, CallBegins
  <2>2. Len(backend') = 0 /\ Cardinality(PqcCalls(backend')) = 0
    BY <2>1, NoCalls
  <2>3. work'.calls = 0 /\ work'.pqc = 0
    BY <2>1
  <2>4. WorkIsAccounted'
    BY <2>1, <2>2, <2>3 DEF WorkIsAccounted, PqcCalls
  <2>5. QED
    BY <2>1, <2>4 DEF WorkInv
<1>2. CASE \/ FinalValidation \/ AppendBatch \/ Conclude
           \/ CallerOverwrites \/ Crash \/ UNCHANGED vars
  <2>1. UNCHANGED <<receipt, prepared, pending, backend, work>>
    BY <1>2, QuietEnds
  <2>2. pc' = "callbacks" => pc = "callbacks"
    BY <1>2 DEF FinalValidation, AppendBatch, Conclude, CallerOverwrites, Crash, vars
  <2>3. result' = result \/ result'.kind # "escaped"
    BY <1>2 DEF FinalValidation, AppendBatch, Conclude, CallerOverwrites, Crash, NoResult, vars
  <2>4. WorkIsAccounted'
    BY <2>1, <2>3 DEF WorkInv, WorkIsAccounted
  <2>5. QED
    BY <2>1, <2>2, <2>4 DEF WorkInv
<1>3. QED
  BY <1>1, <1>2

\* Every step keeps the counter.
LEMMA WorkStep == TypeInv /\ BackendInv /\ WorkInv /\ [Next]_vars => WorkInv'
BY RunCallbackWork, BlocksWork, OtherWork DEF Next, Step, Finished

-----------------------------------------------------------------------------
(* The backend *)

\* A callback moves its token from `pending` to the backend.
LEMMA RunCallbackBackend ==
  ASSUME TypeInv, EvidenceInv, BackendInv, RunCallback
  PROVE  BackendInv'
<1>1. /\ pc = "callbacks" /\ prepared' = prepared /\ receipt' = receipt
      /\ \E token \in pending, answer \in Answers : Escaped(token) \/ Made(token, answer)
  BY CallbackMade
<1>2. PICK token \in pending, answer \in Answers : Escaped(token) \/ Made(token, answer)
  BY <1>1
<1>3. result'.kind # "returned"
  <2>1. result.kind = "none"
    BY <1>1 DEF EvidenceInv
  <2>2. QED
    BY <2>1 DEF RunCallback, NoResult
<1>4. CASE Escaped(token)
  BY <1>3, <1>4 DEF Escaped, BackendInv, ReturnedReceiptWasVerified, Cheap
<1>5. CASE Made(token, answer) /\ pc' = "append" /\ verdict' # Ok
  BY <1>3, <1>5 DEF BackendInv, ReturnedReceiptWasVerified, Cheap
<1>6. CASE Made(token, answer) /\ answer = "true" /\ pc' \in {"callbacks", "final"}
  <2> DEFINE call == [nonce |-> receipt.freshness_nonce, token |-> token, answer |-> answer]
  <2>1. /\ call \in BackendCalls /\ backend \in Seq(BackendCalls)
        /\ token \in prepared /\ pending \subseteq prepared
        /\ prepared \subseteq Artifacts \X Algorithms
    BY <1>1, CallTypes
  <2>2. /\ backend' = Append(backend, call) /\ pending' = pending \ {token}
        /\ call.token = token /\ call.answer = "true"
        /\ call.nonce = receipt.freshness_nonce
    BY <1>6 DEF Made
  <2> HIDE DEF call
  <2>3. /\ TokensOf(backend) = prepared \ pending
        /\ Len(backend) + Cardinality(pending) = Cardinality(prepared)
        /\ \A i \in DOMAIN backend :
             backend[i].answer = "true" /\ backend[i].nonce = receipt.freshness_nonce
    BY <1>1 DEF BackendInv
  <2>4. TokensOf(backend') = prepared' \ pending'
    <3>1. TokensOf(backend') = TokensOf(backend) \cup {token}
      BY <2>1, <2>2, TokensGrow
    <3>2. QED
      BY <1>1, <2>1, <2>2, <2>3, <3>1
  <2>5. Len(backend') + Cardinality(pending') = Cardinality(prepared')
    <3>1. pending \subseteq Artifacts \X Algorithms
      BY <2>1
    <3>2. /\ Cardinality(pending') \in Nat
          /\ Cardinality(pending) = Cardinality(pending') + 1
      BY <2>2, <3>1, PlanShrinks
    <3>3. Len(backend') = Len(backend) + 1 /\ Len(backend) \in Nat
      BY <2>1, <2>2, OneMoreCall
    <3>4. prepared' = prepared
      BY <1>1
    <3>5. QED
      BY <2>3, <3>2, <3>3, <3>4
  <2>6. \A i \in DOMAIN backend' :
          backend'[i].answer = "true" /\ backend'[i].nonce = receipt'.freshness_nonce
    <3>1. \A i \in 1..(Len(backend) + 1) : i \in 1..Len(backend) \/ i = Len(backend) + 1
      BY <2>1, OneMoreCall
    <3>2. QED
      BY <1>1, <2>1, <2>2, <2>3, <3>1, OneMoreCall
  <2>7. QED
    BY <1>3, <1>6, <2>4, <2>5, <2>6, Zenon DEF BackendInv, ReturnedReceiptWasVerified, Cheap
<1>7. QED
  BY <1>2, <1>4, <1>5, <1>6 DEF Made

\* The dry run leaves the whole plan to ask about.
LEMMA BlocksBackend ==
  ASSUME TypeInv, EvidenceInv, BackendInv,
         \/ TakeSnapshot \/ CheckBindings \/ CheckHeader \/ PrepareComponent
         \/ PrepareReceipt \/ CheckPayload \/ DryRun
  PROVE  BackendInv'
<1>1. /\ pc \in Cheap
      /\ backend' = backend /\ work' = work /\ result' = result
      /\ \/ pc' \in Cheap
         \/ pc' = "append" /\ verdict' # Ok
         \/ /\ DryRun /\ pc' = "callbacks" /\ DryRunVerdict(receipt, registry, prepared) = Ok
            /\ prepared' = prepared /\ pending' = prepared /\ receipt' = receipt
  BY QuietBlocks
<1>2. backend' = <<>> /\ result'.kind = "none"
  BY <1>1 DEF BackendInv, EvidenceInv, Cheap
<1>3. CASE pc' \in Cheap \/ (pc' = "append" /\ verdict' # Ok)
  BY <1>2, <1>3 DEF BackendInv, ReturnedReceiptWasVerified, Cheap
<1>4. CASE pc' = "callbacks" /\ prepared' = prepared /\ pending' = prepared
  <2>1. Cardinality(prepared) \in Nat
    BY FinitelyManyTokens, FS_CardinalityType DEF TypeInv, TypeOK
  <2>2. Len(backend') + Cardinality(pending') = Cardinality(prepared')
    BY <1>2, <1>4, <2>1
  <2>3. TokensOf(backend') = prepared' \ pending'
    BY <1>2, <1>4, NoCalls
  <2>4. \A i \in DOMAIN backend' : FALSE
    BY <1>2
  <2>5. QED
    BY <1>2, <1>4, <2>2, <2>3, <2>4, Zenon DEF BackendInv, ReturnedReceiptWasVerified, Cheap
<1>5. QED
  BY <1>1, <1>3, <1>4

\* When nothing is pending, the backend has accepted every signature of the receipt.
LEMMA FinalValidationBackend ==
  ASSUME TypeInv, EvidenceInv, PlanInv, LogInv, BackendInv, FinalValidation
  PROVE  BackendInv'
<1>1. /\ pc = "final" /\ pc' = "append" /\ result' = result
      /\ backend' = backend /\ receipt' = receipt
  BY DEF FinalValidation, private, external
<1>2. pending = {} /\ prepared = Tokens(receipt) /\ result'.kind = "none"
  BY <1>1 DEF LogInv, PlanInv, EvidenceInv
<1>3. Len(backend) = Cardinality(Tokens(receipt))
  <2>1. /\ Len(backend) + Cardinality(pending) = Cardinality(prepared)
        /\ Cardinality(pending) = 0 /\ Len(backend) \in Nat
    BY <1>1, <1>2, FS_EmptySet DEF BackendInv, TypeInv, TypeOK
  <2>2. QED
    BY <1>2, <2>1
<1>4. VerifiedBy(backend, receipt)
  BY <1>1, <1>2, <1>3 DEF BackendInv, VerifiedBy
<1>5. QED
  BY <1>1, <1>2, <1>4, Zenon DEF BackendInv, ReturnedReceiptWasVerified, Cheap

\* The receipt returned is the one in hand.
LEMMA ConcludeBackend ==
  ASSUME TypeInv, BackendInv, Conclude
  PROVE  BackendInv'
<1>1. pc = "ack" /\ pc' = "idle" /\ backend' = backend
  BY DEF Conclude, external
<1>2. result'.kind = "returned" => verdict = Ok /\ result'.receipt = receipt
  BY DEF Conclude, NoResult, BoundReceipt
<1>3. result'.kind = "returned" => VerifiedBy(backend, result'.receipt)
  BY <1>1, <1>2 DEF BackendInv
<1>4. ReturnedReceiptWasVerified'
  BY <1>1, <1>3 DEF ReturnedReceiptWasVerified, VerifiedBy, TokensOf
<1>5. QED
  BY <1>1, <1>4 DEF BackendInv, Cheap

\* Nothing else asks the backend anything.
LEMMA OtherBackend ==
  ASSUME TypeInv, EvidenceInv, BackendInv,
         \/ Call \/ CallWithBadArguments \/ AppendBatch
         \/ CallerOverwrites \/ Crash \/ UNCHANGED vars
  PROVE  BackendInv'
<1>1. CASE Call \/ CallWithBadArguments
  <2>1. /\ backend' = <<>> /\ pc' \in {"snapshot", "idle"}
        /\ result'.kind \in {"none", "argument_error"}
    BY <1>1, CallBegins
  <2>2. QED
    BY <2>1 DEF BackendInv, ReturnedReceiptWasVerified, Cheap
<1>2. CASE AppendBatch
  <2>1. /\ pc = "append" /\ pc' = "ack" /\ result'.kind = "none" /\ verdict' = verdict
        /\ backend' = backend /\ receipt' = receipt
    BY <1>2 DEF AppendBatch, EvidenceInv, private
  <2>2. verdict' = Ok => VerifiedBy(backend', receipt')
    BY <2>1 DEF BackendInv
  <2>3. QED
    BY <2>1, <2>2, Zenon DEF BackendInv, ReturnedReceiptWasVerified, Cheap
<1>3. CASE Crash
  BY <1>3 DEF Crash, NoResult, BackendInv, ReturnedReceiptWasVerified, Cheap
<1>4. CASE CallerOverwrites \/ UNCHANGED vars
  <2>1. /\ UNCHANGED <<receipt, prepared, pending, backend, work>>
        /\ UNCHANGED <<pc, verdict, result>>
    BY <1>4, QuietEnds DEF CallerOverwrites, vars
  <2>2. QED
    BY <2>1 DEF BackendInv, ReturnedReceiptWasVerified, VerifiedBy, TokensOf
<1>5. QED
  BY <1>1, <1>2, <1>3, <1>4

\* Every step keeps what is known of the backend.
LEMMA BackendStep ==
  TypeInv /\ EvidenceInv /\ PlanInv /\ LogInv /\ BackendInv /\ [Next]_vars => BackendInv'
BY RunCallbackBackend, BlocksBackend, FinalValidationBackend, ConcludeBackend, OtherBackend
DEF Next, Step, Finished

-----------------------------------------------------------------------------
(* The order of the callbacks *)

\* A wave is one algorithm, and a rank one artifact.
LEMMA RanksAreNames ==
  /\ \A a, b \in Algorithms : AlgorithmRank(a) = AlgorithmRank(b) => a = b
  /\ \A a \in Algorithms : AlgorithmRank(a) \in Nat
  /\ \A a \in Artifacts : ArtifactRank(a) \in Nat
  /\ \A a, b \in Artifacts : ArtifactRank(a) = ArtifactRank(b) => a = b
<1>1. \A a, b \in Algorithms : AlgorithmRank(a) = AlgorithmRank(b) => a = b
  BY DEF Algorithms, AlgorithmRank
<1>2. \A a \in Algorithms : AlgorithmRank(a) \in Nat
  BY DEF Algorithms, AlgorithmRank
<1>3. ArtifactRank(Orchestrator) = Len(Components) + 1
  BY DEF ArtifactRank
<1>4. ASSUME NEW a \in Artifacts, a # Orchestrator
      PROVE  ArtifactRank(a) \in DOMAIN Components /\ Components[ArtifactRank(a)] = a
  <2>1. \E i \in DOMAIN Components : Components[i] = a
    BY <1>4 DEF Artifacts, ComponentIds
  <2>2. ArtifactRank(a) = CHOOSE i \in DOMAIN Components : Components[i] = a
    BY <1>4 DEF ArtifactRank
  <2>3. QED
    BY <2>1, <2>2
<1>5. DOMAIN Components = 1..Len(Components) /\ Len(Components) \in Nat
  BY ComponentsAssumption
<1>6. \A i \in DOMAIN Components : i \in Nat /\ i # Len(Components) + 1
  BY <1>5
<1>7. \A a \in Artifacts : ArtifactRank(a) \in Nat
  BY <1>3, <1>4, <1>5, <1>6
<1>8. \A a, b \in Artifacts : ArtifactRank(a) = ArtifactRank(b) => a = b
  BY <1>3, <1>4, <1>6
<1>9. QED
  BY <1>1, <1>2, <1>7, <1>8

\* A callback comes before all that are pending, hence after all that were made.
LEMMA RunCallbackOrder ==
  ASSUME TypeInv, BackendInv, WorkInv, OrderInv, RunCallback
  PROVE  OrderInv'
<1>1. /\ pc = "callbacks" /\ prepared' = prepared /\ receipt' = receipt
      /\ \E token \in pending, answer \in Answers : Escaped(token) \/ Made(token, answer)
  BY CallbackMade
<1>2. PICK token \in pending, answer \in Answers : Escaped(token) \/ Made(token, answer)
  BY <1>1
<1>3. Made(token, answer)
  BY <1>1, <1>2, CounterHolds DEF Escaped
<1> DEFINE call == [nonce |-> receipt.freshness_nonce, token |-> token, answer |-> answer]
<1>4. /\ call \in BackendCalls /\ backend \in Seq(BackendCalls)
      /\ token \in prepared /\ pending \subseteq prepared
  BY <1>1, CallTypes
<1>5. /\ pending' = pending \ {token} /\ backend' = Append(backend, call)
      /\ call.token = token
      /\ \A other \in pending : Before(token, other)
  BY <1>3 DEF Made
<1> HIDE DEF call
<1>6. /\ TokensOf(backend) = prepared \ pending
      /\ \A i \in DOMAIN backend : backend[i].answer = "true"
  BY <1>1 DEF BackendInv
<1>7. TokensOf(backend') = prepared' \ pending'
  <2>1. TokensOf(backend') = TokensOf(backend) \cup {token}
    BY <1>4, <1>5, TokensGrow
  <2>2. QED
    BY <1>1, <1>4, <1>5, <1>6, <2>1
<1>8. \A i \in DOMAIN backend :
        Before(backend[i].token, token) /\ backend[i].token # token
  BY <1>6 DEF OrderInv, TokensOf
<1>9. /\ Len(backend) \in Nat /\ DOMAIN backend = 1..Len(backend)
      /\ DOMAIN backend' = 1..(Len(backend) + 1)
      /\ \A i \in 1..Len(backend) : backend'[i] = backend[i]
      /\ backend'[Len(backend) + 1] = call
  BY <1>4, <1>5, OneMoreCall
<1>10. \A j \in DOMAIN backend' : j \in DOMAIN backend \/ j = Len(backend) + 1
  BY <1>9
<1>11. ASSUME NEW j \in DOMAIN backend', NEW i \in 1..(j - 1)
       PROVE  /\ backend'[i].answer = "true"
              /\ Before(backend'[i].token, backend'[j].token)
              /\ backend'[i].token # backend'[j].token
  <2>1. i \in DOMAIN backend /\ backend'[i] = backend[i]
    BY <1>9
  <2>2. CASE j \in DOMAIN backend
    <3>1. backend'[j] = backend[j]
      BY <1>9, <2>2
    <3>2. QED
      BY <2>1, <2>2, <3>1, Zenon DEF OrderInv
  <2>3. CASE j = Len(backend) + 1
    <3>1. backend'[j].token = token
      BY <1>5, <1>9, <2>3
    <3>2. QED
      BY <1>6, <1>8, <2>1, <3>1
  <2>4. QED
    BY <1>10, <2>2, <2>3
<1>12. ASSUME NEW j \in DOMAIN backend', NEW t \in pending'
       PROVE  Before(backend'[j].token, t)
  <2>1. t \in pending
    BY <1>5
  <2>2. CASE j \in DOMAIN backend
    <3>1. backend'[j] = backend[j]
      BY <1>9, <2>2
    <3>2. QED
      BY <2>1, <2>2, <3>1, Zenon DEF OrderInv
  <2>3. CASE j = Len(backend) + 1
    BY <1>5, <1>9, <2>1, <2>3
  <2>4. QED
    BY <1>10, <2>2, <2>3
<1>13. QED
  BY <1>7, <1>11, <1>12, Zenon DEF OrderInv

\* Nothing else changes their order.
LEMMA OrderStep ==
  TypeInv /\ BackendInv /\ WorkInv /\ OrderInv /\ [Next]_vars => OrderInv'
<1> SUFFICES ASSUME TypeInv, BackendInv, WorkInv, OrderInv, [Next]_vars
             PROVE  OrderInv'
  OBVIOUS
<1>1. CASE \/ TakeSnapshot \/ CheckBindings \/ CheckHeader \/ PrepareComponent
           \/ PrepareReceipt \/ CheckPayload \/ DryRun
  <2>1. backend' = <<>>
    BY <1>1, QuietBlocks DEF BackendInv
  <2>2. DOMAIN backend' = {}
    BY <2>1
  <2>3. QED
    BY <2>1, <2>2 DEF OrderInv
<1>2. CASE Call \/ CallWithBadArguments
  <2>1. backend' = <<>>
    BY <1>2, CallBegins
  <2>2. DOMAIN backend' = {}
    BY <2>1
  <2>3. QED
    BY <2>1, <2>2 DEF OrderInv
<1>3. CASE \/ FinalValidation \/ AppendBatch \/ Conclude
           \/ CallerOverwrites \/ Crash \/ UNCHANGED vars
  <2>1. UNCHANGED <<prepared, pending, backend>>
    BY <1>3, QuietEnds
  <2>2. QED
    BY <2>1 DEF OrderInv, TokensOf, Before
<1>4. CASE RunCallback
  BY <1>4, RunCallbackOrder
<1>5. QED
  BY <1>1, <1>2, <1>3, <1>4 DEF Next, Step, Finished

\* Callbacks in order are callbacks in waves.
LEMMA OrderMakesWaves == TypeOK /\ OrderInv => WaveDiscipline
<1> SUFFICES ASSUME TypeOK, OrderInv, NEW j \in DOMAIN backend
             PROVE  LET Wave(k) == AlgorithmRank(backend[k].token[2])
                    IN  /\ \A i \in 1..(j - 1) : backend[i].answer = "true"
                        /\ \A i \in 1..(j - 1) :
                             Wave(i) = Wave(j)
                               => ArtifactRank(backend[i].token[1]) < ArtifactRank(backend[j].token[1])
                        /\ \A t \in prepared :
                             AlgorithmRank(t[2]) < Wave(j)
                               => \E i \in 1..(j - 1) : backend[i].token = t
  BY DEF WaveDiscipline
<1>1. backend \in Seq(BackendCalls) /\ prepared \subseteq Artifacts \X Algorithms
  BY DEF TypeOK
<1>2. DOMAIN backend = 1..Len(backend) /\ Len(backend) \in Nat
  BY <1>1
<1>3. \A i \in 1..(j - 1) : i \in DOMAIN backend
  BY <1>2
<1>4. \A i \in DOMAIN backend : backend[i].token \in Artifacts \X Algorithms
  <2>1. \A i \in DOMAIN backend : backend[i] \in BackendCalls
    BY <1>1, <1>2
  <2>2. \A call \in BackendCalls : call.token \in Artifacts \X Algorithms
    BY DEF BackendCalls
  <2>3. QED
    BY <2>1, <2>2
<1>5. \A t \in Artifacts \X Algorithms :
        /\ t[1] \in Artifacts /\ t[2] \in Algorithms
        /\ AlgorithmRank(t[2]) \in Nat /\ ArtifactRank(t[1]) \in Nat
  BY RanksAreNames
<1>6. \A i \in 1..(j - 1) :
        /\ backend[i].answer = "true"
        /\ Before(backend[i].token, backend[j].token)
        /\ backend[i].token # backend[j].token
  BY Zenon DEF OrderInv
<1>7. ASSUME NEW i \in 1..(j - 1),
             AlgorithmRank(backend[i].token[2]) = AlgorithmRank(backend[j].token[2])
      PROVE  ArtifactRank(backend[i].token[1]) < ArtifactRank(backend[j].token[1])
  <2>1. /\ backend[i].token \in Artifacts \X Algorithms
        /\ backend[j].token \in Artifacts \X Algorithms
    BY <1>3, <1>4
  <2>2. backend[i].token[2] = backend[j].token[2]
    BY <1>5, <1>7, <2>1, RanksAreNames
  <2>3. backend[i].token[1] # backend[j].token[1]
    BY <1>6, <2>1, <2>2
  <2>4. ArtifactRank(backend[i].token[1]) # ArtifactRank(backend[j].token[1])
    BY <1>5, <2>1, <2>3, RanksAreNames
  <2>5. /\ AlgorithmRank(backend[i].token[2]) \in Nat /\ AlgorithmRank(backend[j].token[2]) \in Nat
        /\ ArtifactRank(backend[i].token[1]) \in Nat /\ ArtifactRank(backend[j].token[1]) \in Nat
    BY <1>5, <2>1
  <2>6. \/ AlgorithmRank(backend[i].token[2]) < AlgorithmRank(backend[j].token[2])
        \/ ArtifactRank(backend[i].token[1]) <= ArtifactRank(backend[j].token[1])
    BY <1>6 DEF Before
  <2>7. QED
    BY <1>7, <2>4, <2>5, <2>6
<1>8. ASSUME NEW t \in prepared, AlgorithmRank(t[2]) < AlgorithmRank(backend[j].token[2])
      PROVE  \E i \in 1..(j - 1) : backend[i].token = t
  <2>1. /\ t \in Artifacts \X Algorithms /\ backend[j].token \in Artifacts \X Algorithms
        /\ AlgorithmRank(t[2]) \in Nat /\ AlgorithmRank(backend[j].token[2]) \in Nat
    BY <1>1, <1>4, <1>5
  <2>2. ~Before(backend[j].token, t) /\ backend[j].token # t
    BY <1>8, <2>1 DEF Before
  <2>3. t \notin pending
    BY <2>2 DEF OrderInv
  <2>4. t \in TokensOf(backend)
    <3>1. backend # <<>>
      BY <1>2
    <3>2. QED
      BY <2>3, <3>1 DEF OrderInv
  <2>5. PICK i \in DOMAIN backend : backend[i].token = t
    BY <2>4 DEF TokensOf
  <2>6. i # j
    BY <2>2, <2>5
  <2>7. ~(j \in 1..(i - 1))
    BY <2>2, <2>5, Zenon DEF OrderInv
  <2>8. i \in 1..(j - 1)
    BY <1>2, <2>6, <2>7
  <2>9. QED
    BY <2>5, <2>8
<1>9. QED
  BY <1>6, <1>7, <1>8

-----------------------------------------------------------------------------
(* The theorems *)

\* What holds in every state of a call, and in every step of one.
AccountInv == TypeInv /\ EvidenceInv /\ PlanInv /\ LogInv /\ BackendInv /\ WorkInv /\ OrderInv

\* It is an invariant.
LEMMA AccountsHold == Spec => []AccountInv
<1>1. Init => AccountInv
  <2> SUFFICES ASSUME Init PROVE AccountInv
    OBVIOUS
  <2>1. TypeInv
    BY InitType
  <2>2. EvidenceInv /\ PlanInv /\ LogInv
    BY DEF Init, EvidenceInv, PlanInv, LogInv, NoResult, RejectedOnlyWithDurableEvidence,
           ReleasedOnlyWithDurableEvidence
  <2>3. pc = "idle" /\ backend = <<>> /\ result.kind = "none" /\ work.calls = 0 /\ work.pqc = 0
    BY DEF Init, NoResult
  <2>4. BackendInv
    BY <2>3 DEF BackendInv, ReturnedReceiptWasVerified, Cheap
  <2>5. WorkInv
    <3>1. Len(backend) = 0 /\ Cardinality(PqcCalls(backend)) = 0
      BY <2>3, NoCalls
    <3>2. QED
      BY <2>3, <3>1 DEF WorkInv, WorkIsAccounted, PqcCalls
  <2>6. OrderInv
    <3>1. DOMAIN backend = {}
      BY <2>3
    <3>2. QED
      BY <2>3, <3>1 DEF OrderInv
  <2>7. QED
    BY <2>1, <2>2, <2>4, <2>5, <2>6 DEF AccountInv
<1>2. AccountInv /\ [Next]_vars => AccountInv'
  BY TypeStep, EvidenceStep, PlanStep, LogStep, BackendStep, WorkStep, OrderStep DEF AccountInv
<1>3. QED
  BY <1>1, <1>2, PTL DEF Spec

\* Whatever the caller does to its object meanwhile, the receipt it gets back is
\* the one whose every signature the backend accepted, once, in this call.
THEOREM ReturnedWasVerified == Spec => []ReturnedReceiptWasVerified
<1>1. AccountInv => ReturnedReceiptWasVerified
  BY DEF AccountInv, BackendInv
<1>2. QED
  BY <1>1, AccountsHold, PTL

\* The counter is charged once per callback and never trips, whatever its limits:
\* no error of it ever leaves a call without an audit batch.
THEOREM CounterNeverTrips == Spec => []WorkIsAccounted
<1>1. AccountInv => WorkIsAccounted
  BY DEF AccountInv, WorkInv
<1>2. QED
  BY <1>1, AccountsHold, PTL

\* Callbacks come in waves over all artifacts, and nothing follows one that was
\* not answered True.
THEOREM CallbacksComeInWaves == Spec => []WaveDiscipline
<1>1. AccountInv => WaveDiscipline
  BY OrderMakesWaves DEF AccountInv, TypeInv
<1>2. QED
  BY <1>1, AccountsHold, PTL

-----------------------------------------------------------------------------
(* The log and the backend *)

\* A signature event that records a callback.
Answered(signed, call) ==
  /\ signed.artifact_id = call.token[1]
  /\ signed.algorithm = call.token[2]
  /\ signed.verification_passed <=> call.answer = "true"
  /\ signed.reason_id = "V4_SIGNATURE_INVALID" <=> call.answer = "false"

\* AuditMatchesBackend, of a log and the callbacks it is about.
Tells(log, b) ==
  /\ {i \in DOMAIN log : log[i].event_type = "signature"} = 2..(Len(b) + 1)
  /\ \A i \in DOMAIN b : Answered(log[i + 1], b[i])

\* One more callback, and the event that records it.
LEMMA StoryGrows ==
  ASSUME NEW b \in Seq(BackendCalls), NEW c \in BackendCalls,
         NEW log \in Seq(Events), NEW e \in Events,
         Len(log) = Len(b) + 1, Tells(log, b),
         e.event_type = "signature", Answered(e, c)
  PROVE  Tells(Append(log, e), Append(b, c))
<1> DEFINE n == Len(b)
           longer == Append(log, e)
           more   == Append(b, c)
<1>1. /\ n \in Nat /\ DOMAIN b = 1..n /\ Len(more) = n + 1 /\ DOMAIN more = 1..(n + 1)
      /\ \A i \in 1..n : more[i] = b[i]
      /\ more[n + 1] = c
  BY OneMoreCall
<1>2. /\ DOMAIN log = 1..(n + 1) /\ DOMAIN longer = 1..(n + 2)
      /\ \A i \in 1..(n + 1) : longer[i] = log[i]
      /\ longer[n + 2] = e
  BY <1>1
<1>3. /\ \A i \in 1..(n + 1) : log[i].event_type = "signature" <=> i \in 2..(n + 1)
      /\ \A i \in 1..n : Answered(log[i + 1], b[i])
  BY <1>1, <1>2 DEF Tells
<1> HIDE DEF n, longer, more
<1>4. {i \in DOMAIN longer : longer[i].event_type = "signature"} = 2..(n + 2)
  <2>1. \A i \in 1..(n + 2) : i \in 1..(n + 1) \/ i = n + 2
    BY <1>1
  <2>2. \A i \in 2..(n + 2) : i \in 1..(n + 2) /\ (i \in 2..(n + 1) \/ i = n + 2)
    BY <1>1
  <2>3. \A i \in 2..(n + 1) : i \in 2..(n + 2)
    BY <1>1
  <2>4. n + 2 \in 2..(n + 2)
    BY <1>1
  <2>5. \A i \in 1..(n + 2) : longer[i].event_type = "signature" <=> i \in 2..(n + 2)
    <3>1. TAKE i \in 1..(n + 2)
    <3>2. CASE i \in 1..(n + 1)
      <4>1. i # n + 2
        BY <1>1, <3>2
      <4>2. QED
        BY <1>2, <1>3, <2>2, <2>3, <3>2, <4>1, Zenon
    <3>3. CASE i = n + 2
      BY <1>2, <2>4, <3>3
    <3>4. QED
      BY <2>1, <3>2, <3>3
  <2>6. QED
    BY <1>2, <2>2, <2>5
<1>5. \A i \in 1..(n + 1) : Answered(longer[i + 1], more[i])
  <2>1. TAKE i \in 1..(n + 1)
  <2>2. CASE i \in 1..n
    <3>1. i + 1 \in 1..(n + 1)
      BY <1>1, <2>2
    <3>2. QED
      BY <1>1, <1>2, <1>3, <2>2, <3>1, Zenon
  <2>3. CASE i = n + 1
    <3>1. i + 1 = n + 2
      BY <1>1, <2>3
    <3>2. QED
      BY <1>1, <1>2, <2>3, <3>1, Zenon
  <2>4. QED
    BY <1>1, <2>2, <2>3
<1>6. n + 2 = Len(more) + 1
  BY <1>1
<1>7. QED
  BY <1>1, <1>4, <1>5, <1>6 DEF Tells, longer, more

\* An event of another kind tells nothing new.
LEMMA StoryEnds ==
  ASSUME NEW b \in Seq(BackendCalls), NEW log \in Seq(Events), NEW e \in Events,
         Tells(log, b), e.event_type # "signature"
  PROVE  Tells(Append(log, e), b)
<1> DEFINE n == Len(b)
           m == Len(log)
           longer == Append(log, e)
<1>1. n \in Nat /\ DOMAIN b = 1..n
  OBVIOUS
<1>2. /\ m \in Nat /\ DOMAIN log = 1..m /\ DOMAIN longer = 1..(m + 1)
      /\ \A i \in 1..m : longer[i] = log[i]
      /\ longer[m + 1] = e
  OBVIOUS
<1>3. {i \in 1..m : log[i].event_type = "signature"} = 2..(n + 1)
      /\ \A i \in 1..n : Answered(log[i + 1], b[i])
  BY <1>1, <1>2 DEF Tells
<1> HIDE DEF n, m, longer
<1>4. \A i \in 1..(m + 1) : i \in 1..m \/ i = m + 1
  BY <1>2
<1>5. \A i \in 1..m : i \in 1..(m + 1)
  BY <1>2
<1>6. \A i \in 1..(m + 1) :
         longer[i].event_type = "signature" <=> i \in 1..m /\ log[i].event_type = "signature"
  <2>1. ~(m + 1 \in 1..m)
    BY <1>2
  <2>2. QED
    BY <1>2, <1>4, <2>1
<1>7. {i \in 1..(m + 1) : longer[i].event_type = "signature"} = 2..(n + 1)
  BY <1>3, <1>5, <1>6
<1>8. \A i \in 1..n : Answered(longer[i + 1], b[i])
  <2>1. TAKE i \in 1..n
  <2>2. i + 1 \in 2..(n + 1)
    BY <1>1
  <2>3. i + 1 \in 1..m
    BY <1>3, <2>2
  <2>4. QED
    BY <1>2, <1>3, <2>3
<1>9. QED
  BY <1>1, <1>2, <1>7, <1>8 DEF Tells, n, longer

\* What is recorded of an answer is that answer.
LEMMA AnswersRecorded ==
  ASSUME NEW r \in Offered, NEW token \in Artifacts \X Algorithms, NEW answer \in Answers,
         NEW nonce
  PROVE  LET reason == AnswerReason(answer)
             call   == [nonce |-> nonce, token |-> token, answer |-> answer]
             signed == SignatureEvent(r, token, reason = Ok, reason)
             ended  == ArtifactEvent(r, token[1], reason)
         IN  /\ signed \in Events /\ signed.event_type = "signature"
             /\ Answered(signed, call)
             /\ ended \in Events /\ ended.event_type # "signature"
<1> DEFINE reason == AnswerReason(answer)
           call   == [nonce |-> nonce, token |-> token, answer |-> answer]
           signed == SignatureEvent(r, token, reason = Ok, reason)
           ended  == ArtifactEvent(r, token[1], reason)
<1>1. /\ reason \in AuditReasonIds
      /\ reason = Ok <=> answer = "true"
      /\ reason = "V4_SIGNATURE_INVALID" <=> answer = "false"
  BY DEF AnswerReason, Answers, AuditReasonIds, Ok
<1> HIDE DEF reason
<1>2. /\ signed \in Events /\ signed.event_type = "signature"
      /\ ended \in Events /\ ended.event_type = "artifact"
  BY <1>1, EventPair
<1>3. /\ signed.artifact_id = token[1] /\ signed.algorithm = token[2]
      /\ signed.verification_passed = (reason = Ok) /\ signed.reason_id = reason
  BY DEF SignatureEvent, Event
<1>4. Answered(signed, call)
  BY <1>1, <1>3 DEF Answered
<1>5. QED
  BY <1>2, <1>4 DEF reason

\* A log that holds only the preflight is about no callback.
LEMMA StoryBegins ==
  ASSUME NEW reason \in AuditReasonIds
  PROVE  Tells(<<PreflightEvent(reason)>>, <<>>) /\ Tells(<<>>, <<>>)
<1>1. PreflightEvent(reason).event_type # "signature"
  BY DEF PreflightEvent, Event
<1>2. {i \in DOMAIN <<PreflightEvent(reason)>> :
         <<PreflightEvent(reason)>>[i].event_type = "signature"} = {}
  BY <1>1
<1>3. Len(<<>>) = 0 /\ DOMAIN <<>> = {} /\ 2..(0 + 1) = {}
  OBVIOUS
<1>4. QED
  BY <1>2, <1>3 DEF Tells

\* A callback is recorded as it was answered.
LEMMA RunCallbackStory ==
  ASSUME TypeInv, LogInv, BackendInv, Tells(events, backend), RunCallback
  PROVE  Tells(events', backend')
<1>1. CASE UNCHANGED <<events, backend>>
  BY <1>1
<1>2. ASSUME NEW token \in pending, NEW answer \in Answers,
             LET reason == AnswerReason(answer)
                 logged == Append(events, SignatureEvent(receipt, token, reason = Ok, reason))
             IN  /\ backend' = Append(backend, [nonce |-> receipt.freshness_nonce,
                                                token |-> token, answer |-> answer])
                 /\ events' \in {logged, Append(logged, ArtifactEvent(receipt, token[1], reason))}
      PROVE  Tells(events', backend')
  <2> DEFINE reason == AnswerReason(answer)
             call   == [nonce |-> receipt.freshness_nonce, token |-> token, answer |-> answer]
             signed == SignatureEvent(receipt, token, reason = Ok, reason)
             ended  == ArtifactEvent(receipt, token[1], reason)
             logged == Append(events, signed)
  <2>1. pc = "callbacks" /\ receipt \in Offered /\ events \in Seq(Events)
    BY CallbackLogged
  <2>2. token \in Artifacts \X Algorithms
    BY DEF TypeInv, TypeOK
  <2>3. call \in BackendCalls /\ backend \in Seq(BackendCalls)
    BY <2>1, CallTypes
  <2>4. /\ signed \in Events /\ signed.event_type = "signature" /\ Answered(signed, call)
        /\ ended \in Events /\ ended.event_type # "signature"
    BY <2>1, <2>2, AnswersRecorded
  <2>5. /\ backend' = Append(backend, call)
        /\ events' = logged \/ events' = Append(logged, ended)
    BY <1>2
  <2> HIDE DEF call, signed, ended
  <2>6. Len(events) = Len(backend) + 1
    <3>1. /\ Len(events) + Cardinality(pending) = Cardinality(prepared) + 1
          /\ Len(backend) + Cardinality(pending) = Cardinality(prepared)
      BY <2>1 DEF LogInv, BackendInv
    <3>2. Cardinality(pending) \in Nat /\ Len(events) \in Nat /\ Len(backend) \in Nat
      BY <2>1, <2>3, FinitelyManyTokens, FS_CardinalityType DEF TypeInv, TypeOK
    <3>3. QED
      BY <3>1, <3>2
  <2>7. Tells(logged, backend')
    BY <2>1, <2>3, <2>4, <2>5, <2>6, StoryGrows
  <2>8. logged \in Seq(Events) /\ backend' \in Seq(BackendCalls)
    BY <2>1, <2>3, <2>4, <2>5
  <2> HIDE DEF logged
  <2>9. QED
    BY <2>4, <2>5, <2>7, <2>8, StoryEnds
<1>3. \/ UNCHANGED <<events, backend>>
      \/ \E token \in pending, answer \in Answers :
           LET reason == AnswerReason(answer)
               logged == Append(events, SignatureEvent(receipt, token, reason = Ok, reason))
           IN  /\ backend' = Append(backend, [nonce |-> receipt.freshness_nonce,
                                              token |-> token, answer |-> answer])
               /\ events' \in {logged, Append(logged, ArtifactEvent(receipt, token[1], reason))}
  BY Zenon DEF RunCallback, BoundReceipt
<1>4. QED
  BY <1>1, <1>2, <1>3

\* So the log tells the backend's story in every step.
LEMMA StoryStep ==
  TypeInv /\ LogInv /\ BackendInv /\ Tells(events, backend) /\ [Next]_vars
    => Tells(events', backend')
<1> SUFFICES ASSUME TypeInv, LogInv, BackendInv, Tells(events, backend), [Next]_vars
             PROVE  Tells(events', backend')
  OBVIOUS
<1>1. CASE \/ TakeSnapshot \/ CheckBindings \/ CheckHeader \/ PrepareComponent
           \/ PrepareReceipt \/ CheckPayload \/ DryRun
  <2>1. /\ backend = <<>> /\ backend' = backend
    BY <1>1, QuietBlocks DEF BackendInv
  <2>2. \E here, outcome, there : outcome \in AuditReasonIds /\ Block(here, outcome, there)
    BY <1>1, PreflightBlocks
  <2>3. PICK here, outcome, there :
          outcome \in AuditReasonIds /\ Block(here, outcome, there)
    BY <2>2
  <2>4. events' = events \/ events' = <<PreflightEvent(outcome)>>
    BY <2>3 DEF Block, RejectPreflight
  <2>5. QED
    BY <2>1, <2>3, <2>4, StoryBegins
<1>2. CASE Call \/ CallWithBadArguments
  <2>1. backend' = <<>> /\ events' \in {<<PreflightEvent(Ok)>>, <<>>}
    BY <1>2 DEF Call, CallWithBadArguments, Fresh
  <2>2. Ok \in AuditReasonIds
    BY DEF AuditReasonIds
  <2>3. QED
    BY <2>1, <2>2, StoryBegins
<1>3. CASE FinalValidation
  <2> DEFINE ended == ArtifactEvent(receipt, Orchestrator, FinalVerdict(receipt, registry, prepared))
  <2>1. pc = "final" /\ events' = Append(events, ended) /\ backend' = backend
    BY <1>3 DEF FinalValidation, BoundReceipt, external
  <2>2. ended \in Events /\ events \in Seq(Events) /\ backend \in Seq(BackendCalls)
    BY <2>1, FinalValidationType, <1>3 DEF TypeInv, TypeOK
  <2>3. ended.event_type # "signature"
    BY DEF ArtifactEvent, Event
  <2> HIDE DEF ended
  <2>4. QED
    BY <2>1, <2>2, <2>3, StoryEnds
<1>4. CASE AppendBatch \/ Conclude \/ CallerOverwrites \/ Crash \/ UNCHANGED vars
  <2>1. UNCHANGED <<events, backend>>
    BY <1>4 DEF AppendBatch, Conclude, CallerOverwrites, Crash, external, vars
  <2>2. QED
    BY <2>1
<1>5. QED
  BY <1>1, <1>2, <1>3, <1>4, RunCallbackStory DEF Next, Step, Finished

\* The log tells the backend's story: one signature event per callback, in order
\* and nowhere else, each with the answer the backend gave.
THEOREM LogMatchesBackend == Spec => []AuditMatchesBackend
<1>1. Init => Tells(events, backend)
  <2>1. Ok \in AuditReasonIds
    BY DEF AuditReasonIds
  <2>2. QED
    BY <2>1, StoryBegins DEF Init
<1>2. AccountInv /\ Tells(events, backend) /\ [Next]_vars => Tells(events, backend)'
  BY StoryStep DEF AccountInv
<1>3. Tells(events, backend) => AuditMatchesBackend
  BY DEF Tells, Answered, AuditMatchesBackend
<1>4. QED
  BY <1>1, <1>2, <1>3, AccountsHold, PTL DEF Spec

-----------------------------------------------------------------------------
(* The evidence gate *)

\* No call, no evidence.
LEMMA GateInit == Init => Gate!Init
<1> SUFFICES ASSUME Init PROVE Gate!Init
  OBVIOUS
<1>1. pc = "idle" /\ store = <<>> /\ result.kind = "none"
  BY DEF Init, NoResult
<1>2. Phase = "idle" /\ Evidence = <<>> /\ Told = "none"
  BY <1>1 DEF Phase, Evidence, Told
<1>3. QED
  BY <1>1, <1>2 DEF Gate!Init

\* Trusted arguments are refused, or a decision begins.
LEMMA CallIsBegun ==
  ASSUME Call \/ CallWithBadArguments
  PROVE  Gate!Begin \/ Gate!Refuse
<1>1. CASE Call
  <2>1. /\ pc = "idle" /\ pc' = "snapshot" /\ store' = store
        /\ result'.kind = "none"
    BY <1>1 DEF Call, Fresh, NoResult
  <2>2. /\ Phase = "idle" /\ Phase' = "deciding" /\ Told' = "none"
        /\ Evidence' = Evidence
    BY <2>1 DEF Phase, Evidence, Told
  <2>3. QED
    BY <2>1, <2>2 DEF Gate!Begin
<1>2. CASE CallWithBadArguments
  <2>1. pc = "idle" /\ pc' = pc /\ store' = store /\ result'.kind = "argument_error"
    BY <1>2 DEF CallWithBadArguments, Fresh, NoResult
  <2>2. /\ Phase = "idle" /\ Phase' = Phase /\ Told' = "argument_error"
        /\ Evidence' = Evidence
    BY <2>1 DEF Phase, Evidence, Told
  <2>3. QED
    BY <2>1, <2>2 DEF Gate!Refuse
<1>3. QED
  BY <1>1, <1>2

\* A step of the call on its way to a decision, or the decision.
LEMMA DecisionIsMade ==
  ASSUME pc \notin {"idle", "append", "ack"}, pc' \notin {"idle", "ack"},
         pc' = "append" => events' # <<>>,
         result' = result, store' = store
  PROVE  Gate!Decide \/ UNCHANGED <<Phase, Evidence, store, Told>>
<1>1. Phase = "deciding" /\ Evidence = <<>> /\ Told' = Told
  BY DEF Phase, Evidence, Told
<1>2. CASE pc' = "append"
  <2>1. Phase' = "decided" /\ Evidence' # <<>>
    BY <1>2 DEF Phase, Evidence
  <2>2. QED
    BY <1>1, <2>1 DEF Gate!Decide
<1>3. CASE pc' # "append"
  <2>1. Phase' = "deciding" /\ Evidence' = <<>>
    BY <1>3 DEF Phase, Evidence
  <2>2. QED
    BY <1>1, <2>1
<1>4. QED
  BY <1>2, <1>3

\* So are the blocks of checks, the callbacks and the final validation; that a
\* callback never ends the call unaudited is the counter's doing.
LEMMA ChecksDecide ==
  ASSUME TypeInv, TypeInv', BackendInv, WorkInv, WorkInv',
         \/ TakeSnapshot \/ CheckBindings \/ CheckHeader \/ PrepareComponent
         \/ PrepareReceipt \/ CheckPayload \/ DryRun \/ RunCallback \/ FinalValidation
  PROVE  Gate!Decide \/ UNCHANGED <<Phase, Evidence, store, Told>>
<1>1. pc' # "idle" => events' # <<>>
  BY DEF TypeInv, CallInv
<1>2. store' = store
  BY DEF TakeSnapshot, CheckBindings, CheckHeader, PrepareComponent, PrepareReceipt,
         CheckPayload, DryRun, Block, RunCallback, FinalValidation, external
<1>3. CASE \/ TakeSnapshot \/ CheckBindings \/ CheckHeader \/ PrepareComponent
           \/ PrepareReceipt \/ CheckPayload \/ DryRun
  <2>1. /\ pc \in Cheap /\ result' = result
        /\ pc' \in Cheap \/ pc' = "append" \/ pc' = "callbacks"
    BY <1>3, QuietBlocks
  <2>2. pc \notin {"idle", "append", "ack"} /\ pc' \notin {"idle", "ack"}
    BY <2>1 DEF Cheap
  <2>3. QED
    BY <1>1, <1>2, <2>1, <2>2, DecisionIsMade
<1>4. CASE RunCallback
  <2>1. result'.kind # "escaped"
    BY DEF WorkInv, WorkIsAccounted
  <2>2. pc = "callbacks" /\ result' = result /\ pc' \in {"final", "callbacks", "append"}
    BY <1>4, <2>1 DEF RunCallback, NoResult
  <2>3. QED
    BY <1>1, <1>2, <2>2, DecisionIsMade
<1>5. CASE FinalValidation
  <2>1. pc = "final" /\ result' = result /\ pc' = "append"
    BY <1>5 DEF FinalValidation
  <2>2. QED
    BY <1>1, <1>2, <2>1, DecisionIsMade
<1>6. QED
  BY <1>3, <1>4, <1>5

\* The sink is offered the batch once, and keeps all of it, all but its last
\* record, or nothing.
LEMMA AppendOffers ==
  ASSUME TypeInv, AppendBatch
  PROVE  Gate!Offer
<1>1. pc = "append" /\ pc' = "ack" /\ events' = events /\ result' = result
  BY DEF AppendBatch
<1>2. events \in Seq(Events) /\ store \in Seq(Seq(Events)) /\ events # <<>>
  BY <1>1 DEF TypeInv, TypeOK, CallInv
<1>3. Phase = "decided" /\ Phase' = "offered" /\ Evidence = events /\ Evidence' = events
      /\ Told' = Told
  BY <1>1 DEF Phase, Evidence, Told
<1> DEFINE part == SubSeq(events, 1, Len(events) - 1)
<1>4. part \in Seq(Events)
  BY <1>2
<1>5. events \in Gate!Prefixes(events) /\ part \in Gate!Prefixes(events)
  <2>1. /\ Len(events) \in 0..Len(events) /\ Len(events) - 1 \in 0..Len(events)
        /\ events = SubSeq(events, 1, Len(events))
    BY <1>2
  <2>2. QED
    BY <2>1 DEF Gate!Prefixes
<1>6. store' \in {store, Append(store, events), Append(store, part)}
  <2>1. CASE Serializable(events)
    <3>1. PICK answer \in SinkAnswers(events) : store' = store \o answer[1]
      BY <2>1 DEF AppendBatch
    <3>2. \E given : answer \in {<<<<>>, given>>, <<<<events>>, given>>, <<<<part>>, given>>}
      <4>1. \/ answer = <<<<events>>, Ack(events, Len(events), TRUE)>>
            \/ answer = <<<<events>>, Malformed>> \/ answer = <<<<>>, Malformed>>
            \/ answer = <<<<>>, Ack(events, Len(events), FALSE)>>
            \/ answer = <<<<part>>, Ack(events, Len(events) - 1, TRUE)>>
            \/ \E k \in DOMAIN store : answer = <<<<>>, Ack(store[k], Len(store[k]), TRUE)>>
        BY <3>1, Zenon DEF SinkAnswers
      <4> HIDE DEF part
      <4>2. QED
        BY <4>1, Zenon
    <3>3. PICK given : answer \in {<<<<>>, given>>, <<<<events>>, given>>, <<<<part>>, given>>}
      BY <3>2
    <3>4. answer[1] = <<>> \/ answer[1] = <<events>> \/ answer[1] = <<part>>
      <4> HIDE DEF part
      <4>1. \A kept : <<kept, given>>[1] = kept
        OBVIOUS
      <4>2. QED
        BY <3>3, <4>1, Zenon
    <3> HIDE DEF part
    <3>5. /\ store \o <<>> = store
          /\ store \o <<events>> = Append(store, events)
          /\ store \o <<part>> = Append(store, part)
      BY <1>2, <1>4
    <3>6. QED
      BY <3>1, <3>4, <3>5
  <2>2. CASE ~Serializable(events)
    BY <2>2 DEF AppendBatch
  <2>3. QED
    BY <2>1, <2>2
<1> HIDE DEF part
<1>7. store' \in {store} \cup {Append(store, kept) : kept \in Gate!Prefixes(events)}
  BY <1>5, <1>6
<1>8. QED
  BY <1>3, <1>7 DEF Gate!Offer

\* What the call says at its end is what the held batch says, or nothing.
LEMMA ConcludeAnnounces ==
  ASSUME TypeInv, EvidenceInv, Conclude
  PROVE  Gate!Release \/ Gate!Reject \/ Gate!Withhold
<1>1. pc = "ack" /\ pc' = "idle" /\ store' = store
  BY DEF Conclude, external
<1>2. Phase = "offered" /\ Phase' = "idle" /\ Evidence = events /\ Evidence' = <<>>
  BY <1>1 DEF Phase, Evidence
<1>3. TellsSuccess(events) = (verdict = Ok)
  BY <1>1 DEF EvidenceInv, TellsSuccess, Last
<1>4. CASE ~Acknowledges(ack, events)
  <2>1. Told' = "withheld"
    BY <1>4 DEF Conclude, NoResult, Told
  <2>2. QED
    BY <1>1, <1>2, <2>1 DEF Gate!Withhold, Gate!Announce
<1>5. CASE Acknowledges(ack, events)
  <2>1. Gate!Held
    BY <1>1, <1>2, <1>5 DEF EvidenceInv, Gate!Held
  <2>2. CASE verdict = Ok
    <3>1. Told' = "returned"
      BY <1>5, <2>2 DEF Conclude, NoResult, Told
    <3>2. QED
      BY <1>1, <1>2, <1>3, <2>1, <2>2, <3>1 DEF Gate!Release, Gate!Announce
  <2>3. CASE verdict # Ok
    <3>1. Told' = "rejected"
      BY <1>5, <2>3 DEF Conclude, NoResult, Told
    <3>2. QED
      BY <1>1, <1>2, <1>3, <2>1, <2>3, <3>1 DEF Gate!Reject, Gate!Announce
  <2>4. QED
    BY <2>2, <2>3
<1>6. QED
  BY <1>4, <1>5

\* A crash loses what was not offered; the caller's own object is out of sight.
LEMMA OthersAnnounceNothing ==
  ASSUME CallerOverwrites \/ Crash \/ UNCHANGED vars
  PROVE  Gate!Crash \/ UNCHANGED <<Phase, Evidence, store, Told>>
<1>1. CASE Crash
  <2>1. pc # "idle" /\ pc' = "idle" /\ result'.kind = "crashed" /\ store' = store
    BY <1>1 DEF Crash, NoResult, external
  <2>2. Phase # "idle" /\ Phase' = "idle" /\ Told' = "crashed" /\ Evidence' = <<>>
    BY <2>1 DEF Phase, Told, Evidence
  <2>3. QED
    BY <2>1, <2>2 DEF Gate!Crash, Gate!Announce
<1>2. CASE CallerOverwrites \/ UNCHANGED vars
  <2>1. UNCHANGED <<pc, events, store, result>>
    BY <1>2 DEF CallerOverwrites, external, vars
  <2>2. QED
    BY <2>1 DEF Phase, Evidence, Told
<1>3. QED
  BY <1>1, <1>2

\* Every step is a step of the gate or none.
LEMMA GateStep ==
  AccountInv /\ AccountInv' /\ [Next]_vars => [Gate!Next]_<<Phase, Evidence, store, Told>>
<1> SUFFICES ASSUME AccountInv, AccountInv', [Next]_vars
             PROVE  Gate!Next \/ UNCHANGED <<Phase, Evidence, store, Told>>
  OBVIOUS
<1>1. /\ TypeInv /\ EvidenceInv /\ BackendInv /\ WorkInv
      /\ TypeInv' /\ WorkInv'
  BY DEF AccountInv
<1>2. CASE Call \/ CallWithBadArguments
  BY <1>2, CallIsBegun DEF Gate!Next
<1>3. CASE \/ TakeSnapshot \/ CheckBindings \/ CheckHeader \/ PrepareComponent
           \/ PrepareReceipt \/ CheckPayload \/ DryRun \/ RunCallback \/ FinalValidation
  BY <1>1, <1>3, ChecksDecide DEF Gate!Next
<1>4. CASE AppendBatch
  BY <1>1, <1>4, AppendOffers DEF Gate!Next
<1>5. CASE Conclude
  BY <1>1, <1>5, ConcludeAnnounces DEF Gate!Next
<1>6. CASE CallerOverwrites \/ Crash \/ UNCHANGED vars
  BY <1>6, OthersAnnounceNothing DEF Gate!Next
<1>7. QED
  BY <1>2, <1>3, <1>4, <1>5, <1>6 DEF Next, Step, Finished

\* The audited verifier implements the evidence gate, for any receipts, registries,
\* limits, answers of the backend and behaviour of the sink: it decides once,
\* offers its evidence once, and announces a decision only over the whole of it.
THEOREM EvidenceGateImplemented == Spec => ImplementsGate
<1>1. AccountInv /\ AccountInv' /\ [Next]_vars => [Gate!Next]_<<Phase, Evidence, store, Told>>
  BY GateStep
<1>2. QED
  BY <1>1, GateInit, AccountsHold, PTL DEF Spec, ImplementsGate, Gate!GateSpec, Gate!gateVars
=============================================================================
