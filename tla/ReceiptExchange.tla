--------------------------- MODULE ReceiptExchange ---------------------------
(***************************************************************************)
(* A v3.2 receipt on its way: a producer builds it from a list of          *)
(* component verdicts (build_receipt), the transport may change it, and a  *)
(* consumer validates what arrives (validate_receipt).                     *)
(***************************************************************************)
EXTENDS V32Receipt, FiniteSets

CONSTANTS
  Lists,         \* lists of component verdicts a producer may submit
  RequestIds,    \* texts it may name the request with
  Contexts,      \* context hashes, of producer and consumer
  None           \* no receipt

\* Lists are sequences, and what they name components with are texts.
ASSUME ListsAssumption ==
  \A list \in Lists :
    /\ list \in Seq({list[i] : i \in DOMAIN list})
    /\ \A i \in DOMAIN list : list[i].component_id \in [name : STRING, padded : BOOLEAN]

VARIABLES
  pc,        \* "submit", "built", "arrived", "accepted", "refused"
  order,     \* what the producer submitted: [request_id, context_hash, verdicts]
  receipt,   \* the receipt in transit
  edited,    \* the transport has changed it
  expected   \* the consumer's expected_context_hash

vars == <<pc, order, receipt, edited, expected>>

Init ==
  /\ pc = "submit"
  /\ order = None /\ receipt = None /\ edited = FALSE /\ expected = None

\* build_receipt, or the ValueError it raises.
Build ==
  /\ pc = "submit"
  /\ \E request_id \in RequestIds, context_hash \in Contexts, list \in Lists :
       /\ order' = [request_id |-> request_id, context_hash |-> context_hash,
                    verdicts |-> list]
       /\ IF Buildable(request_id, context_hash, list)
          THEN pc' = "built" /\ receipt' = BuiltReceipt(request_id, context_hash, list)
          ELSE pc' = "refused" /\ UNCHANGED receipt
  /\ UNCHANGED <<edited, expected>>

\* External: what may become of one field of a receipt.
FieldEdits(r) ==
  {[r EXCEPT !.faults = {"fields"}], [r EXCEPT !.receipt_hash = <<"other">>],
   [r EXCEPT !.handoff_allowed = ~r.handoff_allowed]}
  \cup {[r EXCEPT !.request_id = id] : id \in RequestIds}
  \cup {[r EXCEPT !.context_hash = c] : c \in Contexts}
  \cup {[r EXCEPT !.final_outcome = outcome] :
          outcome \in {"ALLOW", "DENY", "HUMAN_REVIEW_REQUIRED"}}
  \cup {[r EXCEPT !.component_verdicts = list] : list \in Lists}
  \cup {[r EXCEPT !.component_verdicts = Reverse(r.component_verdicts)]}

\* External: receipt_hash made to fit again.
Rehashed(r) ==
  [r EXCEPT !.receipt_hash = Sha256([r EXCEPT !.receipt_hash = <<>>])]

\* External: the receipt changes in transit.
Change ==
  /\ pc = "built"
  /\ ~edited
  /\ \E r \in FieldEdits(receipt) : receipt' \in {r, Rehashed(r)} \ {receipt}
  /\ edited' = TRUE
  /\ UNCHANGED <<pc, order, expected>>

\* validate_receipt, for a consumer with an expectation of its own.
Validate ==
  /\ pc = "built"
  /\ \E context_hash \in Contexts :
       /\ expected' = context_hash
       /\ pc' = IF ValidReceipt(receipt, context_hash) THEN "accepted" ELSE "refused"
  /\ UNCHANGED <<order, receipt, edited>>

Done == pc \in {"accepted", "refused"} /\ UNCHANGED vars

Next == Build \/ Change \/ Validate \/ Done

Spec == Init /\ [][Next]_vars

-----------------------------------------------------------------------------
(* Properties *)

Accepted == pc = "accepted"

VerdictsFor(id) ==
  {i \in DOMAIN receipt.component_verdicts :
     receipt.component_verdicts[i].component_id.name = id}

\* What each component said, white space aside.
Said(id) == {receipt.component_verdicts[i].decision.name : i \in VerdictsFor(id)}

\* An accepted receipt, changed in transit or not, is one the rules derive from
\* its own verdicts: one verdict per component, each about the context the
\* consumer expects; a DENY or ERROR of any component denies, ALLOW needs all to
\* allow, and only then is the handoff allowed (v3_2_receipt.py:255-265, 304-326).
AcceptedIsDerived ==
  Accepted =>
    /\ \A id \in Supported : Cardinality(VerdictsFor(id)) = 1
    /\ \A i \in DOMAIN receipt.component_verdicts :
         /\ receipt.component_verdicts[i].component_id.name \in Supported
         /\ receipt.component_verdicts[i].context_hash = expected
    /\ receipt.context_hash = expected
    /\ (\E id \in Supported : Said(id) \cap {"DENY", "ERROR"} # {})
         => receipt.final_outcome = "DENY"
    /\ receipt.final_outcome = "ALLOW" <=> \A id \in Supported : Said(id) = {"ALLOW"}
    /\ receipt.handoff_allowed <=> receipt.final_outcome = "ALLOW"

\* What the producer built and nobody changed is accepted by every consumer that
\* expects its context, and by no other (the round trip of build_receipt and
\* validate_receipt, over stripped request ids and sorted verdicts).
RoundTrip ==
  (pc \in {"accepted", "refused"} /\ receipt # None /\ ~edited)
    => (Accepted <=> expected = order.context_hash)

\* The order in which the verdicts are submitted leaves no trace in the receipt
\* (v3_2_receipt.py:285, checked.sort).
OrderLeavesNoTrace ==
  (pc = "built" /\ ~edited) =>
    LET reversed == Reverse(order.verdicts)
    IN  /\ Buildable(order.request_id, order.context_hash, reversed)
        /\ BuiltReceipt(order.request_id, order.context_hash, reversed) = receipt

\* docs/v3/REASON_IDS.md:26: "At least one component verdict denies; the final
\* Shield outcome is deny."
DenyDominates ==
  (receipt # None /\ ~edited) =>
    ((\E id \in Supported : "DENY" \in Said(id)) => receipt.final_outcome = "DENY")
=============================================================================
